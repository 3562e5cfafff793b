----------------------------- MODULE Meaning_proofs -----------------------------
(***************************************************************************)
(* Proof of MeaningPreserved: the IR of an accepted program computes what  *)
(* the program means.                                                      *)
(*                                                                         *)
(* First the recursive functions of both sides: what Run does with one     *)
(* more instruction, and what Bon's TermIn and CallsIn give for a node,    *)
(* from its operands'.  Then BodyInv, which relates the machine after the  *)
(* instructions emitted so far to the statements passed and to the walk    *)
(* that is pending, with one lemma per action; and MeaningInv, for all     *)
(* functions.                                                              *)
(***************************************************************************)
EXTENDS Verdicts_proofs

-----------------------------------------------------------------------------
(* FlattenSeq: the concatenation of a list of lists.                       *)
FlatBody(flat, lists, i) == IF i = 1 THEN lists[i] ELSE flat[i - 1] \o lists[i]
FlatTo(lists, n) ==
  \E flat : /\ flat = [i \in 1 .. Len(lists) |-> flat[i]]
            /\ \A i \in 1 .. Len(lists) : i <= n => flat[i] = FlatBody(flat, lists, i)

LEMMA FlatExists ==
  ASSUME NEW lists, Len(lists) \in Nat
  PROVE  \E flat : flat = [i \in 1 .. Len(lists) |-> FlatBody(flat, lists, i)]
<1> DEFINE S == {n \in Nat : FlatTo(lists, n)}
<1>1. 0 \in S
  <2>1. PICK flat : flat = [i \in 1 .. Len(lists) |-> 0]
    OBVIOUS
  <2>2. flat = [i \in 1 .. Len(lists) |-> flat[i]]
    BY <2>1
  <2>3. \A i \in 1 .. Len(lists) : ~(i <= 0)
    OBVIOUS
  <2> QED BY <2>2, <2>3 DEF FlatTo
<1>2. ASSUME NEW n \in Nat, n \in S PROVE n + 1 \in S
  <2>1. PICK flat : /\ flat = [i \in 1 .. Len(lists) |-> flat[i]]
                    /\ \A i \in 1 .. Len(lists) : i <= n => flat[i] = FlatBody(flat, lists, i)
    BY <1>2 DEF FlatTo
  <2>2. PICK new : new = FlatBody(flat, lists, n + 1)
    OBVIOUS
  <2>3. PICK flat2 : flat2 = [i \in 1 .. Len(lists) |-> IF i = n + 1 THEN new ELSE flat[i]]
    OBVIOUS
  <2>4. flat2 = [i \in 1 .. Len(lists) |-> flat2[i]]
    BY <2>3
  <2>5. ASSUME NEW i \in 1 .. Len(lists), i <= n + 1 PROVE flat2[i] = FlatBody(flat2, lists, i)
    <3>1. i # 1 => flat2[i - 1] = flat[i - 1]
      BY <2>3, <2>5
    <3>2. FlatBody(flat2, lists, i) = FlatBody(flat, lists, i)
      BY <3>1 DEF FlatBody
    <3>3. flat2[i] = IF i = n + 1 THEN new ELSE flat[i]
      BY <2>3
    <3>4. i # n + 1 => i <= n
      BY <2>5
    <3> QED BY <2>1, <2>2, <3>2, <3>3, <3>4
  <2>6. FlatTo(lists, n + 1)
    BY <2>4, <2>5 DEF FlatTo
  <2> QED BY <2>6
<1> HIDE DEF S
<1>3. \A n \in Nat : n \in S
  BY <1>1, <1>2, NatStep
<1>4. FlatTo(lists, Len(lists))
  BY <1>3 DEF S
<1> QED BY <1>4 DEF FlatTo

LEMMA FlatIs ==
  ASSUME NEW lists, Len(lists) \in Nat
  PROVE  \E flat : /\ \A i \in 1 .. Len(lists) : flat[i] = FlatBody(flat, lists, i)
                   /\ FlattenSeq(lists) = IF Len(lists) = 0 THEN lists ELSE flat[Len(lists)]
<1> DEFINE flat == CHOOSE fl : fl = [i \in 1 .. Len(lists) |-> FlatBody(fl, lists, i)]
<1>1. flat = [i \in 1 .. Len(lists) |-> FlatBody(flat, lists, i)]
  BY FlatExists, Zenon
<1>2. FlattenSeq(lists) = IF Len(lists) = 0 THEN lists ELSE flat[Len(lists)]
  BY Zenon DEF FlattenSeq, FlatBody
<1> HIDE DEF flat
<1>3. \A i \in 1 .. Len(lists) : flat[i] = FlatBody(flat, lists, i)
  BY <1>1
<1> QED BY <1>2, <1>3

LEMMA FlatNone == FlattenSeq(<< >>) = << >>
<1>1. Len(<< >>) = 0
  BY EmptySeq
<1> QED BY <1>1, FlatIs

(* One list more at the end.                                               *)
LEMMA FlatMore ==
  ASSUME NEW S, NEW lists \in Seq(Seq(S)), NEW list \in Seq(S)
  PROVE  FlattenSeq(Append(lists, list)) = FlattenSeq(lists) \o list
<1>0. PICK more : more = Append(lists, list)
  OBVIOUS
<1>1. /\ Len(lists) \in Nat /\ Len(more) = Len(lists) + 1
      /\ \A i \in 1 .. Len(lists) + 1 : more[i] = IF i <= Len(lists) THEN lists[i] ELSE list
  BY <1>0, OneMore
<1>2. PICK flat : /\ \A i \in 1 .. Len(lists) : flat[i] = FlatBody(flat, lists, i)
                  /\ FlattenSeq(lists) = IF Len(lists) = 0 THEN lists ELSE flat[Len(lists)]
  BY <1>1, FlatIs
<1>3. PICK flat2 : /\ \A i \in 1 .. Len(more) : flat2[i] = FlatBody(flat2, more, i)
                   /\ FlattenSeq(more) = IF Len(more) = 0 THEN more ELSE flat2[Len(more)]
  BY <1>1, FlatIs
<1> DEFINE T == {n \in Nat : n + 1 <= Len(lists) => flat2[n + 1] = flat[n + 1]}
<1>4. 0 \in T
  <2> SUFFICES ASSUME 1 <= Len(lists) PROVE flat2[1] = flat[1]
    OBVIOUS
  <2>1. flat2[1] = FlatBody(flat2, more, 1) /\ flat[1] = FlatBody(flat, lists, 1)
    BY <1>1, <1>2, <1>3
  <2> QED BY <1>1, <2>1 DEF FlatBody
<1>5. ASSUME NEW n \in Nat, n \in T PROVE n + 1 \in T
  <2> SUFFICES ASSUME n + 1 + 1 <= Len(lists) PROVE flat2[n + 1 + 1] = flat[n + 1 + 1]
    OBVIOUS
  <2>1. /\ flat2[n + 1 + 1] = FlatBody(flat2, more, n + 1 + 1)
        /\ flat[n + 1 + 1] = FlatBody(flat, lists, n + 1 + 1)
    BY <1>1, <1>2, <1>3
  <2>2. flat2[n + 1] = flat[n + 1] /\ more[n + 1 + 1] = lists[n + 1 + 1]
    BY <1>1, <1>5
  <2>3. PICK k, j : k = n + 1 + 1 /\ j = n + 1 /\ k # 1 /\ k - 1 = j
    OBVIOUS
  <2>4. /\ flat2[k] = FlatBody(flat2, more, k) /\ flat[k] = FlatBody(flat, lists, k)
        /\ flat2[j] = flat[j] /\ more[k] = lists[k]
    BY <2>1, <2>2, <2>3
  <2>5. FlatBody(flat2, more, k) = FlatBody(flat, lists, k)
    BY <2>3, <2>4, Zenon DEF FlatBody
  <2> QED BY <2>3, <2>4, <2>5
<1> HIDE DEF T
<1>6. \A n \in Nat : n \in T
  BY <1>4, <1>5, NatStep
<1>7. flat2[Len(lists) + 1] = FlatBody(flat2, more, Len(lists) + 1) /\ more[Len(lists) + 1] = list
  BY <1>1, <1>3
<1>8. FlattenSeq(more) = flat2[Len(lists) + 1]
  BY <1>1, <1>3
<1>9. CASE Len(lists) = 0
  <2>1. lists = << >> /\ << >> \o list = list
    BY <1>9, EmptySeq, ConcatEmptySeq
  <2> QED BY <1>0, <1>2, <1>7, <1>8, <1>9, <2>1 DEF FlatBody
<1>10. CASE Len(lists) # 0
  <2>1. Len(lists) - 1 \in Nat /\ Len(lists) - 1 + 1 = Len(lists)
    BY <1>1, <1>10
  <2>2. flat2[Len(lists)] = flat[Len(lists)]
    <3>1. Len(lists) - 1 \in T
      BY <1>6, <2>1
    <3> QED BY <1>1, <2>1, <3>1 DEF T
  <2>3. PICK k, l : k = Len(lists) + 1 /\ l = Len(lists) /\ k # 1 /\ k - 1 = l
    BY <1>1, <1>10
  <2>4. FlatBody(flat2, more, k) = flat2[l] \o more[k]
    BY <2>3, Zenon DEF FlatBody
  <2>5. FlattenSeq(lists) = flat[l]
    BY <1>2, <1>10, <2>3
  <2> QED BY <1>0, <1>7, <1>8, <2>2, <2>3, <2>4, <2>5, Zenon
<1> QED BY <1>9, <1>10

(* A list of lists is made by adding them one by one.                      *)
LEMMA LastOff ==
  ASSUME NEW S, NEW n \in Nat, NEW list \in Seq(S), Len(list) = n + 1
  PROVE  \E front \in Seq(S), last \in S : list = Append(front, last) /\ Len(front) = n
<1>1. list # << >>
  BY EmptySeq
<1>2. PICK front \in Seq(S), last \in S : list = Append(front, last)
  BY <1>1, SequenceEmptyOrAppend
<1>3. Len(front) \in Nat /\ Len(list) = Len(front) + 1
  BY <1>2, OneMore
<1>4. Len(front) = n
  BY <1>3
<1> QED BY <1>2, <1>4

LEMMA FlatIn ==
  ASSUME NEW S, NEW lists \in Seq(Seq(S))
  PROVE  FlattenSeq(lists) \in Seq(S)
<1> DEFINE T == {n \in Nat : \A l \in Seq(Seq(S)) : Len(l) = n => FlattenSeq(l) \in Seq(S)}
<1>1. 0 \in T
  <2>1. ASSUME NEW l \in Seq(Seq(S)), Len(l) = 0 PROVE FlattenSeq(l) \in Seq(S)
    <3>1. l = << >> /\ << >> \in Seq(S)
      BY <2>1, EmptySeq
    <3> QED BY <3>1, FlatNone
  <2> QED BY <2>1
<1>2. ASSUME NEW n \in Nat, n \in T PROVE n + 1 \in T
  <2>1. ASSUME NEW l \in Seq(Seq(S)), Len(l) = n + 1 PROVE FlattenSeq(l) \in Seq(S)
    <3>1. PICK front \in Seq(Seq(S)), last \in Seq(S) : l = Append(front, last) /\ Len(front) = n
      BY <2>1, LastOff
    <3>2. FlattenSeq(front) \in Seq(S)
      BY <1>2, <3>1
    <3>3. FlattenSeq(l) = FlattenSeq(front) \o last
      BY <3>1, FlatMore
    <3> QED BY <3>2, <3>3, ConcatProperties
  <2> QED BY <2>1
<1> HIDE DEF T
<1>3. \A n \in Nat : n \in T
  BY <1>1, <1>2, NatStep
<1>4. Len(lists) \in T
  BY <1>3, LenProperties
<1> QED BY <1>4 DEF T

LEMMA FlatCat ==
  ASSUME NEW S, NEW lists \in Seq(Seq(S)), NEW more \in Seq(Seq(S))
  PROVE  FlattenSeq(lists \o more) = FlattenSeq(lists) \o FlattenSeq(more)
<1> DEFINE T == {n \in Nat : \A l \in Seq(Seq(S)) : Len(l) = n =>
                   FlattenSeq(lists \o l) = FlattenSeq(lists) \o FlattenSeq(l)}
<1>0. FlattenSeq(lists) \in Seq(S)
  BY FlatIn
<1>1. 0 \in T
  <2>1. ASSUME NEW l \in Seq(Seq(S)), Len(l) = 0
        PROVE  FlattenSeq(lists \o l) = FlattenSeq(lists) \o FlattenSeq(l)
    <3>1. l = << >>
      BY <2>1, EmptySeq
    <3>2. lists \o << >> = lists /\ FlattenSeq(lists) \o << >> = FlattenSeq(lists)
      BY <1>0, ConcatEmptySeq
    <3> QED BY <3>1, <3>2, FlatNone
  <2> QED BY <2>1
<1>2. ASSUME NEW n \in Nat, n \in T PROVE n + 1 \in T
  <2>1. ASSUME NEW l \in Seq(Seq(S)), Len(l) = n + 1
        PROVE  FlattenSeq(lists \o l) = FlattenSeq(lists) \o FlattenSeq(l)
    <3>1. PICK front \in Seq(Seq(S)), last \in Seq(S) : l = Append(front, last) /\ Len(front) = n
      BY <2>1, LastOff
    <3>2. FlattenSeq(lists \o front) = FlattenSeq(lists) \o FlattenSeq(front)
      BY <1>2, <3>1
    <3>3. FlattenSeq(l) = FlattenSeq(front) \o last /\ FlattenSeq(front) \in Seq(S)
      BY <3>1, FlatMore, FlatIn
    <3>4. lists \o l = Append(lists \o front, last) /\ lists \o front \in Seq(Seq(S))
      <4>1. lists \o front \in Seq(Seq(S)) /\ <<last>> \in Seq(Seq(S))
        BY ConcatProperties, OneElement
      <4>2. l = front \o <<last>> /\ Append(lists \o front, last) = (lists \o front) \o <<last>>
        BY <3>1, <4>1, AppendIsConcat
      <4>3. (lists \o front) \o <<last>> = lists \o (front \o <<last>>)
        BY <4>1, ConcatAssociative, SMTT(60)
      <4> QED BY <4>1, <4>2, <4>3
    <3>5. FlattenSeq(lists \o l) = FlattenSeq(lists \o front) \o last
      BY <3>4, FlatMore
    <3>6. PICK a, b : a = FlattenSeq(lists) /\ b = FlattenSeq(front)
      OBVIOUS
    <3>7. a \in Seq(S) /\ b \in Seq(S)
      BY <1>0, <3>3, <3>6
    <3>8. (a \o b) \o last = a \o (b \o last)
      BY <3>7, ConcatAssociative, SMTT(60)
    <3> QED BY <3>2, <3>3, <3>5, <3>6, <3>8
  <2> QED BY <2>1
<1> HIDE DEF T
<1>3. \A n \in Nat : n \in T
  BY <1>1, <1>2, NatStep
<1>4. Len(more) \in T
  BY <1>3, LenProperties
<1> QED BY <1>4 DEF T

LEMMA FlatOne ==
  ASSUME NEW S, NEW list \in Seq(S)
  PROVE  FlattenSeq(<<list>>) = list
<1>1. << >> \in Seq(Seq(S)) /\ Append(<< >>, list) = << >> \o <<list>>
  BY EmptySeq, AppendIsConcat
<1>2. <<list>> \in Seq(Seq(S))
  BY OneElement
<1>3. << >> \o <<list>> = <<list>> /\ << >> \o list = list
  BY <1>2, ConcatEmptySeq
<1> QED BY <1>1, <1>3, FlatMore, FlatNone

-----------------------------------------------------------------------------
(* What the nodes mean.                                                    *)
Values == 0 .. Len(prog.exprs)
ArgTerms(term, i, n) == [k \in 1 .. Len(Expr(n).args) |-> term[<<i, Expr(n).args[k]>>]]
LetTerm(term, g, b) == term[<<b.at, StmtAt(g, b.at).value>>]
TermBody(term, g, i, n) ==
  LET b == B!Binding(Expr(n).name, g, i)
      type == TypeAt(g, i, n)
  IN  CASE n # 0 /\ Expr(n).t = "int" -> <<"int", B!Bits(Expr(n).type), Expr(n).val>>
        [] n # 0 /\ Expr(n).t = "binop" ->
             <<Expr(n).op, B!Sign(Expr(n).op, type), B!Bits(type), ArgTerms(term, i, n)>>
        [] n # 0 /\ Expr(n).t = "funcall" -> <<"call", Expr(n).name, ArgTerms(term, i, n)>>
        [] n # 0 /\ Expr(n).t = "var" /\ b.kind = "param" -> <<"param", b.at>>
        [] n # 0 /\ Expr(n).t = "var" /\ b.kind = "let" /\ b.at # i -> LetTerm(term, g, b)
        [] OTHER -> <<"none">>

LEMMA TermsAre ==
  ASSUME NEW g
  PROVE  B!TermIn(g) = CHOOSE term :
           term = [o \in StmtsIn(g) \X Values |-> TermBody(term, g, o[1], o[2])]
  BY Zenon DEF B!TermIn, TermBody, ArgTerms, LetTerm, TypeAt, StmtsIn, StmtAt, Values, B!Stmts, B!Node, Expr

LEMMA StmtValue ==
  ASSUME prog \in Programs, NEW g \in Fns, NEW i \in StmtsIn(g)
  PROVE  StmtAt(g, i).value \in Values
<1>1. Len(prog.exprs) \in Nat
  BY ProgramShape
<1> QED BY <1>1, ValueNode DEF Values, Nodes, NULL

(* What a term is made of comes before it.                                 *)
LEMMA TermAgrees ==
  ASSUME prog \in Programs, NEW g \in Fns, NEW i \in StmtsIn(g), NEW n \in Values, NEW term, NEW term2,
         \A m \in Values : m < n => term[<<i, m>>] = term2[<<i, m>>],
         \A j \in StmtsIn(g), m \in Values : j < i => term[<<j, m>>] = term2[<<j, m>>]
  PROVE  TermBody(term, g, i, n) = TermBody(term2, g, i, n)
<1> DEFINE b == B!Binding(Expr(n).name, g, i)
           type == TypeAt(g, i, n)
<1>0. Len(prog.exprs) \in Nat /\ (n # 0 => n \in Nodes)
  BY ProgramShape DEF Values, Nodes
<1>1. n # 0 => ArgTerms(term, i, n) = ArgTerms(term2, i, n)
  <2>1. ASSUME n # 0, NEW k \in 1 .. Len(Expr(n).args)
        PROVE  term[<<i, Expr(n).args[k]>>] = term2[<<i, Expr(n).args[k]>>]
    <3>1. Expr(n).args[k] \in 1 .. n - 1 /\ Expr(n).args[k] \in Nodes
      BY <1>0, <2>1, ArgsBelow
    <3>2. Expr(n).args[k] < n /\ Expr(n).args[k] \in Values
      BY <1>0, <3>1 DEF Values, Nodes
    <3> QED BY <3>2
  <2> QED BY <2>1 DEF ArgTerms
<1>2. b.kind = "let" /\ b.at # i => LetTerm(term, g, b) = LetTerm(term2, g, b)
  <2> SUFFICES ASSUME b.kind = "let", b.at # i PROVE LetTerm(term, g, b) = LetTerm(term2, g, b)
    OBVIOUS
  <2>1. b.at \in StmtsIn(g) /\ b.at <= i
    BY BoundToLet
  <2>2. StmtAt(g, b.at).value \in Values
    BY <2>1, StmtValue
  <2>3. Len(prog.fns[g].stmts) \in Nat
    BY ProgramShape
  <2> HIDE DEF b
  <2>4. b.at < i
    BY <2>1, <2>3 DEF StmtsIn
  <2> QED BY <2>1, <2>2, <2>4 DEF LetTerm
<1> HIDE DEF b, type
<1>3. \A t : TermBody(t, g, i, n) =
      CASE n # 0 /\ Expr(n).t = "int" -> <<"int", B!Bits(Expr(n).type), Expr(n).val>>
        [] n # 0 /\ Expr(n).t = "binop" ->
             <<Expr(n).op, B!Sign(Expr(n).op, type), B!Bits(type), ArgTerms(t, i, n)>>
        [] n # 0 /\ Expr(n).t = "funcall" -> <<"call", Expr(n).name, ArgTerms(t, i, n)>>
        [] n # 0 /\ Expr(n).t = "var" /\ b.kind = "param" -> <<"param", b.at>>
        [] n # 0 /\ Expr(n).t = "var" /\ b.kind = "let" /\ b.at # i -> LetTerm(t, g, b)
        [] OTHER -> <<"none">>
  BY Zenon DEF TermBody, b, type
<1>4. CASE n # 0 /\ Expr(n).t \in {"binop", "funcall"}
  BY <1>1, <1>3, <1>4
<1>5. CASE n # 0 /\ Expr(n).t = "var" /\ b.kind = "let" /\ b.at # i
  BY <1>2, <1>3, <1>5
<1>6. CASE ~(n # 0 /\ Expr(n).t \in {"binop", "funcall"})
           /\ ~(n # 0 /\ Expr(n).t = "var" /\ b.kind = "let" /\ b.at # i)
  BY <1>3, <1>6
<1> QED BY <1>4, <1>5, <1>6

(* So they can be made one after the other.                                *)
TermsTo(g, i, n) ==
  \E term : /\ term = [o \in StmtsIn(g) \X Values |-> term[o]]
            /\ \A o \in StmtsIn(g) \X Values : Before(o, i, n) => term[o] = TermBody(term, g, o[1], o[2])

LEMMA PairOf ==
  ASSUME NEW S, NEW T, NEW o \in S \X T
  PROVE  \E x \in S, y \in T : o = <<x, y>>
  OBVIOUS

LEMMA NextTerm ==
  ASSUME prog \in Programs, NEW g \in Fns, NEW i \in StmtsIn(g), NEW n \in Values, NEW a, NEW c,
         n = 0 => a = i - 1 /\ c = Len(prog.exprs), n # 0 => a = i /\ c = n - 1, TermsTo(g, a, c)
  PROVE  TermsTo(g, i, n)
<1>1. PICK term : /\ term = [o \in StmtsIn(g) \X Values |-> term[o]]
                  /\ \A o \in StmtsIn(g) \X Values :
                       Before(o, a, c) => term[o] = TermBody(term, g, o[1], o[2])
  BY DEF TermsTo
<1>2. PICK new : new = TermBody(term, g, i, n)
  OBVIOUS
<1>3. PICK term2 : term2 = [o \in StmtsIn(g) \X Values |-> IF o = <<i, n>> THEN new ELSE term[o]]
  OBVIOUS
<1>4. term2 = [o \in StmtsIn(g) \X Values |-> term2[o]]
  BY <1>3
<1>5. Len(prog.exprs) \in Nat /\ Len(prog.fns[g].stmts) \in Nat
  BY ProgramShape
<1>6. ASSUME NEW o \in StmtsIn(g) \X Values, Before(o, i, n)
      PROVE  term2[o] = TermBody(term2, g, o[1], o[2])
  <2>1. PICK j \in StmtsIn(g), m \in Values : o = <<j, m>>
    BY PairOf
  <2>2. j < i \/ (j = i /\ m <= n)
    BY <1>6, <2>1 DEF Before
  <2>3. j \in Nat /\ m \in Nat /\ i \in Nat /\ m <= Len(prog.exprs)
    BY <1>5 DEF StmtsIn, Values
  <2>4. \A l \in Values : l < m => term[<<j, l>>] = term2[<<j, l>>]
    <3>1. ASSUME NEW l \in Values, l < m PROVE term[<<j, l>>] = term2[<<j, l>>]
      <4>1. l \in Nat
        BY <1>5 DEF Values
      <4>2. ~(j = i /\ l = n)
        BY <2>2, <2>3, <3>1, <4>1
      <4>3. <<j, l>> # <<i, n>> /\ <<j, l>> \in StmtsIn(g) \X Values
        BY <4>2
      <4> QED BY <1>3, <4>3
    <3> QED BY <3>1
  <2>5. \A j2 \in StmtsIn(g), l \in Values : j2 < j => term[<<j2, l>>] = term2[<<j2, l>>]
    <3>1. ASSUME NEW j2 \in StmtsIn(g), NEW l \in Values, j2 < j PROVE term[<<j2, l>>] = term2[<<j2, l>>]
      <4>1. j2 \in Nat
        BY <1>5 DEF StmtsIn
      <4>2. j2 # i
        BY <2>2, <2>3, <3>1, <4>1
      <4>3. <<j2, l>> # <<i, n>> /\ <<j2, l>> \in StmtsIn(g) \X Values
        BY <4>2
      <4> QED BY <1>3, <4>3
    <3> QED BY <3>1
  <2>6. TermBody(term, g, j, m) = TermBody(term2, g, j, m)
    BY <2>4, <2>5, TermAgrees, ZenonT(60)
  <2>7. CASE j = i /\ m = n
    <3>1. term2[o] = new
      BY <1>3, <2>1, <2>7
    <3> QED BY <1>2, <2>1, <2>6, <2>7, <3>1
  <2>8. CASE ~(j = i /\ m = n)
    <3>1. j < a \/ (j = a /\ m <= c)
      <4>1. CASE n = 0
        <5>1. a = i - 1 /\ c = Len(prog.exprs)
          BY <4>1
        <5> QED BY <2>2, <2>3, <2>8, <4>1, <5>1
      <4>2. CASE n # 0
        <5>1. a = i /\ c = n - 1
          BY <4>2
        <5> QED BY <2>2, <2>3, <2>8, <4>2, <5>1
      <4> QED BY <4>1, <4>2
    <3>2. Before(o, a, c)
      BY <2>1, <3>1 DEF Before
    <3>3. term[o] = TermBody(term, g, j, m)
      BY <1>1, <2>1, <3>2
    <3>4. o # <<i, n>>
      BY <2>1, <2>8
    <3>5. term2[o] = term[o]
      BY <1>3, <3>4
    <3> QED BY <2>1, <2>6, <3>3, <3>5
  <2> QED BY <2>7, <2>8
<1> QED BY <1>4, <1>6 DEF TermsTo

LEMMA AllTerms ==
  ASSUME prog \in Programs, NEW g \in Fns
  PROVE  \E term : term = [o \in StmtsIn(g) \X Values |-> TermBody(term, g, o[1], o[2])]
<1> DEFINE last == Len(prog.exprs)
           Row(i) == {n \in Nat : n <= last => TermsTo(g, i, n)}
           S == {i \in Nat : i <= Len(prog.fns[g].stmts) => TermsTo(g, i, last)}
<1>1. Len(prog.fns[g].stmts) \in Nat /\ last \in Nat
  BY ProgramShape
<1>2. TermsTo(g, 0, last)
  <2>1. PICK term : term = [o \in StmtsIn(g) \X Values |-> 0]
    OBVIOUS
  <2>2. term = [o \in StmtsIn(g) \X Values |-> term[o]]
    BY <2>1
  <2>3. \A o \in StmtsIn(g) \X Values : ~Before(o, 0, last)
    BY <1>1 DEF Before, StmtsIn
  <2> QED BY <2>2, <2>3 DEF TermsTo
<1>3. ASSUME NEW i \in Nat, i \in S PROVE i + 1 \in S
  <2> SUFFICES ASSUME i + 1 <= Len(prog.fns[g].stmts) PROVE TermsTo(g, i + 1, last)
    OBVIOUS
  <2>0. PICK i2 : i2 = i + 1
    OBVIOUS
  <2>1. i2 \in StmtsIn(g) /\ i2 - 1 = i /\ TermsTo(g, i, last)
    BY <1>1, <1>3, <2>0 DEF StmtsIn
  <2>2. 0 \in Row(i2)
    <3>1. 0 \in Values
      BY <1>1 DEF Values
    <3>2. TermsTo(g, i2, 0)
      BY <2>1, <3>1, NextTerm
    <3> QED BY <3>2
  <2>3. ASSUME NEW n \in Nat, n \in Row(i2) PROVE n + 1 \in Row(i2)
    <3> SUFFICES ASSUME n + 1 <= last PROVE TermsTo(g, i2, n + 1)
      OBVIOUS
    <3>1. PICK n2 : n2 = n + 1
      OBVIOUS
    <3>2. n2 - 1 = n /\ n2 # 0
      BY <3>1
    <3>3. n2 \in Values /\ TermsTo(g, i2, n)
      BY <1>1, <2>3, <3>1 DEF Values
    <3>4. TermsTo(g, i2, n2)
      BY <2>1, <3>2, <3>3, NextTerm
    <3> QED BY <3>1, <3>4
  <2> HIDE DEF Row
  <2>4. \A n \in Nat : n \in Row(i2)
    BY <2>2, <2>3, NatStep
  <2> QED BY <1>1, <2>0, <2>4 DEF Row
<1>4. 0 \in S
  BY <1>2
<1> HIDE DEF S
<1>5. \A i \in Nat : i \in S
  BY <1>3, <1>4, NatStep
<1>6. TermsTo(g, Len(prog.fns[g].stmts), last)
  BY <1>1, <1>5 DEF S
<1>7. \A o \in StmtsIn(g) \X Values : Before(o, Len(prog.fns[g].stmts), last)
  BY <1>1 DEF Before, StmtsIn, Values
<1> QED BY <1>6, <1>7 DEF TermsTo

(* The term of a node of a statement.                                      *)
TermAt(g, i, n) == B!TermIn(g)[<<i, n>>]

LEMMA TermDef ==
  ASSUME prog \in Programs, NEW g \in Fns, NEW i \in StmtsIn(g), NEW n \in Values
  PROVE  TermAt(g, i, n) = TermBody(B!TermIn(g), g, i, n)
<1>1. PICK term : term = B!TermIn(g)
  OBVIOUS
<1>2. term = [o \in StmtsIn(g) \X Values |-> TermBody(term, g, o[1], o[2])]
  BY <1>1, TermsAre, AllTerms, Zenon
<1>3. <<i, n>> \in StmtsIn(g) \X Values
  OBVIOUS
<1>4. term[<<i, n>>] = TermBody(term, g, i, n)
  BY <1>2, <1>3
<1> QED BY <1>1, <1>4 DEF TermAt

-----------------------------------------------------------------------------
(* The calls made for the nodes.                                           *)
ArgCalls(calls, n) == [k \in 1 .. Len(Expr(n).args) |-> calls[Expr(n).args[k]]]
CallsBody(calls, term, i, n) ==
  IF n = 0 THEN << >>
  ELSE FlattenSeq(ArgCalls(calls, n)) \o (IF Expr(n).t = "funcall" THEN <<term[<<i, n>>]>> ELSE << >>)

LEMMA CallsAre ==
  ASSUME NEW term, NEW i
  PROVE  B!CallsIn(term, i) = CHOOSE calls : calls = [n \in Values |-> CallsBody(calls, term, i, n)]
  BY Zenon DEF B!CallsIn, B!FlattenSeq, FlattenSeq, CallsBody, ArgCalls, Values, B!Node, Expr

LEMMA CallsAgree ==
  ASSUME NEW term, NEW i, NEW n, NEW calls, NEW calls2,
         n # 0 => \A k \in 1 .. Len(Expr(n).args) : calls[Expr(n).args[k]] = calls2[Expr(n).args[k]]
  PROVE  CallsBody(calls, term, i, n) = CallsBody(calls2, term, i, n)
<1>1. n # 0 => ArgCalls(calls, n) = ArgCalls(calls2, n)
  <2> SUFFICES ASSUME n # 0 PROVE ArgCalls(calls, n) = ArgCalls(calls2, n)
    OBVIOUS
  <2>1. PICK e : e = Expr(n)
    OBVIOUS
  <2>2. \A k \in 1 .. Len(e.args) : calls[e.args[k]] = calls2[e.args[k]]
    BY <2>1
  <2>3. [k \in 1 .. Len(e.args) |-> calls[e.args[k]]] = [k \in 1 .. Len(e.args) |-> calls2[e.args[k]]]
    BY <2>2
  <2> QED BY <2>1, <2>3, Zenon DEF ArgCalls
<1>2. CASE n = 0
  BY <1>2 DEF CallsBody
<1>3. CASE n # 0
  BY <1>1, <1>3, Zenon DEF CallsBody
<1> QED BY <1>2, <1>3

LEMMA CallsExist ==
  ASSUME prog \in Programs, NEW term, NEW i
  PROVE  \E calls : calls = [n \in Values |-> CallsBody(calls, term, i, n)]
<1> DEFINE Ok(m) == \E calls : calls = [n \in 0 .. m |-> CallsBody(calls, term, i, n)]
           S == {m \in Nat : m <= Len(prog.exprs) => Ok(m)}
<1>0. Len(prog.exprs) \in Nat
  BY ProgramShape
<1>1. 0 \in S
  <2>1. PICK calls : calls = [n \in 0 .. 0 |-> << >>]
    OBVIOUS
  <2>2. \A n \in 0 .. 0 : CallsBody(calls, term, i, n) = << >>
    BY DEF CallsBody
  <2>3. calls = [n \in 0 .. 0 |-> CallsBody(calls, term, i, n)]
    BY <2>1, <2>2
  <2> QED BY <2>3
<1>2. ASSUME NEW m \in Nat, m \in S PROVE m + 1 \in S
  <2> SUFFICES ASSUME m + 1 <= Len(prog.exprs) PROVE Ok(m + 1)
    OBVIOUS
  <2>1. PICK calls : calls = [n \in 0 .. m |-> CallsBody(calls, term, i, n)]
    BY <1>0, <1>2
  <2>2. PICK more : more = [n \in 0 .. m + 1 |-> IF n <= m THEN calls[n] ELSE CallsBody(calls, term, i, n)]
    OBVIOUS
  <2>3. ASSUME NEW n \in 0 .. m + 1 PROVE CallsBody(more, term, i, n) = CallsBody(calls, term, i, n)
    <3>1. ASSUME n # 0, NEW k \in 1 .. Len(Expr(n).args)
          PROVE  more[Expr(n).args[k]] = calls[Expr(n).args[k]]
      <4>1. n \in Nodes
        BY <1>0, <3>1, <2>3 DEF Nodes
      <4>2. Expr(n).args[k] \in 1 .. n - 1
        BY <3>1, <4>1, ArgsBelow
      <4>3. Expr(n).args[k] \in 0 .. m
        BY <4>2
      <4> QED BY <2>2, <4>3
    <3> QED BY <3>1, CallsAgree
  <2>4. more = [n \in 0 .. m + 1 |-> CallsBody(more, term, i, n)]
    <3>1. \A n \in 0 .. m + 1 : more[n] = CallsBody(more, term, i, n)
      BY <2>1, <2>2, <2>3
    <3> QED BY <2>2, <3>1
  <2> QED BY <2>4
<1> HIDE DEF Ok
<1>3. \A n \in Nat : n \in S
  BY <1>1, <1>2, NatStep
<1>4. Ok(Len(prog.exprs))
  BY <1>0, <1>3
<1> QED BY <1>4 DEF Ok, Values

(* The calls of a node: those of its operands, and the node itself.        *)
CallsAt(g, i, n) == B!CallsIn(B!TermIn(g), i)[n]
OperandCalls(g, i, n) == [k \in 1 .. Len(Expr(n).args) |-> CallsAt(g, i, Expr(n).args[k])]
OwnCall(g, i, n) == IF Expr(n).t = "funcall" THEN <<TermAt(g, i, n)>> ELSE << >>

LEMMA CallsDef ==
  ASSUME prog \in Programs, NEW g, NEW i, NEW n \in Values
  PROVE  CallsAt(g, i, n) =
           IF n = 0 THEN << >> ELSE FlattenSeq(OperandCalls(g, i, n)) \o OwnCall(g, i, n)
<1>1. PICK term, calls : term = B!TermIn(g) /\ calls = B!CallsIn(term, i)
  OBVIOUS
<1>2. calls = [m \in Values |-> CallsBody(calls, term, i, m)]
  <2>1. B!CallsIn(term, i) = CHOOSE c : c = [m \in Values |-> CallsBody(c, term, i, m)]
    BY CallsAre
  <2>2. \E c : c = [m \in Values |-> CallsBody(c, term, i, m)]
    BY CallsExist, ZenonT(60)
  <2>3. PICK d : d = CHOOSE c : c = [m \in Values |-> CallsBody(c, term, i, m)]
    OBVIOUS
  <2>4. d = [m \in Values |-> CallsBody(d, term, i, m)]
    BY <2>2, <2>3, Zenon
  <2>5. calls = d
    BY <1>1, <2>1, <2>3
  <2> QED BY <2>4, <2>5
<1>3. calls[n] = CallsBody(calls, term, i, n)
  BY <1>2
<1>4. ArgCalls(calls, n) = OperandCalls(g, i, n)
  <2>1. calls = B!CallsIn(B!TermIn(g), i)
    BY <1>1, Zenon
  <2> QED BY <2>1, Zenon DEF ArgCalls, OperandCalls, CallsAt
<1>5. (IF Expr(n).t = "funcall" THEN <<term[<<i, n>>]>> ELSE << >>) = OwnCall(g, i, n)
  BY <1>1, Zenon DEF OwnCall, TermAt
<1>6. CallsAt(g, i, n) = calls[n]
  BY <1>1, Zenon DEF CallsAt
<1> QED BY <1>3, <1>4, <1>5, <1>6, Zenon DEF CallsBody

LEMMA CallsAreTerms ==
  ASSUME prog \in Programs, NEW g, NEW i, NEW n \in Values, NEW T, \A m \in Nodes : TermAt(g, i, m) \in T
  PROVE  /\ CallsAt(g, i, n) \in Seq(T)
         /\ n # 0 => OperandCalls(g, i, n) \in Seq(Seq(T))
         /\ n # 0 => OwnCall(g, i, n) \in Seq(T)
<1> DEFINE S == {m \in Nat : m \in Values => CallsAt(g, i, m) \in Seq(T)}
<1>0. Len(prog.exprs) \in Nat /\ \A m \in Values : m \in Nat /\ (m # 0 => m \in Nodes)
  BY ProgramShape DEF Values, Nodes
<1>1. \A m \in Values : m # 0 => OwnCall(g, i, m) \in Seq(T)
  <2>1. ASSUME NEW m \in Values, m # 0 PROVE OwnCall(g, i, m) \in Seq(T)
    <3>1. TermAt(g, i, m) \in T
      BY <1>0, <2>1
    <3>2. <<TermAt(g, i, m)>> \in Seq(T) /\ << >> \in Seq(T)
      BY <3>1, OneElement, EmptySeq
    <3> QED BY <3>2 DEF OwnCall
  <2> QED BY <2>1
<1>2. ASSUME NEW m \in Values, m # 0, \A j \in Nat : j < m => j \in S
      PROVE  OperandCalls(g, i, m) \in Seq(Seq(T))
  <2>1. Expr(m).args \in Seq(Nat) /\ Len(Expr(m).args) \in Nat
    BY <1>0, <1>2, ProgramShape, ElementOfSeq, LenProperties DEF Expr, Exprs, Nodes
  <2>2. ASSUME NEW k \in 1 .. Len(Expr(m).args) PROVE CallsAt(g, i, Expr(m).args[k]) \in Seq(T)
    <3>1. Expr(m).args[k] \in 1 .. m - 1 /\ Expr(m).args[k] \in Nodes
      BY <1>0, <1>2, ArgsBelow
    <3>2. Expr(m).args[k] \in Nat /\ Expr(m).args[k] < m /\ Expr(m).args[k] \in Values
      BY <1>0, <3>1 DEF Values, Nodes
    <3> QED BY <1>2, <3>2
  <2>3. PICK len : len = Len(Expr(m).args)
    OBVIOUS
  <2>4. OperandCalls(g, i, m) \in [1 .. len -> Seq(T)]
    BY <2>2, <2>3 DEF OperandCalls
  <2> QED BY <2>1, <2>3, <2>4, SeqDef, Z3T(60)
<1>3. ASSUME NEW m \in Nat, \A j \in Nat : j < m => j \in S PROVE m \in S
  <2> SUFFICES ASSUME m \in Values PROVE CallsAt(g, i, m) \in Seq(T)
    OBVIOUS
  <2>1. CASE m = 0
    BY <2>1, CallsDef, EmptySeq
  <2>2. CASE m # 0
    <3>1. PICK a, c : a = FlattenSeq(OperandCalls(g, i, m)) /\ c = OwnCall(g, i, m)
      OBVIOUS
    <3>2. OperandCalls(g, i, m) \in Seq(Seq(T))
      BY <1>2, <1>3, <2>2
    <3>3. a \in Seq(T)
      BY <3>1, <3>2, FlatIn
    <3>4. c \in Seq(T)
      BY <1>1, <2>2, <3>1
    <3>5. a \o c \in Seq(T)
      BY <3>3, <3>4, ConcatProperties
    <3> QED BY <2>2, <3>1, <3>5, CallsDef
  <2> QED BY <2>1, <2>2
<1>4. \A m \in Nat : m \in S
  BY <1>3, NatStrong
<1>5. n # 0 => OperandCalls(g, i, n) \in Seq(Seq(T))
  BY <1>2, <1>4
<1> QED BY <1>0, <1>1, <1>4, <1>5

-----------------------------------------------------------------------------
(* The machine.                                                            *)
StartOf(params) ==
  [regs |-> [r \in Range(params) |-> <<"param", CHOOSE k \in DOMAIN params : params[k] = r>>],
   calls |-> << >>, ret |-> <<"end">>]
RunBody(run, fn, called, i) ==
  IF i = 0 THEN Start(fn) ELSE Exec(run[i - 1], fn.insts[i], called[i])

LEMMA RunExists ==
  ASSUME NEW fn, NEW called, Len(fn.insts) \in Nat
  PROVE  \E run : run = [i \in 0 .. Len(fn.insts) |-> RunBody(run, fn, called, i)]
<1> DEFINE Ok(m) == \E run : run = [i \in 0 .. m |-> RunBody(run, fn, called, i)]
           S == {m \in Nat : Ok(m)}
<1>1. 0 \in S
  <2>1. PICK run : run = [i \in 0 .. 0 |-> Start(fn)]
    OBVIOUS
  <2>2. \A i \in 0 .. 0 : RunBody(run, fn, called, i) = Start(fn)
    BY DEF RunBody
  <2>3. run = [i \in 0 .. 0 |-> RunBody(run, fn, called, i)]
    BY <2>1, <2>2
  <2> QED BY <2>3
<1>2. ASSUME NEW m \in Nat, m \in S PROVE m + 1 \in S
  <2>1. PICK run : run = [i \in 0 .. m |-> RunBody(run, fn, called, i)]
    BY <1>2
  <2>2. PICK more : more = [i \in 0 .. m + 1 |-> IF i <= m THEN run[i] ELSE RunBody(run, fn, called, i)]
    OBVIOUS
  <2>3. ASSUME NEW i \in 0 .. m + 1 PROVE RunBody(more, fn, called, i) = RunBody(run, fn, called, i)
    <3>1. i # 0 => more[i - 1] = run[i - 1]
      BY <2>2
    <3> QED BY <3>1, Zenon DEF RunBody
  <2>4. more = [i \in 0 .. m + 1 |-> RunBody(more, fn, called, i)]
    <3>1. \A i \in 0 .. m + 1 : more[i] = RunBody(more, fn, called, i)
      BY <2>1, <2>2, <2>3
    <3> QED BY <2>2, <3>1
  <2>5. Ok(m + 1)
    BY <2>4
  <2> QED BY <2>5
<1> HIDE DEF Ok
<1>3. \A n \in Nat : n \in S
  BY <1>1, <1>2, NatStep
<1>4. Ok(Len(fn.insts))
  BY <1>3
<1> QED BY <1>4 DEF Ok

LEMMA RunIs ==
  ASSUME NEW fn, NEW called, Len(fn.insts) \in Nat, NEW i \in 0 .. Len(fn.insts)
  PROVE  Run(fn, called)[i] = RunBody(Run(fn, called), fn, called, i)
<1>1. Run(fn, called) = CHOOSE run : run = [j \in 0 .. Len(fn.insts) |-> RunBody(run, fn, called, j)]
  BY Zenon DEF Run, RunBody
<1>2. PICK run : run = CHOOSE r : r = [j \in 0 .. Len(fn.insts) |-> RunBody(r, fn, called, j)]
  OBVIOUS
<1>3. \E r : r = [j \in 0 .. Len(fn.insts) |-> RunBody(r, fn, called, j)]
  BY RunExists, ZenonT(60)
<1>4. run = [j \in 0 .. Len(fn.insts) |-> RunBody(run, fn, called, j)]
  BY <1>2, <1>3, Zenon
<1>5. run[i] = RunBody(run, fn, called, i)
  BY <1>4
<1>6. Run(fn, called) = run
  BY <1>1, <1>2
<1> QED BY <1>5, <1>6

(* What it does up to an instruction depends on nothing later.             *)
LEMMA RunAgrees ==
  ASSUME NEW fn, NEW fn2, NEW called, NEW called2, Len(fn.insts) \in Nat, Len(fn2.insts) \in Nat,
         fn2.params = fn.params, NEW last \in Nat, last <= Len(fn.insts), last <= Len(fn2.insts),
         \A i \in 1 .. last : fn2.insts[i] = fn.insts[i] /\ called2[i] = called[i]
  PROVE  Run(fn2, called2)[last] = Run(fn, called)[last]
<1>1. PICK run, run2 : run = Run(fn, called) /\ run2 = Run(fn2, called2)
  OBVIOUS
<1>2. /\ \A i \in 0 .. Len(fn.insts) : run[i] = RunBody(run, fn, called, i)
      /\ \A i \in 0 .. Len(fn2.insts) : run2[i] = RunBody(run2, fn2, called2, i)
  BY <1>1, RunIs
<1> DEFINE S == {n \in Nat : n <= last => run2[n] = run[n]}
<1>3. 0 \in S
  <2>1. Start(fn2) = Start(fn)
    <3>1. Start(fn2) = StartOf(fn2.params) /\ Start(fn) = StartOf(fn.params)
      BY Zenon DEF Start, StartOf
    <3> QED BY <3>1
  <2>2. run[0] = RunBody(run, fn, called, 0) /\ run2[0] = RunBody(run2, fn2, called2, 0)
    BY <1>2
  <2>3. run[0] = Start(fn) /\ run2[0] = Start(fn2)
    BY <2>2 DEF RunBody
  <2> QED BY <2>1, <2>3
<1>4. ASSUME NEW n \in Nat, n \in S PROVE n + 1 \in S
  <2> SUFFICES ASSUME n + 1 <= last PROVE run2[n + 1] = run[n + 1]
    OBVIOUS
  <2>1. PICK i : i = n + 1 /\ i # 0 /\ i - 1 = n
    OBVIOUS
  <2>2. run[i] = RunBody(run, fn, called, i) /\ run2[i] = RunBody(run2, fn2, called2, i)
    BY <1>2, <2>1
  <2>3. run2[i - 1] = run[i - 1] /\ fn2.insts[i] = fn.insts[i] /\ called2[i] = called[i]
    BY <1>4, <2>1
  <2>4. RunBody(run, fn, called, i) = Exec(run[i - 1], fn.insts[i], called[i])
    BY <2>1, Zenon DEF RunBody
  <2>5. RunBody(run2, fn2, called2, i) = Exec(run2[i - 1], fn2.insts[i], called2[i])
    BY <2>1, Zenon DEF RunBody
  <2> QED BY <2>1, <2>2, <2>3, <2>4, <2>5
<1> HIDE DEF S
<1>5. last \in S
  BY <1>3, <1>4, NatStep
<1> QED BY <1>1, <1>5 DEF S

(* The function a call leads to, as long as the vector is never resized.   *)
CalleeName(inst) == IF inst.t = "callfn" THEN prog.fns[inst.fn[2]].name ELSE << >>
CalleeNames(insts) == [i \in DOMAIN insts |-> CalleeName(insts[i])]
Machine(fn) == Run(fn, CalleeNames(fn.insts))[Len(fn.insts)]

LEMMA MachineStart ==
  ASSUME NEW fn, fn.insts = << >>
  PROVE  Machine(fn) = Start(fn)
<1>1. Len(fn.insts) = 0
  BY EmptySeq
<1>2. PICK called : called = CalleeNames(fn.insts)
  OBVIOUS
<1>3. Run(fn, called)[0] = RunBody(Run(fn, called), fn, called, 0)
  BY <1>1, RunIs
<1>4. Run(fn, called)[0] = Start(fn)
  BY <1>3 DEF RunBody
<1> QED BY <1>1, <1>2, <1>4 DEF Machine

LEMMA MachineSame ==
  ASSUME NEW fn, NEW fn2, fn.insts \in Seq(Insts), fn2.insts = fn.insts, fn2.params = fn.params
  PROVE  Machine(fn2) = Machine(fn)
<1>1. PICK called, last : called = CalleeNames(fn.insts) /\ last = Len(fn.insts)
  OBVIOUS
<1>2. last \in Nat
  BY <1>1, LenProperties
<1>3. Run(fn2, called)[last] = Run(fn, called)[last]
  BY <1>1, <1>2, RunAgrees
<1> QED BY <1>1, <1>3 DEF Machine

LEMMA MachineNext ==
  ASSUME NEW fn, NEW fn2, fn.insts \in Seq(Insts), NEW inst \in Insts,
         fn2.insts = fn.insts \o <<inst>>, fn2.params = fn.params
  PROVE  Machine(fn2) = Exec(Machine(fn), inst, CalleeName(inst))
<1>1. PICK called, called2, last :
        called = CalleeNames(fn.insts) /\ called2 = CalleeNames(fn2.insts) /\ last = Len(fn.insts)
  OBVIOUS
<1>2. /\ last \in Nat /\ Len(fn2.insts) = last + 1
      /\ \A i \in 1 .. last + 1 : fn2.insts[i] = IF i <= last THEN fn.insts[i] ELSE inst
  BY <1>1, OneMore
<1>3. fn2.insts \in Seq(Insts)
  BY OneMore
<1>4. DOMAIN fn.insts = 1 .. last /\ DOMAIN fn2.insts = 1 .. last + 1
  BY <1>1, <1>2, <1>3, LenProperties
<1>5. \A i \in 1 .. last : fn2.insts[i] = fn.insts[i]
  BY <1>2
<1>6. \A i \in 1 .. last : called[i] = CalleeName(fn.insts[i])
  BY <1>1, <1>4 DEF CalleeNames
<1>7. \A i \in 1 .. last + 1 : called2[i] = CalleeName(fn2.insts[i])
  BY <1>1, <1>4 DEF CalleeNames
<1>8. \A i \in 1 .. last : called2[i] = called[i]
  BY <1>2, <1>5, <1>6, <1>7
<1>9. Run(fn2, called2)[last] = Run(fn, called)[last]
  BY <1>1, <1>2, <1>5, <1>8, RunAgrees, SMTT(60)
<1>10. PICK i : i = last + 1 /\ i # 0 /\ i - 1 = last /\ i \in 1 .. last + 1
  BY <1>2
<1>11. Run(fn2, called2)[i] = RunBody(Run(fn2, called2), fn2, called2, i)
  BY <1>2, <1>10, RunIs
<1>12. RunBody(Run(fn2, called2), fn2, called2, i) = Exec(Run(fn2, called2)[i - 1], fn2.insts[i], called2[i])
  BY <1>10, Zenon DEF RunBody
<1>13. fn2.insts[i] = inst /\ called2[i] = CalleeName(inst)
  <2>1. ~(i <= last)
    BY <1>2, <1>10
  <2>2. fn2.insts[i] = inst
    BY <1>2, <1>10, <2>1
  <2>3. called2[i] = CalleeName(fn2.insts[i])
    BY <1>7, <1>10
  <2> QED BY <2>2, <2>3
<1>14. PICK m, m2 : m = Run(fn, called)[last] /\ m2 = Run(fn2, called2)[i]
  OBVIOUS
<1>15. m2 = Exec(m, inst, CalleeName(inst))
  BY <1>9, <1>10, <1>11, <1>12, <1>13, <1>14
<1>16. Machine(fn) = m
  BY <1>1, <1>14 DEF Machine
<1>17. Machine(fn2) = m2
  BY <1>1, <1>2, <1>10, <1>14 DEF Machine
<1> QED BY <1>15, <1>16, <1>17

LEMMA MachinePrimed ==
  ASSUME prog' = prog, NEW fn
  PROVE  Machine(fn)' = Machine(fn)
<1>1. \A inst : CalleeName(inst)' = CalleeName(inst)
  BY DEF CalleeName
<1>2. CalleeNames(fn.insts)' = CalleeNames(fn.insts)
  BY <1>1 DEF CalleeNames
<1> QED BY <1>2 DEF Machine

(* What one instruction does.                                              *)
Rec(m) == m = [regs |-> m.regs, calls |-> m.calls, ret |-> m.ret]
SetReg(regs, x, value) == [r \in DOMAIN regs \cup {x} |-> IF r = x THEN value ELSE regs[r]]

LEMMA ExecAfter ==
  ASSUME NEW m, NEW inst, NEW name, m.ret # <<"end">>
  PROVE  Exec(m, inst, name) = m
  BY Zenon DEF Exec

LEMMA ExecReturns ==
  ASSUME NEW m, Rec(m), m.ret = <<"end">>, NEW inst, inst.t = "ret", NEW name
  PROVE  Exec(m, inst, name) = [regs |-> m.regs, calls |-> m.calls, ret |-> Value(m.regs, inst, name)]
<1>1. PICK value : value = Value(m.regs, inst, name)
  OBVIOUS
<1>2. Exec(m, inst, name) = [m EXCEPT !.ret = value]
  BY <1>1, Zenon DEF Exec
<1>3. [m EXCEPT !.ret = value] = [regs |-> m.regs, calls |-> m.calls, ret |-> value]
  BY DEF Rec
<1> QED BY <1>1, <1>2, <1>3

LEMMA ExecSets ==
  ASSUME NEW m, Rec(m), m.ret = <<"end">>, NEW inst, inst.t # "ret", inst.result # 0, NEW name
  PROVE  Exec(m, inst, name) =
           [regs |-> SetReg(m.regs, inst.result, Value(m.regs, inst, name)),
            calls |-> IF inst.t = "callfn" THEN Append(m.calls, Value(m.regs, inst, name)) ELSE m.calls,
            ret |-> m.ret]
<1>1. PICK regs, calls : /\ regs = SetReg(m.regs, inst.result, Value(m.regs, inst, name))
                         /\ calls = IF inst.t = "callfn" THEN Append(m.calls, Value(m.regs, inst, name))
                                   ELSE m.calls
  OBVIOUS
<1>2. PICK other : other =
         [m EXCEPT !.regs = IF inst.result = 0 THEN @
                            ELSE [r \in DOMAIN @ \cup {inst.result} |->
                                    IF r = inst.result THEN Value(m.regs, inst, name) ELSE @[r]],
                   !.calls = IF inst.t = "callfn" THEN Append(@, Value(m.regs, inst, name)) ELSE @]
  OBVIOUS
<1>3. Exec(m, inst, name) =
        CASE m.ret # <<"end">> -> m
          [] m.ret = <<"end">> /\ inst.t = "ret" -> [m EXCEPT !.ret = Value(m.regs, inst, name)]
          [] OTHER -> other
  BY <1>2, Zenon DEF Exec
<1>4. Exec(m, inst, name) = [m EXCEPT !.regs = regs, !.calls = calls]
  <2>1. Exec(m, inst, name) = other
    BY <1>3
  <2>2. PICK value : value = Value(m.regs, inst, name)
    OBVIOUS
  <2>3. regs = [r \in DOMAIN m.regs \cup {inst.result} |-> IF r = inst.result THEN value ELSE m.regs[r]]
    BY <1>1, <2>2 DEF SetReg
  <2>4. other = [m EXCEPT !.regs = IF inst.result = 0 THEN m.regs
                            ELSE [r \in DOMAIN m.regs \cup {inst.result} |->
                                    IF r = inst.result THEN value ELSE m.regs[r]],
                          !.calls = IF inst.t = "callfn" THEN Append(m.calls, value) ELSE m.calls]
    BY <1>2, <2>2
  <2>5. PICK list : list = IF inst.t = "callfn" THEN Append(m.calls, value) ELSE m.calls
    OBVIOUS
  <2>6. calls = list
    BY <1>1, <2>2, <2>5
  <2> QED BY <2>1, <2>3, <2>4, <2>5, <2>6
<1>5. [m EXCEPT !.regs = regs, !.calls = calls] = [regs |-> regs, calls |-> calls, ret |-> m.ret]
  <2>1. PICK a, b, c : a = m.regs /\ b = m.calls /\ c = m.ret
    OBVIOUS
  <2>2. m = [regs |-> a, calls |-> b, ret |-> c]
    BY <2>1 DEF Rec
  <2>3. PICK m1 : m1 = [m EXCEPT !.regs = regs]
    OBVIOUS
  <2>4. m1 = [regs |-> regs, calls |-> b, ret |-> c]
    BY <2>2, <2>3
  <2>5. [m1 EXCEPT !.calls = calls] = [regs |-> regs, calls |-> calls, ret |-> c]
    BY <2>4
  <2>6. [m EXCEPT !.regs = regs, !.calls = calls] = [m1 EXCEPT !.calls = calls]
    BY <2>3
  <2> QED BY <2>1, <2>5, <2>6
<1> QED BY <1>1, <1>4, <1>5

LEMMA ExecNothing ==
  ASSUME NEW m, Rec(m), m.ret = <<"end">>, NEW inst, inst.t \notin {"ret", "callfn"}, inst.result = 0, NEW name
  PROVE  Exec(m, inst, name) = m
<1>1. Exec(m, inst, name) = [m EXCEPT !.regs = m.regs, !.calls = m.calls]
  BY DEF Exec
<1>2. [m EXCEPT !.regs = m.regs, !.calls = m.calls] = [regs |-> m.regs, calls |-> m.calls, ret |-> m.ret]
  BY DEF Rec
<1> QED BY <1>1, <1>2 DEF Rec

LEMMA ReadAfter ==
  \A regs, x, value :
    /\ Read(SetReg(regs, x, value), x) = value
    /\ \A r : r # x => Read(SetReg(regs, x, value), r) = Read(regs, r)
<1>1. TAKE regs, x, value
<1>2. PICK regs2 : regs2 = SetReg(regs, x, value)
  OBVIOUS
<1>3. /\ DOMAIN regs2 = DOMAIN regs \cup {x}
      /\ \A r \in DOMAIN regs \cup {x} : regs2[r] = IF r = x THEN value ELSE regs[r]
  BY <1>2 DEF SetReg
<1>4. Read(regs2, x) = value
  BY <1>3 DEF Read
<1>5. \A r : r # x => Read(regs2, r) = Read(regs, r)
  BY <1>3 DEF Read
<1> QED BY <1>2, <1>4, <1>5

ArgValues(regs, args) == [k \in 1 .. Len(args) |-> Read(regs, args[k])]

LEMMA ValueIs ==
  ASSUME NEW regs, NEW inst, NEW name
  PROVE  /\ inst.t = "imm" => Value(regs, inst, name) = <<"int", inst.sz, inst.imm>>
         /\ inst.t = "callfn" => Value(regs, inst, name) = <<"call", name, ArgValues(regs, inst.args)>>
         /\ inst.t \in {"copy", "ret"} => Value(regs, inst, name) = ArgValues(regs, inst.args)[1]
         /\ inst.t \in DOMAIN IrMeaning =>
              Value(regs, inst, name) = <<IrMeaning[inst.t][1], IrMeaning[inst.t][2], inst.sz,
                                          ArgValues(regs, inst.args)>>
<1>1. PICK args, op : args = ArgValues(regs, inst.args) /\ op = IrMeaning[inst.t]
  OBVIOUS
<1>2. Value(regs, inst, name) =
      CASE inst.t = "imm" -> <<"int", inst.sz, inst.imm>>
        [] inst.t = "callfn" -> <<"call", name, args>>
        [] inst.t \in {"copy", "ret"} -> args[1]
        [] inst.t \in DOMAIN IrMeaning -> <<op[1], op[2], inst.sz, args>>
  BY <1>1, Zenon DEF Value, ArgValues
<1>3. DOMAIN IrMeaning = {"add", "sub", "imul", "umul", "idiv", "udiv"}
  BY DEF IrMeaning
<1>4. inst.t = "imm" => Value(regs, inst, name) = <<"int", inst.sz, inst.imm>>
  BY <1>2, <1>3
<1>5. inst.t = "callfn" => Value(regs, inst, name) = <<"call", name, args>>
  BY <1>2, <1>3
<1>6. inst.t \in {"copy", "ret"} => Value(regs, inst, name) = args[1]
  BY <1>2, <1>3
<1>7. inst.t \in DOMAIN IrMeaning => Value(regs, inst, name) = <<op[1], op[2], inst.sz, args>>
  BY <1>2, <1>3
<1> QED BY <1>1, <1>4, <1>5, <1>6, <1>7

LEMMA ValueOne ==
  ASSUME NEW regs, NEW inst, NEW name, NEW x, inst.args = <<x>>, inst.t \in {"copy", "ret"}
  PROVE  Value(regs, inst, name) = Read(regs, x)
<1>1. PICK list : list = <<x>> /\ Len(list) = 1 /\ list[1] = x
  OBVIOUS
<1>2. ArgValues(regs, list)[1] = Read(regs, x)
  BY <1>1 DEF ArgValues
<1> QED BY <1>1, <1>2, ValueIs

-----------------------------------------------------------------------------
(* The calls of the first statements of a function, and of pending tasks.  *)
FnTerms(g) == {TermAt(g, i, n) : i \in StmtsIn(g), n \in Nodes}

LEMMA TermInFn ==
  ASSUME NEW g, NEW i \in StmtsIn(g), NEW n \in Nodes
  PROVE  TermAt(g, i, n) \in FnTerms(g)
  BY DEF FnTerms

CallLists(g, i) == [j \in 1 .. i |-> CallsAt(g, j, StmtAt(g, j).value)]
CallsTo(g, i) == FlattenSeq(CallLists(g, i))

LEMMA CallListsIn ==
  ASSUME prog \in Programs, NEW g \in Fns, NEW i \in 0 .. Len(prog.fns[g].stmts)
  PROVE  CallLists(g, i) \in Seq(Seq(FnTerms(g)))
<1>1. Len(prog.fns[g].stmts) \in Nat
  BY ProgramShape
<1>2. i \in Nat
  BY <1>1
<1>3. ASSUME NEW j \in 1 .. i PROVE CallsAt(g, j, StmtAt(g, j).value) \in Seq(FnTerms(g))
  <2>1. j \in StmtsIn(g)
    BY <1>1 DEF StmtsIn
  <2>2. StmtAt(g, j).value \in Values
    BY <2>1, StmtValue
  <2>3. \A m \in Nodes : TermAt(g, j, m) \in FnTerms(g)
    BY <2>1, TermInFn
  <2> QED BY <2>2, <2>3, CallsAreTerms
<1>4. CallLists(g, i) \in [1 .. i -> Seq(FnTerms(g))]
  BY <1>3 DEF CallLists
<1> QED BY <1>2, <1>4, SeqDef

LEMMA CallsToNone == \A g : CallsTo(g, 0) = << >>
<1>1. ASSUME NEW g PROVE CallsTo(g, 0) = << >>
  <2>1. CallLists(g, 0) = << >>
    BY DEF CallLists
  <2> QED BY <2>1, FlatNone DEF CallsTo
<1> QED BY <1>1

LEMMA CallsToNext ==
  ASSUME prog \in Programs, NEW g \in Fns, NEW i \in StmtsIn(g), NEW v, v = StmtAt(g, i).value
  PROVE  /\ CallsTo(g, i) = CallsTo(g, i - 1) \o CallsAt(g, i, v)
         /\ CallsTo(g, i - 1) \in Seq(FnTerms(g)) /\ CallsAt(g, i, v) \in Seq(FnTerms(g))
<1>1. Len(prog.fns[g].stmts) \in Nat
  BY ProgramShape
<1>2. i \in Nat /\ i - 1 \in 0 .. Len(prog.fns[g].stmts) /\ i \in 0 .. Len(prog.fns[g].stmts)
  BY <1>1 DEF StmtsIn
<1>3. PICK l : l = CallLists(g, i - 1)
  OBVIOUS
<1>4. PICK list : list = CallsAt(g, i, v)
  OBVIOUS
<1>5. l \in Seq(Seq(FnTerms(g))) /\ Len(l) = i - 1 /\ DOMAIN l = 1 .. i - 1
  <2>1. l \in Seq(Seq(FnTerms(g)))
    BY <1>2, <1>3, CallListsIn
  <2>2. DOMAIN l = 1 .. i - 1
    BY <1>3 DEF CallLists
  <2> QED BY <1>2, <2>1, <2>2, LenProperties
<1>6. list \in Seq(FnTerms(g))
  <2>1. v \in Values
    BY StmtValue
  <2>2. \A m \in Nodes : TermAt(g, i, m) \in FnTerms(g)
    BY TermInFn
  <2> QED BY <1>4, <2>1, <2>2, CallsAreTerms
<1>7. CallLists(g, i) = Append(l, list)
  <2>1. PICK l2 : l2 = CallLists(g, i)
    OBVIOUS
  <2>2. l2 \in Seq(Seq(FnTerms(g))) /\ DOMAIN l2 = 1 .. i
    <3>1. l2 \in Seq(Seq(FnTerms(g)))
      BY <1>2, <2>1, CallListsIn
    <3>2. DOMAIN l2 = 1 .. i
      BY <2>1 DEF CallLists
    <3> QED BY <3>1, <3>2
  <2>3. Append(l, list) \in Seq(Seq(FnTerms(g))) /\ Len(Append(l, list)) = i
    BY <1>2, <1>5, <1>6, OneMore
  <2>4. Len(l2) = i
    BY <1>2, <2>2, LenProperties
  <2>5. \A j \in 1 .. i : l2[j] = CallsAt(g, j, StmtAt(g, j).value)
    BY <2>1 DEF CallLists
  <2>6. \A j \in 1 .. i - 1 : l[j] = CallsAt(g, j, StmtAt(g, j).value)
    BY <1>3 DEF CallLists
  <2>7. l2[i] = list
    BY <1>2, <1>4, <2>5
  <2>8. \A j \in 1 .. i : j # i => l2[j] = l[j]
    BY <1>2, <2>5, <2>6
  <2>9. \A j \in 1 .. i : Append(l, list)[j] = IF j = i THEN list ELSE l[j]
    BY <1>2, <1>5, <1>6, OneMore
  <2>10. \A j \in 1 .. i : Append(l, list)[j] = l2[j]
    BY <2>7, <2>8, <2>9
  <2>11. l2 = Append(l, list)
    BY <2>2, <2>3, <2>4, <2>10, SeqEqual
  <2> QED BY <2>1, <2>11
<1>8. FlattenSeq(l) \in Seq(FnTerms(g))
  BY <1>5, FlatIn
<1> QED BY <1>3, <1>4, <1>5, <1>6, <1>7, <1>8, FlatMore DEF CallsTo

(* What pending tasks of statement i of g still call.                      *)
TaskCalls(t, g, i) ==
  CASE t.k = "enter" -> CallsAt(g, i, t.n)
    [] t.k = "leave" -> OwnCall(g, i, t.n)
    [] OTHER -> << >>
TaskLists(tasks, g, i) == [j \in 1 .. Len(tasks) |-> TaskCalls(tasks[j], g, i)]
PendingCalls(tasks, g, i) == FlattenSeq(TaskLists(tasks, g, i))
GoodTasks == {t \in Tasks : t.k # "stmt" => t.n \in Nodes}

LEMMA TaskCallsIn ==
  ASSUME prog \in Programs, NEW g \in Fns, NEW i \in StmtsIn(g), NEW t \in GoodTasks
  PROVE  TaskCalls(t, g, i) \in Seq(FnTerms(g))
<1>1. \A m \in Nodes : TermAt(g, i, m) \in FnTerms(g)
  BY TermInFn
<1>2. \A m \in Nodes : m \in Values /\ m # 0
  BY ProgramShape DEF Nodes, Values
<1>3. << >> \in Seq(FnTerms(g))
  BY EmptySeq
<1>4. t.k \in {"enter", "leave"} => t.n \in Nodes
  BY DEF GoodTasks
<1>5. t.k = "enter" => CallsAt(g, i, t.n) \in Seq(FnTerms(g))
  BY <1>1, <1>2, <1>4, CallsAreTerms
<1>6. t.k = "leave" => OwnCall(g, i, t.n) \in Seq(FnTerms(g))
  BY <1>1, <1>2, <1>4, CallsAreTerms
<1>7. CASE t.k = "enter"
  BY <1>5, <1>7 DEF TaskCalls
<1>8. CASE t.k = "leave"
  BY <1>6, <1>8 DEF TaskCalls
<1>9. CASE t.k \notin {"enter", "leave"}
  BY <1>3, <1>9 DEF TaskCalls
<1> QED BY <1>7, <1>8, <1>9

LEMMA TaskListsIn ==
  ASSUME prog \in Programs, NEW g \in Fns, NEW i \in StmtsIn(g), NEW tasks \in Seq(GoodTasks)
  PROVE  /\ TaskLists(tasks, g, i) \in Seq(Seq(FnTerms(g))) /\ Len(TaskLists(tasks, g, i)) = Len(tasks)
         /\ \A j \in 1 .. Len(tasks) : TaskLists(tasks, g, i)[j] = TaskCalls(tasks[j], g, i)
         /\ PendingCalls(tasks, g, i) \in Seq(FnTerms(g))
<1>1. Len(tasks) \in Nat /\ \A j \in 1 .. Len(tasks) : tasks[j] \in GoodTasks
  BY LenProperties, ElementOfSeq
<1>2. \A j \in 1 .. Len(tasks) : TaskCalls(tasks[j], g, i) \in Seq(FnTerms(g))
  BY <1>1, TaskCallsIn
<1>3. PICK l : l = TaskLists(tasks, g, i)
  OBVIOUS
<1>4. l \in [1 .. Len(tasks) -> Seq(FnTerms(g))] /\ \A j \in 1 .. Len(tasks) : l[j] = TaskCalls(tasks[j], g, i)
  BY <1>2, <1>3 DEF TaskLists
<1>5. l \in Seq(Seq(FnTerms(g)))
  BY <1>1, <1>4, SeqDef
<1>6. Len(l) = Len(tasks)
  BY <1>1, <1>4, <1>5, LenProperties
<1>7. FlattenSeq(l) \in Seq(FnTerms(g))
  BY <1>5, FlatIn
<1> QED BY <1>3, <1>4, <1>5, <1>6, <1>7 DEF PendingCalls

LEMMA PendingCat ==
  ASSUME prog \in Programs, NEW g \in Fns, NEW i \in StmtsIn(g),
         NEW t1 \in Seq(GoodTasks), NEW t2 \in Seq(GoodTasks)
  PROVE  PendingCalls(t1 \o t2, g, i) = PendingCalls(t1, g, i) \o PendingCalls(t2, g, i)
<1>1. PICK l1, l2, l : l1 = TaskLists(t1, g, i) /\ l2 = TaskLists(t2, g, i) /\ l = TaskLists(t1 \o t2, g, i)
  OBVIOUS
<1>2. PICK t : t = t1 \o t2
  OBVIOUS
<1>3. /\ t \in Seq(GoodTasks) /\ Len(t) = Len(t1) + Len(t2) /\ Len(t1) \in Nat /\ Len(t2) \in Nat
      /\ \A j \in 1 .. Len(t1) + Len(t2) : t[j] = IF j <= Len(t1) THEN t1[j] ELSE t2[j - Len(t1)]
  BY <1>2, ConcatProperties, LenProperties
<1>4. /\ l1 \in Seq(Seq(FnTerms(g))) /\ Len(l1) = Len(t1)
      /\ \A j \in 1 .. Len(t1) : l1[j] = TaskCalls(t1[j], g, i)
  BY <1>1, TaskListsIn
<1>5. /\ l2 \in Seq(Seq(FnTerms(g))) /\ Len(l2) = Len(t2)
      /\ \A j \in 1 .. Len(t2) : l2[j] = TaskCalls(t2[j], g, i)
  BY <1>1, TaskListsIn
<1>6. /\ l \in Seq(Seq(FnTerms(g))) /\ Len(l) = Len(t)
      /\ \A j \in 1 .. Len(t) : l[j] = TaskCalls(t[j], g, i)
  BY <1>1, <1>2, <1>3, TaskListsIn
<1>7. /\ l1 \o l2 \in Seq(Seq(FnTerms(g))) /\ Len(l1 \o l2) = Len(l1) + Len(l2)
      /\ \A j \in 1 .. Len(l1) + Len(l2) : (l1 \o l2)[j] = IF j <= Len(l1) THEN l1[j] ELSE l2[j - Len(l1)]
  <2>1. PICK S : S = Seq(FnTerms(g))
    OBVIOUS
  <2>2. l1 \in Seq(S) /\ l2 \in Seq(S)
    BY <1>4, <1>5, <2>1
  <2>3. l1 \o l2 \in Seq(S) /\ Len(l1 \o l2) = Len(l1) + Len(l2)
    BY <2>2, ConcatProperties
  <2>4. \A j \in 1 .. Len(l1) + Len(l2) : (l1 \o l2)[j] = IF j <= Len(l1) THEN l1[j] ELSE l2[j - Len(l1)]
    BY <2>2, ConcatProperties
  <2> QED BY <2>1, <2>3, <2>4
<1>8. PICK both : both = l1 \o l2
  OBVIOUS
<1>9. ASSUME NEW j \in 1 .. Len(l) PROVE l[j] = both[j]
  <2>1. j \in 1 .. Len(t) /\ j \in 1 .. Len(t1) + Len(t2) /\ j \in Nat
    BY <1>3, <1>6
  <2>2. CASE j <= Len(t1)
    <3>1. t[j] = t1[j] /\ both[j] = l1[j] /\ j \in 1 .. Len(t1)
      BY <1>3, <1>4, <1>5, <1>7, <1>8, <2>1, <2>2
    <3> QED BY <1>4, <1>6, <2>1, <3>1
  <2>3. CASE ~(j <= Len(t1))
    <3>1. PICK k : k = j - Len(t1)
      OBVIOUS
    <3>2. k \in 1 .. Len(t2)
      BY <1>3, <2>1, <2>3, <3>1
    <3>3. t[j] = t2[k] /\ both[j] = l2[k]
      BY <1>3, <1>4, <1>5, <1>7, <1>8, <2>1, <2>3, <3>1
    <3> QED BY <1>5, <1>6, <2>1, <3>2, <3>3
  <2> QED BY <2>2, <2>3
<1>10. l = both
  <2>1. Len(l) = Len(both) /\ both \in Seq(Seq(FnTerms(g)))
    BY <1>3, <1>4, <1>5, <1>6, <1>7, <1>8
  <2> QED BY <1>6, <1>9, <2>1, SeqEqual
<1>11. FlattenSeq(l1 \o l2) = FlattenSeq(l1) \o FlattenSeq(l2)
  BY <1>4, <1>5, FlatCat
<1> QED BY <1>1, <1>8, <1>10, <1>11 DEF PendingCalls

LEMMA PendingOne ==
  ASSUME prog \in Programs, NEW g \in Fns, NEW i \in StmtsIn(g), NEW t \in GoodTasks
  PROVE  PendingCalls(<<t>>, g, i) = TaskCalls(t, g, i)
<1>1. <<t>> \in Seq(GoodTasks) /\ Len(<<t>>) = 1 /\ <<t>>[1] = t
  BY OneElement
<1>2. PICK only, l, c : only = <<t>> /\ l = TaskLists(only, g, i) /\ c = TaskCalls(t, g, i)
  OBVIOUS
<1>3. c \in Seq(FnTerms(g))
  BY <1>2, TaskCallsIn
<1>4. l \in Seq(Seq(FnTerms(g))) /\ Len(l) = 1 /\ l[1] = c
  <2>1. only \in Seq(GoodTasks) /\ Len(only) = 1 /\ only[1] = t
    BY <1>1, <1>2
  <2>2. /\ l \in Seq(Seq(FnTerms(g))) /\ Len(l) = Len(only)
        /\ \A j \in 1 .. Len(only) : l[j] = TaskCalls(only[j], g, i)
    BY <1>2, <2>1, TaskListsIn
  <2> QED BY <1>2, <2>1, <2>2
<1>5. <<c>> \in Seq(Seq(FnTerms(g))) /\ Len(<<c>>) = 1 /\ <<c>>[1] = c
  BY <1>3, OneElement
<1>6. PICK one : one = <<c>>
  OBVIOUS
<1>7. \A j \in 1 .. Len(l) : l[j] = one[j]
  BY <1>4, <1>5, <1>6
<1>8. l = one
  BY <1>4, <1>5, <1>6, <1>7, SeqEqual
<1>9. FlattenSeq(<<c>>) = c
  BY <1>3, FlatOne
<1> QED BY <1>2, <1>6, <1>8, <1>9 DEF PendingCalls

LEMMA PendingNone == \A g, i : PendingCalls(<< >>, g, i) = << >>
<1>1. ASSUME NEW g, NEW i PROVE PendingCalls(<< >>, g, i) = << >>
  <2>1. Len(<< >>) = 0
    BY EmptySeq
  <2>2. TaskLists(<< >>, g, i) = << >>
    BY <2>1 DEF TaskLists
  <2> QED BY <2>2, FlatNone DEF PendingCalls
<1> QED BY <1>1

LEMMA PendingArgs ==
  ASSUME Inv, NEW g \in Fns, NEW i \in StmtsIn(g), NEW n \in Nodes
  PROVE  /\ EnterAll(Expr(n).args) \in Seq(GoodTasks)
         /\ PendingCalls(EnterAll(Expr(n).args), g, i) = FlattenSeq(OperandCalls(g, i, n))
<1>1. PICK tasks, e : tasks = EnterAll(Expr(n).args) /\ e = Expr(n)
  OBVIOUS
<1>2. /\ tasks \in Seq(Tasks) /\ Len(tasks) = Len(e.args)
      /\ \A k \in 1 .. Len(e.args) : tasks[k] = Enter(e.args[k])
  BY <1>1, ArgsEntered
<1>3. \A k \in 1 .. Len(e.args) : e.args[k] \in Nodes
  BY <1>1, ArgsBelow, InvParts
<1>4. Len(tasks) \in Nat
  BY <1>2, LenProperties
<1>5. \A k \in 1 .. Len(tasks) : tasks[k] \in Tasks /\ tasks[k].k = "enter" /\ tasks[k].n = e.args[k]
  <2>1. \A k \in 1 .. Len(tasks) : tasks[k] \in Tasks
    BY <1>2, <1>4, ElementOfSeq
  <2>2. \A x : Enter(x).k = "enter" /\ Enter(x).n = x
    BY DEF Enter, Task
  <2> QED BY <1>2, <2>1, <2>2
<1>6. \A k \in 1 .. Len(tasks) : tasks[k] \in GoodTasks
  BY <1>2, <1>3, <1>5 DEF GoodTasks
<1>7. tasks \in [1 .. Len(tasks) -> GoodTasks]
  <2>1. tasks \in [1 .. Len(tasks) -> Tasks]
    BY <1>2, LenProperties
  <2> QED BY <1>6, <2>1
<1>8. tasks \in Seq(GoodTasks)
  BY <1>4, <1>7, SeqDef
<1>9. TaskLists(tasks, g, i) = OperandCalls(g, i, n)
  <2>1. \A k \in 1 .. Len(tasks) : TaskCalls(tasks[k], g, i) = CallsAt(g, i, e.args[k])
    BY <1>5 DEF TaskCalls
  <2>2. TaskLists(tasks, g, i) = [k \in 1 .. Len(e.args) |-> CallsAt(g, i, e.args[k])]
    BY <1>2, <2>1 DEF TaskLists
  <2>3. OperandCalls(g, i, n) = [k \in 1 .. Len(e.args) |-> CallsAt(g, i, e.args[k])]
    BY <1>1, Zenon DEF OperandCalls
  <2> QED BY <2>2, <2>3
<1> QED BY <1>1, <1>8, <1>9 DEF PendingCalls

-----------------------------------------------------------------------------
(* All of this stays as long as the program does.                          *)
TermOf(type, g) ==
  LET term[o \in (1 .. Len(B!Stmts(g))) \X (0 .. Len(prog.exprs))] ==
        LET i == o[1]
            n == o[2]
            binding == B!Binding(B!Node(n).name, g, i)
            args == [k \in 1 .. Len(B!Node(n).args) |-> term[<<i, B!Node(n).args[k]>>]]
        IN  CASE n # 0 /\ B!Node(n).t = "int" -> <<"int", B!Bits(B!Node(n).type), B!Node(n).val>>
              [] n # 0 /\ B!Node(n).t = "binop" ->
                   <<B!Node(n).op, B!Sign(B!Node(n).op, type[<<i, n>>]), B!Bits(type[<<i, n>>]), args>>
              [] n # 0 /\ B!Node(n).t = "funcall" -> <<"call", B!Node(n).name, args>>
              [] n # 0 /\ B!Node(n).t = "var" /\ binding.kind = "param" -> <<"param", binding.at>>
              [] n # 0 /\ B!Node(n).t = "var" /\ binding.kind = "let" /\ binding.at # i ->
                   term[<<binding.at, B!Stmts(g)[binding.at].value>>]
              [] OTHER -> <<"none">>
  IN  term

LEMMA TermInIs == ASSUME NEW g PROVE B!TermIn(g) = TermOf(B!TypeIn(g), g)
  BY Zenon DEF B!TermIn, TermOf

LEMMA TermOfSame ==
  ASSUME prog' = prog, NEW type, NEW g
  PROVE  TermOf(type, g)' = TermOf(type, g)
  BY SMT DEF TermOf, B!Binding, B!LetsNamed, B!ParamsNamed, B!FunctionsNamed, B!First, B!StmtsOf, B!Stmts,
             B!Params, B!Functions, B!Node

LEMMA TermInIsNext == ASSUME NEW g PROVE (B!TermIn(g) = TermOf(B!TypeIn(g), g))'
<1>1. B!TermIn(g) = TermOf(B!TypeIn(g), g)
  BY TermInIs
<1> QED BY <1>1, PTL

LEMMA TermInSame ==
  ASSUME prog' = prog, NEW g
  PROVE  B!TermIn(g)' = B!TermIn(g)
<1>1. PICK type : type = B!TypeIn(g)
  OBVIOUS
<1>2. B!TypeIn(g)' = type
  BY <1>1, TypeInSame
<1>3. TermOf(type, g)' = TermOf(type, g)
  BY TermOfSame
<1>4. B!TermIn(g)' = TermOf(type, g)'
  BY <1>2, TermInIsNext
<1> QED BY <1>1, <1>3, <1>4, TermInIs

LEMMA TermSame ==
  ASSUME prog' = prog, NEW g, NEW i, NEW n
  PROVE  TermAt(g, i, n)' = TermAt(g, i, n)
  BY TermInSame DEF TermAt

LEMMA CallsInSame ==
  ASSUME prog' = prog, NEW term, NEW i
  PROVE  B!CallsIn(term, i)' = B!CallsIn(term, i)
  BY SMT DEF B!CallsIn, B!Node

LEMMA CallsSame ==
  ASSUME prog' = prog, NEW g, NEW i, NEW n
  PROVE  CallsAt(g, i, n)' = CallsAt(g, i, n)
<1>1. PICK term : term = B!TermIn(g)
  OBVIOUS
<1>2. B!TermIn(g)' = term
  BY <1>1, TermInSame
<1>3. B!CallsIn(term, i)' = B!CallsIn(term, i)
  BY CallsInSame
<1> QED BY <1>1, <1>2, <1>3 DEF CallsAt

LEMMA CallsToSame ==
  ASSUME prog' = prog, NEW g, NEW i
  PROVE  CallsTo(g, i)' = CallsTo(g, i)
<1>1. \A j, n : CallsAt(g, j, n)' = CallsAt(g, j, n)
  BY CallsSame
<1>2. \A j : StmtAt(g, j)' = StmtAt(g, j)
  BY TextSame
<1>3. CallLists(g, i)' = CallLists(g, i)
  BY <1>1, <1>2 DEF CallLists
<1> QED BY <1>3 DEF CallsTo

LEMMA PendingSame ==
  ASSUME prog' = prog, NEW tasks, NEW g, NEW i
  PROVE  PendingCalls(tasks, g, i)' = PendingCalls(tasks, g, i)
<1>1. \A n : CallsAt(g, i, n)' = CallsAt(g, i, n)
  BY CallsSame
<1>2. \A n : OwnCall(g, i, n)' = OwnCall(g, i, n)
  <2>1. \A n : TermAt(g, i, n)' = TermAt(g, i, n)
    BY TermSame
  <2>2. \A n : Expr(n)' = Expr(n)
    BY DEF Expr
  <2> QED BY <2>1, <2>2 DEF OwnCall
<1>3. \A t : TaskCalls(t, g, i)' = TaskCalls(t, g, i)
  BY <1>1, <1>2 DEF TaskCalls
<1>4. TaskLists(tasks, g, i)' = TaskLists(tasks, g, i)
  BY <1>3 DEF TaskLists
<1> QED BY <1>4 DEF PendingCalls

LEMMA FnTermsSame ==
  ASSUME prog' = prog, NEW g
  PROVE  FnTerms(g)' = FnTerms(g)
<1>1. \A i, n : TermAt(g, i, n)' = TermAt(g, i, n)
  BY TermSame
<1>2. StmtsIn(g)' = StmtsIn(g) /\ Nodes' = Nodes
  BY DEF StmtsIn, Nodes
<1> QED BY <1>1, <1>2 DEF FnTerms

(* The meaning of a function, in these terms.                              *)
LastOf(g) == IF ReturnsIn(g) = {} THEN Len(prog.fns[g].stmts) ELSE B!First(ReturnsIn(g))

LEMMA FlatSame == \A l : B!FlattenSeq(l) = FlattenSeq(l)
  BY Zenon DEF B!FlattenSeq, FlattenSeq

LEMMA MeaningIs ==
  ASSUME NEW g
  PROVE  B!Meaning(g) =
           [calls |-> CallsTo(g, LastOf(g)),
            ret |-> IF ReturnsIn(g) = {} THEN <<"end">>
                    ELSE TermAt(g, LastOf(g), StmtAt(g, LastOf(g)).value)]
<1>1. B!StmtsOf(g, "return") = ReturnsIn(g)
  BY DEF B!StmtsOf, B!Stmts, ReturnsIn, StmtsIn, StmtAt
<1>2. PICK last : last = B!LastStmt(g)
  OBVIOUS
<1>3. last = LastOf(g)
  BY <1>1, <1>2 DEF LastOf, B!LastStmt, B!Stmts
<1>4. PICK lists : lists = [i \in 1 .. last |-> B!CallsIn(B!TermIn(g), i)[B!Stmts(g)[i].value]]
  OBVIOUS
<1>5. B!Meaning(g) =
        [calls |-> B!FlattenSeq(lists),
         ret |-> IF ReturnsIn(g) = {} THEN <<"end">> ELSE B!TermIn(g)[<<last, B!Stmts(g)[last].value>>]]
  BY <1>1, <1>2, <1>4, Zenon DEF B!Meaning
<1>6. lists = CallLists(g, last)
  <2>1. \A i : CallsAt(g, i, StmtAt(g, i).value) = B!CallsIn(B!TermIn(g), i)[B!Stmts(g)[i].value]
    BY Zenon DEF CallsAt, StmtAt, B!Stmts
  <2> QED BY <1>4, <2>1 DEF CallLists
<1>7. B!FlattenSeq(lists) = CallsTo(g, last)
  BY <1>6, FlatSame DEF CallsTo
<1>8. B!TermIn(g)[<<last, B!Stmts(g)[last].value>>] = TermAt(g, last, StmtAt(g, last).value)
  BY Zenon DEF TermAt, StmtAt, B!Stmts
<1> QED BY <1>3, <1>5, <1>7, <1>8

LEMMA MeaningIsNext ==
  ASSUME NEW g
  PROVE  (B!Meaning(g) =
           [calls |-> CallsTo(g, LastOf(g)),
            ret |-> IF ReturnsIn(g) = {} THEN <<"end">>
                    ELSE TermAt(g, LastOf(g), StmtAt(g, LastOf(g)).value)])'
<1>1. B!Meaning(g) =
        [calls |-> CallsTo(g, LastOf(g)),
         ret |-> IF ReturnsIn(g) = {} THEN <<"end">>
                 ELSE TermAt(g, LastOf(g), StmtAt(g, LastOf(g)).value)]
  BY MeaningIs
<1> QED BY <1>1, PTL

LEMMA MeaningSame ==
  ASSUME prog' = prog, NEW g
  PROVE  B!Meaning(g)' = B!Meaning(g)
<1>1. ReturnsIn(g)' = ReturnsIn(g) /\ \A i : StmtAt(g, i)' = StmtAt(g, i)
  BY DEF ReturnsIn, StmtsIn, StmtAt
<1>2. B!First(ReturnsIn(g))' = B!First(ReturnsIn(g))
  BY <1>1 DEF B!First
<1>3. LastOf(g)' = LastOf(g)
  BY <1>1, <1>2 DEF LastOf
<1>4. PICK last, v : last = LastOf(g) /\ v = StmtAt(g, last).value
  OBVIOUS
<1>5. LastOf(g)' = last /\ StmtAt(g, last).value' = v
  BY <1>1, <1>3, <1>4
<1>6. CallsTo(g, last)' = CallsTo(g, last) /\ TermAt(g, last, v)' = TermAt(g, last, v)
  BY CallsToSame, TermSame
<1>7. B!Meaning(g) = [calls |-> CallsTo(g, last),
                      ret |-> IF ReturnsIn(g) = {} THEN <<"end">> ELSE TermAt(g, last, v)]
  BY <1>4, MeaningIs
<1>8. B!Meaning(g)' = [calls |-> CallsTo(g, LastOf(g)),
            ret |-> IF ReturnsIn(g) = {} THEN <<"end">>
                    ELSE TermAt(g, LastOf(g), StmtAt(g, LastOf(g)).value)]'
  BY MeaningIsNext
<1>9. [calls |-> CallsTo(g, LastOf(g)),
            ret |-> IF ReturnsIn(g) = {} THEN <<"end">>
                    ELSE TermAt(g, LastOf(g), StmtAt(g, LastOf(g)).value)]'
       = [calls |-> CallsTo(g, last)',
          ret |-> IF ReturnsIn(g) = {} THEN <<"end">> ELSE TermAt(g, last, v)']
  BY <1>1, <1>5
<1> QED BY <1>6, <1>7, <1>8, <1>9

-----------------------------------------------------------------------------
(* The translation of a body.  Until a statement returns, the machine      *)
(* holds what the parameters, the lets so far and the nodes that were      *)
(* translated stand for, and made the calls of the statements so far.      *)
Returned == \E i \in StmtsIn(f) : i < s /\ StmtAt(f, i).t = "return"
MachineGood(m) ==
  /\ Rec(m) /\ m.ret = <<"end">> /\ m.calls \in Seq(FnTerms(f))
  /\ \A r \in DOMAIN m.regs : r # 0 /\ Sets(ssaFns[f], r) /\ m.regs[r] # <<"end">>
ParamKnown(m, k) ==
  /\ paramEntry[f][k] # NULL /\ entries[paramEntry[f][k]].id # 0
  /\ Read(m.regs, entries[paramEntry[f][k]].id) = <<"param", k>>
ParamsKnown(m) == \A k \in 1 .. Len(Fn.params) : ParamKnown(m, k)
LetKnown(m, i) ==
  IF entries[stmtVar[f][i]].id = 0 THEN StmtAt(f, i).value = NULL
  ELSE Read(m.regs, entries[stmtVar[f][i]].id) = TermAt(f, i, StmtAt(f, i).value)
LetsKnown(m) == \A i \in StmtsIn(f) : i < s /\ StmtAt(f, i).t = "let" => LetKnown(m, i)
Known(m) ==
  {n \in Nodes : /\ result[n] \in 1 .. Len(ssaFns[f].regs)
                 /\ Read(m.regs, result[n]) = TermAt(f, s, n)}
ComeFirst(good) ==
  \A j \in 1 .. Len(todo) : \A n \in Reads(todo[j]) :
    n \in good \/ \E l \in 1 .. j - 1 : todo[l].n = n
CallsRight(m) ==
  m.calls \o PendingCalls(todo, f, s) = CallsTo(f, IF todo = << >> THEN s - 1 ELSE s)
Does(m, g) == B!Meaning(g) = [calls |-> m.calls, ret |-> m.ret]
EndsInStmt == todo # << >> => todo[Len(todo)].k = "stmt"
BodyInv(m) ==
  /\ s <= Len(Fn.stmts) + 1 /\ EndsInStmt
  /\ Returned => m.ret # <<"end">> /\ Does(m, f)
  /\ ~Returned => MachineGood(m) /\ ParamsKnown(m) /\ LetsKnown(m) /\ ComeFirst(Known(m)) /\ CallsRight(m)

LEMMA TermNull ==
  ASSUME prog \in Programs, NEW g \in Fns, NEW i \in StmtsIn(g)
  PROVE  TermAt(g, i, 0) = <<"none">>
<1>1. 0 \in Values
  BY ProgramShape DEF Values
<1>2. TermAt(g, i, 0) = TermBody(B!TermIn(g), g, i, 0)
  BY <1>1, TermDef
<1>3. ASSUME NEW term PROVE TermBody(term, g, i, 0) = <<"none">>
  BY DEF TermBody
<1> QED BY <1>2, <1>3

(* What sets a register still does.                                        *)
LEMMA SetsMore ==
  ASSUME NEW fn, fn.insts \in Seq(Insts), NEW fn2, NEW inst \in Insts, fn2.params = fn.params,
         fn2.insts = fn.insts \o <<inst>>
  PROVE  /\ \A r : Sets(fn, r) => Sets(fn2, r)
         /\ Sets(fn2, inst.result)
<1>1. /\ Len(fn.insts) \in Nat /\ Len(fn2.insts) = Len(fn.insts) + 1
      /\ \A k \in 1 .. Len(fn.insts) + 1 :
           fn2.insts[k] = IF k <= Len(fn.insts) THEN fn.insts[k] ELSE inst
  BY OneMore
<1> QED BY <1>1 DEF Sets

LEMMA SetsSame ==
  ASSUME NEW fn, NEW fn2, fn2.params = fn.params, fn2.insts = fn.insts
  PROVE  \A r : Sets(fn, r) <=> Sets(fn2, r)
  BY DEF Sets

LEMMA ReadFree == \A regs, r : r \notin DOMAIN regs => Read(regs, r) = <<"none">>
  BY DEF Read

LEMMA ReadNotEnd ==
  ASSUME NEW m, MachineGood(m)
  PROVE  \A r : Read(m.regs, r) # <<"end">>
<1>1. <<"none">> # <<"end">>
  OBVIOUS
<1> QED BY <1>1 DEF MachineGood, Read

(* The entries of the function but x keep their registers and values; one  *)
(* that gets a register has no value.                                      *)
IdsKept(owner, x, m, m2) ==
  \A d \in Mine(owner) : d # x =>
    /\ entries[d].id # 0 => /\ entries'[d].id = entries[d].id
                            /\ Read(m2.regs, entries[d].id) = Read(m.regs, entries[d].id)
    /\ entries[d].id = 0 => entries'[d].id = 0 \/ Read(m2.regs, entries'[d].id) = <<"none">>

InBody(own, owner, slot) ==
  /\ VerdictInv /\ Owned(own) /\ Tracked(own, owner, slot)
  /\ phase = "translate" /\ f \in Fns /\ p > Len(Fn.params)

LEMMA InBodyParts ==
  ASSUME NEW own, NEW owner, NEW slot, InBody(own, owner, slot)
  PROVE  /\ Inv /\ Filled /\ NamesInv /\ TypesInv /\ IrInv /\ prog \in Programs
         /\ Owned(own) /\ Tracked(own, owner, slot) /\ Placed(owner, slot)
         /\ Fit(Ids, Mine(owner), Waiting(owner, slot), ssaFns[f])
         /\ Fn = prog.fns[f] /\ Len(Fn.params) \in Nat /\ Len(Fn.stmts) \in Nat
         /\ p \in Nat /\ s \in Nat \ {0} /\ Len(entries) \in Nat
         /\ Len(paramEntry[f]) = Len(Fn.params) /\ Cur = Len(Fn.params) + s
         /\ phase = "translate" /\ f \in Fns /\ p > Len(Fn.params) /\ ~Naming
         /\ todo \in Seq(Tasks) /\ todo \in Seq(GoodTasks) /\ Len(ssaFns[f].regs) \in Nat
<1>1. Inv /\ Filled /\ NamesInv /\ TypesInv /\ IrInv /\ prog \in Programs
  BY DEF InBody, VerdictInv, Filled, Inv
<1>2. Owned(own) /\ Tracked(own, owner, slot) /\ Placed(owner, slot)
  BY DEF InBody, Tracked
<1>3. phase = "translate" /\ f \in Fns /\ p > Len(Fn.params) /\ ~Naming
  BY DEF InBody, Naming
<1>4. Fit(Ids, Mine(owner), Waiting(owner, slot), ssaFns[f])
  BY <1>1, <1>2, <1>3, Translating
<1>5. Len(ssaFns[f].regs) \in Nat
  BY <1>4, FitParts
<1>6. Fn = prog.fns[f] /\ Len(Fn.params) \in Nat /\ Len(Fn.stmts) \in Nat
  <2>1. f <= Len(prog.fns)
    BY <1>3 DEF Fns
  <2> QED BY <1>1, <2>1, InsideFn DEF Fn
<1>7. p \in Nat /\ s \in Nat \ {0} /\ todo \in Seq(Tasks)
  BY <1>1, InvParts DEF ControlOK, Tasks
<1>8. Len(entries) \in Nat
  BY <1>1, InvParts, LenProperties DEF TableOK
<1>9. Len(paramEntry[f]) = Len(Fn.params)
  <2>1. LoopsOK
    BY <1>1, InvParts
  <2> QED BY <1>3, <2>1 DEF LoopsOK, Fn, Fns
<1>10. Cur = Len(Fn.params) + s
  BY <1>3, <1>6, <1>7 DEF Cur
<1>11. todo \in Seq(GoodTasks)
  <2>1. \A i \in 1 .. Len(todo) : todo[i] \in GoodTasks
    <3>1. \A i \in 1 .. Len(todo) : todo[i].k # "stmt" => todo[i].n # 0
      BY <1>1, InvParts DEF WalkOK
    <3>2. \A i \in 1 .. Len(todo) : todo[i] \in Tasks
      BY <1>7
    <3>3. Len(prog.exprs) \in Nat
      BY <1>1, ProgramShape
    <3> QED BY <3>1, <3>2, <3>3 DEF GoodTasks, Tasks, Nodes
  <2> QED BY <1>7, <2>1, SeqDef
<1> QED BY <1>1, <1>2, <1>3, <1>4, <1>5, <1>6, <1>7, <1>8, <1>9, <1>10, <1>11

LEMMA ParamEntries ==
  ASSUME NEW own, NEW owner, NEW slot, InBody(own, owner, slot), NEW k \in 1 .. Len(Fn.params)
  PROVE  LET e == paramEntry[f][k]
         IN  e # NULL /\ e \in Mine(owner) /\ slot[e] = k /\ slot[e] < Cur
<1>1. /\ Inv /\ IrInv /\ Placed(owner, slot) /\ phase = "translate" /\ f \in Fns /\ p > Len(Fn.params)
      /\ p \in Nat /\ s \in Nat \ {0} /\ Fn = prog.fns[f] /\ Len(Fn.params) \in Nat
      /\ Len(paramEntry[f]) = Len(Fn.params) /\ Cur = Len(Fn.params) + s
  BY InBodyParts
<1>2. ParamDone(f, k)
  BY <1>1 DEF ParamDone
<1>3. paramEntry[f][k] # NULL
  BY <1>1, <1>2 DEF IrInv, ParamsSized
<1>4. owner[paramEntry[f][k]] = f /\ slot[paramEntry[f][k]] = k
  BY <1>1, <1>3 DEF Placed
<1>5. paramEntry[f][k] \in 1 .. Len(entries)
  <2>1. paramEntry[f] \in Seq(0 .. Len(entries))
    BY <1>1, InvParts DEF AnnotationsOK, Fns
  <2>2. paramEntry[f][k] \in 0 .. Len(entries)
    BY <1>1, <2>1
  <2>3. Len(entries) \in Nat
    BY InBodyParts
  <2> QED BY <1>3, <2>2, <2>3 DEF NULL
<1> QED BY <1>1, <1>3, <1>4, <1>5 DEF Mine

LEMMA LetEntries ==
  ASSUME NEW own, NEW owner, NEW slot, InBody(own, owner, slot), NEW i \in StmtsIn(f), StmtAt(f, i).t = "let"
  PROVE  LET e == stmtVar[f][i]
         IN  e # NULL /\ e \in Mine(owner) /\ slot[e] = Len(Fn.params) + i /\ (i < s => slot[e] < Cur)
<1>1. /\ Inv /\ NamesInv /\ Placed(owner, slot) /\ phase = "translate" /\ f \in Fns
      /\ s \in Nat \ {0} /\ Fn = prog.fns[f] /\ Len(Fn.params) \in Nat /\ Cur = Len(Fn.params) + s
      /\ Len(entries) \in Nat /\ Len(Fn.stmts) \in Nat
  BY InBodyParts
<1>2. Passed(f, i)
  BY <1>1 DEF Passed
<1>3. stmtVar[f][i] # NULL
  BY <1>1, <1>2 DEF NamesInv, LetsMade
<1>4. owner[stmtVar[f][i]] = f /\ slot[stmtVar[f][i]] = Len(Fn.params) + i
  BY <1>1, <1>3 DEF Placed, StmtsIn
<1>5. stmtVar[f][i] \in 1 .. Len(entries)
  <2>1. stmtVar[f] \in [1 .. Len(prog.fns[f].stmts) -> 0 .. Len(entries)]
    BY <1>1, InvParts DEF AnnotationsOK, Fns
  <2>2. stmtVar[f][i] \in 0 .. Len(entries)
    BY <2>1 DEF StmtsIn
  <2> QED BY <1>1, <1>3, <2>2 DEF NULL
<1>6. i \in Nat
  BY DEF StmtsIn
<1> QED BY <1>1, <1>3, <1>4, <1>5, <1>6 DEF Mine

LEMMA EntriesKept ==
  ASSUME NEW own, NEW owner, NEW slot, InBody(own, owner, slot),
         UNCHANGED <<prog, f, paramEntry, stmtVar>>, NEW x, NEW m, NEW m2, IdsKept(owner, x, m, m2),
         \A e \in Mine(owner) : e = x => slot[e] >= Cur
  PROVE  /\ ParamsKnown(m) => ParamsKnown(m2)'
         /\ LetsKnown(m) => \A i \in StmtsIn(f) : i < s /\ StmtAt(f, i).t = "let" => LetKnown(m2, i)'
<1>0. s \in Nat /\ Len(Fn.params) \in Nat /\ Cur = Len(Fn.params) + s /\ prog \in Programs /\ f \in Fns
  BY InBodyParts
<1>1. ASSUME NEW k \in 1 .. Len(Fn.params), ParamKnown(m, k)
      PROVE  ParamKnown(m2, k)'
  <2>1. PICK e : e = paramEntry[f][k]
    OBVIOUS
  <2>2. e # NULL /\ e \in Mine(owner) /\ slot[e] = k /\ slot[e] < Cur
    BY <2>1, ParamEntries
  <2>3. e # x
    BY <1>0, <2>2
  <2>4. entries[e].id # 0 /\ Read(m.regs, entries[e].id) = <<"param", k>>
    BY <1>1, <2>1 DEF ParamKnown
  <2>5. entries'[e].id = entries[e].id /\ Read(m2.regs, entries[e].id) = Read(m.regs, entries[e].id)
    BY <2>2, <2>3, <2>4 DEF IdsKept
  <2>6. Read(m2.regs, entries'[e].id) = <<"param", k>>
    BY <2>4, <2>5
  <2>7. paramEntry'[f'][k] = e
    BY <2>1
  <2> QED BY <2>2, <2>4, <2>5, <2>6, <2>7 DEF ParamKnown, Read
<1>2. ASSUME NEW i \in StmtsIn(f), i < s, StmtAt(f, i).t = "let", LetKnown(m, i)
      PROVE  LetKnown(m2, i)'
  <2>1. PICK e, v : e = stmtVar[f][i] /\ v = StmtAt(f, i).value
    OBVIOUS
  <2>2. e # NULL /\ e \in Mine(owner) /\ slot[e] = Len(Fn.params) + i /\ i \in Nat
    BY <1>2, <2>1, LetEntries DEF StmtsIn
  <2>3. e # x
    BY <1>0, <1>2, <2>2
  <2>4. stmtVar'[f'][i] = e /\ StmtAt(f, i)'.value = v
    BY <2>1 DEF StmtAt
  <2>5. TermAt(f, i, v)' = TermAt(f, i, v)
    <3>1. PICK g : g = f
      OBVIOUS
    <3>2. TermAt(g, i, v)' = TermAt(g, i, v) /\ f' = g
      BY <3>1, TermSame
    <3> QED BY <3>1, <3>2
  <2>6. CASE entries[e].id # 0
    <3>1. Read(m.regs, entries[e].id) = TermAt(f, i, v)
      BY <1>2, <2>1, <2>6 DEF LetKnown
    <3>2. entries'[e].id = entries[e].id /\ Read(m2.regs, entries[e].id) = Read(m.regs, entries[e].id)
      BY <2>2, <2>3, <2>6 DEF IdsKept
    <3>3. Read(m2.regs, entries'[e].id) = TermAt(f, i, v)' /\ entries'[e].id # 0
      BY <2>5, <2>6, <3>1, <3>2
    <3> QED BY <2>4, <3>3 DEF LetKnown, Read
  <2>7. CASE entries[e].id = 0
    <3>1. v = NULL
      BY <1>2, <2>1, <2>7 DEF LetKnown
    <3>2. entries'[e].id = 0 \/ Read(m2.regs, entries'[e].id) = <<"none">>
      BY <2>2, <2>3, <2>7 DEF IdsKept
    <3>3. TermAt(f, i, v) = <<"none">>
      BY <1>0, <3>1, TermNull DEF NULL
    <3>4. entries'[e].id # 0 => Read(m2.regs, entries'[e].id) = TermAt(f, i, v)'
      BY <2>5, <3>2, <3>3
    <3> QED BY <2>4, <3>1, <3>4 DEF LetKnown, Read, NULL
  <2> QED BY <2>6, <2>7
<1>3. Len(Fn.params)' = Len(Fn.params)
  BY DEF Fn
<1> QED BY <1>1, <1>2, <1>3 DEF ParamsKnown, LetsKnown

(* The walk goes on.                                                       *)
LEMMA KnownNext ==
  ASSUME UNCHANGED <<prog, f, s>>, NEW m2, NEW n \in Nodes,
         result'[n] \in 1 .. Len(ssaFns'[f].regs), Read(m2.regs, result'[n]) = TermAt(f, s, n)
  PROVE  n \in Known(m2)'
<1>1. PICK g, i : g = f /\ i = s
  OBVIOUS
<1>2. TermAt(g, i, n)' = TermAt(g, i, n)
  BY TermSame
<1>3. f' = g /\ s' = i /\ Nodes' = Nodes
  BY <1>1 DEF Nodes
<1>4. TermAt(f, s, n)' = TermAt(f, s, n)
  BY <1>1, <1>2, <1>3
<1>5. Read(m2.regs, result[n])' = TermAt(f, s, n)'
  BY <1>4 DEF Read
<1> QED BY <1>3, <1>5 DEF Known

LEMMA KnownGrows ==
  ASSUME UNCHANGED <<prog, f, s>>, NEW m, NEW m2, Len(ssaFns[f].regs) \in Nat, Len(ssaFns'[f].regs) \in Nat,
         Len(ssaFns[f].regs) <= Len(ssaFns'[f].regs),
         \A r \in 1 .. Len(ssaFns[f].regs) : Read(m2.regs, r) = Read(m.regs, r),
         \A n \in Nodes : result'[n] = result[n] \/ n \in Known(m2)'
  PROVE  Known(m) \subseteq Known(m2)'
<1>1. ASSUME NEW n \in Known(m), result'[n] = result[n]
      PROVE  n \in Known(m2)'
  <2>1. n \in Nodes /\ result[n] \in 1 .. Len(ssaFns[f].regs) /\ Read(m.regs, result[n]) = TermAt(f, s, n)
    BY DEF Known
  <2>2. result'[n] \in 1 .. Len(ssaFns'[f].regs) /\ Read(m2.regs, result'[n]) = TermAt(f, s, n)
    BY <1>1, <2>1
  <2> QED BY <2>1, <2>2, KnownNext
<1>2. Known(m) \subseteq Nodes
  BY DEF Known
<1> QED BY <1>1, <1>2

LEMMA ComeFirstOn ==
  ASSUME Inv, NEW good, NEW good2, ComeFirst(good), todo # << >>, prog' = prog, NEW tasks \in Seq(Tasks),
         Continue(tasks), good \subseteq good2,
         Node \in Nodes => Node \in good2 \/ \E l \in 1 .. Len(tasks) : tasks[l].n = Node,
         \A j \in 1 .. Len(tasks) : \A n \in Reads(tasks[j]) :
           n \in good2 \/ \E l \in 1 .. j - 1 : tasks[l].n = n
  PROVE  ComeFirst(good2)'
<1>1. ASSUME NEW j \in 1 .. Len(todo'), NEW t, t = todo'[j], NEW n \in Reads(t)
      PROVE  n \in good2 \/ \E l \in 1 .. j - 1 : todo'[l].n = n
  <2>1. /\ Len(tasks) \in Nat /\ Len(todo) \in Nat /\ Len(todo') = Len(tasks) + Len(todo) - 1
        /\ \A i \in 1 .. Len(tasks) : i \in 1 .. Len(todo') /\ todo'[i] = tasks[i]
        /\ \A i \in 2 .. Len(todo) : /\ Len(tasks) + i - 1 \in 1 .. Len(todo')
                                     /\ todo'[Len(tasks) + i - 1] = todo[i]
        /\ j > Len(tasks) => /\ j - Len(tasks) + 1 \in 2 .. Len(todo)
                             /\ todo'[j] = todo[j - Len(tasks) + 1]
        /\ Head(todo) = todo[1]
    BY Shifted
  <2>2. n \in Nodes
    BY DEF Reads
  <2>3. CASE j <= Len(tasks)
    <3>1. j \in 1 .. Len(tasks) /\ t = tasks[j]
      BY <1>1, <2>1, <2>3
    <3>2. n \in good2 \/ \E l \in 1 .. j - 1 : tasks[l].n = n
      BY <1>1, <3>1
    <3>3. \A l \in 1 .. j - 1 : todo'[l] = tasks[l]
      BY <2>1, <3>1
    <3> QED BY <3>2, <3>3
  <2>4. CASE j > Len(tasks)
    <3>1. PICK i \in 2 .. Len(todo) : i = j - Len(tasks) + 1 /\ t = todo[i]
      BY <1>1, <2>1, <2>4
    <3>2. i \in 1 .. Len(todo)
      BY <2>1
    <3>3. n \in good \/ \E l \in 1 .. i - 1 : todo[l].n = n
      BY <1>1, <3>1, <3>2 DEF ComeFirst
    <3>4. CASE n \in good
      BY <3>4
    <3>5. ASSUME NEW l \in 1 .. i - 1, todo[l].n = n
          PROVE  n \in good2 \/ \E m \in 1 .. j - 1 : todo'[m].n = n
      <4>1. CASE l = 1
        <5>1. Node = n
          BY <2>1, <3>5, <4>1 DEF Node
        <5>2. n \in good2 \/ \E m \in 1 .. Len(tasks) : tasks[m].n = n
          BY <2>2, <5>1
        <5>3. \A m \in 1 .. Len(tasks) : m \in 1 .. j - 1 /\ todo'[m] = tasks[m]
          BY <2>1, <2>4
        <5> QED BY <5>2, <5>3
      <4>2. CASE l # 1
        <5>1. l \in 2 .. Len(todo) /\ Len(tasks) + l - 1 \in 1 .. j - 1
          BY <2>1, <3>1, <4>2
        <5>2. todo'[Len(tasks) + l - 1].n = n
          BY <2>1, <3>5, <5>1
        <5> QED BY <5>1, <5>2
      <4> QED BY <4>1, <4>2
    <3> QED BY <3>3, <3>4, <3>5
  <2> QED BY <2>1, <2>3, <2>4
<1>2. UNCHANGED <<f, s>>
  BY DEF Continue
<1>3. \A t : Reads(t)' = Reads(t)
  BY <1>2 DEF Reads, Nodes, Expr, Stmt, Fn
<1>4. ASSUME NEW j \in 1 .. Len(todo'), NEW n, n \in (Reads(todo[j]))'
      PROVE  n \in good2 \/ \E l \in 1 .. j - 1 : todo'[l].n = n
  <2>1. PICK t : t = todo'[j]
    OBVIOUS
  <2>2. n \in Reads(t)
    BY <1>2, <1>4, <2>1 DEF Reads, Nodes, Expr, Stmt, Fn
  <2> QED BY <1>1, <2>1, <2>2
<1> QED BY <1>4 DEF ComeFirst

LEMMA EndsOn ==
  ASSUME Inv, EndsInStmt, todo # << >>, Head(todo).k # "stmt", NEW tasks \in Seq(Tasks), Continue(tasks)
  PROVE  EndsInStmt' /\ todo' # << >>
<1>1. todo \in Seq(Tasks)
  BY InvParts DEF ControlOK, Tasks
<1>2. /\ Len(tasks) \in Nat /\ Len(todo) \in Nat /\ Len(todo') = Len(tasks) + Len(todo) - 1
      /\ \A i \in 2 .. Len(todo) : /\ Len(tasks) + i - 1 \in 1 .. Len(todo')
                                   /\ todo'[Len(tasks) + i - 1] = todo[i]
      /\ Head(todo) = todo[1]
  BY Shifted
<1>3. Len(todo) # 0
  BY <1>1, EmptySeq
<1>4. Len(todo) # 1
  BY <1>2 DEF EndsInStmt
<1>5. Len(todo) \in 2 .. Len(todo) /\ Len(todo') = Len(tasks) + Len(todo) - 1 /\ Len(todo') # 0
  <2>1. PICK n, k, l : n = Len(todo) /\ k = Len(tasks) /\ l = Len(todo')
    OBVIOUS
  <2>2. n \in Nat /\ k \in Nat /\ n # 0 /\ n # 1 /\ l = k + n - 1
    BY <1>2, <1>3, <1>4, <2>1
  <2>3. n \in 2 .. n /\ l # 0
    BY <2>2
  <2> QED BY <2>1, <2>2, <2>3
<1>6. todo'[Len(todo')] = todo[Len(todo)]
  BY <1>2, <1>5
<1>7. todo' # << >>
  BY <1>5, EmptySeq
<1> QED BY <1>6, <1>7 DEF EndsInStmt

LEMMA CatMany ==
  \A S : \A w, x, y, z \in Seq(S) : w \o ((x \o y) \o z) = (w \o x) \o (y \o z) /\ w \o x \in Seq(S)
<1>1. ASSUME NEW S, NEW w \in Seq(S), NEW x \in Seq(S), NEW y \in Seq(S), NEW z \in Seq(S)
      PROVE  w \o ((x \o y) \o z) = (w \o x) \o (y \o z) /\ w \o x \in Seq(S)
  <2>1. w \o x \in Seq(S) /\ x \o y \in Seq(S) /\ y \o z \in Seq(S)
    BY ConcatProperties
  <2>2. (x \o y) \o z = x \o (y \o z)
    BY ConcatAssociative, SMTT(60)
  <2>3. PICK yz : yz = y \o z
    OBVIOUS
  <2>4. yz \in Seq(S)
    BY <2>1, <2>3
  <2>5. (w \o x) \o yz = w \o (x \o yz)
    BY <2>4, ConcatAssociative, SMTT(60)
  <2> QED BY <2>1, <2>2, <2>3, <2>5
<1> QED BY <1>1

(* The calls made and pending stay the same.                               *)
LEMMA CallsOn ==
  ASSUME prog \in Programs, f \in Fns, s \in StmtsIn(f), NEW m, NEW m2, m.calls \in Seq(FnTerms(f)),
         todo \in Seq(GoodTasks), todo # << >>, NEW tasks \in Seq(GoodTasks), NEW made \in Seq(FnTerms(f)),
         Continue(tasks), todo' # << >>, prog' = prog,
         m2.calls = m.calls \o made, TaskCalls(Head(todo), f, s) = made \o PendingCalls(tasks, f, s),
         CallsRight(m)
  PROVE  CallsRight(m2)' /\ m2.calls \in Seq(FnTerms(f))
<1>1. PICK g, i, S, rest, first : /\ g = f /\ i = s /\ S = FnTerms(g) /\ rest = Tail(todo)
                                  /\ first = Head(todo)
  OBVIOUS
<1>2. rest \in Seq(GoodTasks) /\ first \in GoodTasks /\ todo = <<first>> \o rest
  BY <1>1, HeadTailProperties
<1>3. PICK one \in Seq(GoodTasks) : one = <<first>>
  BY <1>2, OneElement
<1>4. PendingCalls(todo, g, i) = PendingCalls(<<first>>, g, i) \o PendingCalls(rest, g, i)
  <2>1. PendingCalls(one \o rest, g, i) = PendingCalls(one, g, i) \o PendingCalls(rest, g, i)
    BY <1>1, <1>2, <1>3, PendingCat
  <2>2. todo = one \o rest
    BY <1>2, <1>3
  <2> QED BY <1>3, <2>1, <2>2
<1>5. PendingCalls(<<first>>, g, i) = TaskCalls(first, g, i)
  BY <1>1, <1>2, PendingOne
<1>6. PendingCalls(tasks \o rest, g, i) = PendingCalls(tasks, g, i) \o PendingCalls(rest, g, i)
  BY <1>1, <1>2, PendingCat
<1>7. PendingCalls(tasks, g, i) \in Seq(S) /\ PendingCalls(rest, g, i) \in Seq(S)
  BY <1>1, <1>2, TaskListsIn
<1>8. PICK a, b, c, d : a = m.calls /\ b = made /\ c = PendingCalls(tasks, g, i) /\ d = PendingCalls(rest, g, i)
  OBVIOUS
<1>9. a \in Seq(S) /\ b \in Seq(S) /\ c \in Seq(S) /\ d \in Seq(S)
  BY <1>1, <1>7, <1>8
<1>10. a \o ((b \o c) \o d) = (a \o b) \o (c \o d) /\ a \o b \in Seq(S)
  <2>1. \A w, x, y, z \in Seq(S) : w \o ((x \o y) \o z) = (w \o x) \o (y \o z) /\ w \o x \in Seq(S)
    BY CatMany, Zenon
  <2>2. \A y, z \in Seq(S) : a \o ((b \o y) \o z) = (a \o b) \o (y \o z) /\ a \o b \in Seq(S)
    BY <1>9, <2>1, Zenon
  <2>3. \A z \in Seq(S) : a \o ((b \o c) \o z) = (a \o b) \o (c \o z)
    BY <1>9, <2>2, Zenon
  <2> QED BY <1>9, <2>2, <2>3, Zenon
<1>11. PendingCalls(todo, g, i) = (b \o c) \o d
  BY <1>1, <1>4, <1>5, <1>8
<1>12. m2.calls \o PendingCalls(tasks \o rest, g, i) = CallsTo(g, i)
  <2>1. m.calls \o PendingCalls(todo, g, i) = CallsTo(g, i)
    BY <1>1 DEF CallsRight
  <2> QED BY <1>6, <1>8, <1>10, <1>11, <2>1
<1>13. PICK next : next = tasks \o rest
  OBVIOUS
<1>14. todo' = next /\ f' = g /\ s' = i
  BY <1>1, <1>13 DEF Continue
<1>15. PendingCalls(next, g, i)' = PendingCalls(next, g, i) /\ CallsTo(g, i)' = CallsTo(g, i)
  BY PendingSame, CallsToSame
<1>16. PendingCalls(todo, f, s)' = PendingCalls(next, g, i) /\ CallsTo(f, s)' = CallsTo(g, i)
  BY <1>14, <1>15
<1> QED BY <1>1, <1>8, <1>10, <1>12, <1>13, <1>16 DEF CallsRight

(* A task was done: the machine made these calls, and these tasks come     *)
(* first.                                                                  *)
StepGood(owner, m, m2, tasks, made) ==
  /\ MachineGood(m2)' /\ todo # << >> /\ Head(todo).k # "stmt"
  /\ UNCHANGED <<prog, paramEntry, stmtVar>>
  /\ tasks \in Seq(GoodTasks) /\ Continue(tasks)
  /\ Len(ssaFns'[f].regs) \in Nat /\ Len(ssaFns[f].regs) <= Len(ssaFns'[f].regs)
  /\ \A r \in 1 .. Len(ssaFns[f].regs) : Read(m2.regs, r) = Read(m.regs, r)
  /\ IdsKept(owner, 0, m, m2)
  /\ \A n \in Nodes : result'[n] = result[n] \/ n \in Known(m2)'
  /\ Node \in Known(m2)' \/ \E l \in 1 .. Len(tasks) : tasks[l].n = Node
  /\ \A j \in 1 .. Len(tasks) : \A n \in Reads(tasks[j]) :
       n \in Known(m2)' \/ \E l \in 1 .. j - 1 : tasks[l].n = n
  /\ made \in Seq(FnTerms(f)) /\ m2.calls = m.calls \o made
  /\ TaskCalls(Head(todo), f, s) = made \o PendingCalls(tasks, f, s)

LEMMA TasksOf == \A tasks \in Seq(GoodTasks) : tasks \in Seq(Tasks)
<1>1. ASSUME NEW tasks \in Seq(GoodTasks) PROVE tasks \in Seq(Tasks)
  <2>1. \A i \in 1 .. Len(tasks) : tasks[i] \in Tasks
    BY DEF GoodTasks
  <2> QED BY <2>1, SeqDef
<1> QED BY <1>1

LEMMA BodyOn ==
  ASSUME NEW own, NEW owner, NEW slot, InBody(own, owner, slot), NEW m, NEW m2, BodyInv(m), ~Returned,
         NEW tasks, NEW made, StepGood(owner, m, m2, tasks, made)
  PROVE  BodyInv(m2)'
<1>1. /\ Inv /\ Filled /\ TypesInv /\ IrInv /\ prog \in Programs /\ phase = "translate" /\ f \in Fns
      /\ todo \in Seq(GoodTasks) /\ s \in Nat \ {0} /\ Len(ssaFns[f].regs) \in Nat /\ Len(entries) \in Nat
  BY InBodyParts
<1>0. /\ MachineGood(m2)' /\ todo # << >> /\ Head(todo).k # "stmt"
      /\ UNCHANGED <<prog, paramEntry, stmtVar>>
      /\ tasks \in Seq(GoodTasks) /\ Continue(tasks)
      /\ Len(ssaFns'[f].regs) \in Nat /\ Len(ssaFns[f].regs) <= Len(ssaFns'[f].regs)
      /\ \A r \in 1 .. Len(ssaFns[f].regs) : Read(m2.regs, r) = Read(m.regs, r)
      /\ IdsKept(owner, 0, m, m2)
      /\ \A n \in Nodes : result'[n] = result[n] \/ n \in Known(m2)'
      /\ Node \in Known(m2)' \/ \E l \in 1 .. Len(tasks) : tasks[l].n = Node
      /\ \A j \in 1 .. Len(tasks) : \A n \in Reads(tasks[j]) :
           n \in Known(m2)' \/ \E l \in 1 .. j - 1 : tasks[l].n = n
      /\ made \in Seq(FnTerms(f)) /\ m2.calls = m.calls \o made
      /\ TaskCalls(Head(todo), f, s) = made \o PendingCalls(tasks, f, s)
  BY DEF StepGood
<1>2. UNCHANGED <<f, p, s>>
  BY <1>0 DEF Continue
<1>3. MachineGood(m) /\ ParamsKnown(m) /\ LetsKnown(m) /\ ComeFirst(Known(m)) /\ CallsRight(m)
      /\ s <= Len(Fn.stmts) + 1 /\ EndsInStmt
  BY DEF BodyInv
<1>4. tasks \in Seq(Tasks)
  BY <1>0, TasksOf
<1>5. (s <= Len(Fn.stmts) + 1)' /\ ~Returned'
  BY <1>0, <1>2, <1>3 DEF Fn, Returned, StmtsIn, StmtAt
<1>6. EndsInStmt' /\ todo' # << >>
  BY <1>0, <1>1, <1>3, <1>4, EndsOn
<1>7. ParamsKnown(m2)' /\ LetsKnown(m2)'
  <2>1. \A e \in Mine(owner) : e = 0 => slot[e] >= Cur
    BY <1>1 DEF Mine
  <2>2. /\ ParamsKnown(m2)'
        /\ \A i \in StmtsIn(f) : i < s /\ StmtAt(f, i).t = "let" => LetKnown(m2, i)'
    BY <1>0, <1>2, <1>3, <2>1, EntriesKept
  <2>3. StmtsIn(f)' = StmtsIn(f) /\ \A i : StmtAt(f, i)' = StmtAt(f, i)
    BY <1>0, <1>2 DEF StmtsIn, StmtAt
  <2> QED BY <1>2, <2>2, <2>3 DEF LetsKnown
<1>8. PICK good, good2 : good = Known(m) /\ good2 = Known(m2)'
  OBVIOUS
<1>9. good \subseteq good2
  BY <1>0, <1>1, <1>2, <1>8, KnownGrows
<1>10. ComeFirst(good2)'
  BY <1>0, <1>1, <1>3, <1>4, <1>8, <1>9, ComeFirstOn
<1>11. ComeFirst(Known(m2))'
  BY <1>8, <1>10 DEF ComeFirst
<1>12. CallsRight(m2)'
  <2>1. s \in StmtsIn(f)
    BY <1>0, <1>1, AtTranslate
  <2>2. m.calls \in Seq(FnTerms(f))
    BY <1>3 DEF MachineGood
  <2> QED BY <1>0, <1>1, <1>3, <1>6, <2>1, <2>2, CallsOn
<1> QED BY <1>0, <1>5, <1>6, <1>7, <1>11, <1>12 DEF BodyInv

(* What happens to the machine.                                            *)
LEMMA MachineStays ==
  ASSUME UNCHANGED <<prog, f>>, ssaFns[f].insts \in Seq(Insts), ssaFns'[f].insts = ssaFns[f].insts,
         ssaFns'[f].params = ssaFns[f].params
  PROVE  Machine(ssaFns[f])' = Machine(ssaFns[f])
<1>1. PICK fn, fn2 : fn = ssaFns[f] /\ fn2 = ssaFns'[f]
  OBVIOUS
<1>2. Machine(fn2)' = Machine(fn2)
  BY MachinePrimed
<1>3. Machine(fn2) = Machine(fn)
  BY <1>1, MachineSame
<1>4. Machine(ssaFns[f])' = Machine(fn2)'
  BY <1>1
<1> QED BY <1>1, <1>2, <1>3, <1>4

LEMMA MachineMoves ==
  ASSUME UNCHANGED <<prog, f>>, ssaFns[f].insts \in Seq(Insts), NEW inst \in Insts,
         ssaFns'[f].insts = ssaFns[f].insts \o <<inst>>, ssaFns'[f].params = ssaFns[f].params
  PROVE  Machine(ssaFns[f])' = Exec(Machine(ssaFns[f]), inst, CalleeName(inst))
<1>1. PICK fn, fn2 : fn = ssaFns[f] /\ fn2 = ssaFns'[f]
  OBVIOUS
<1>2. Machine(fn2)' = Machine(fn2)
  BY MachinePrimed
<1>3. Machine(fn2) = Exec(Machine(fn), inst, CalleeName(inst))
  BY <1>1, MachineNext
<1>4. Machine(ssaFns[f])' = Machine(fn2)'
  BY <1>1
<1> QED BY <1>1, <1>2, <1>3, <1>4

LEMMA GoodStays ==
  ASSUME UNCHANGED <<prog, f>>, NEW m, MachineGood(m), ssaFns'[f].insts = ssaFns[f].insts,
         ssaFns'[f].params = ssaFns[f].params
  PROVE  MachineGood(m)'
<1>1. PICK g, fn, fn2 : g = f /\ fn = ssaFns[f] /\ fn2 = ssaFns'[f]
  OBVIOUS
<1>2. FnTerms(g)' = FnTerms(g)
  BY FnTermsSame
<1>3. \A r : Sets(fn, r) <=> Sets(fn2, r)
  BY <1>1, SetsSame
<1>4. FnTerms(f)' = FnTerms(f) /\ ssaFns'[f'] = fn2
  BY <1>1, <1>2
<1>5. \A r \in DOMAIN m.regs : r # 0 /\ Sets(fn2, r) /\ m.regs[r] # <<"end">>
  BY <1>1, <1>3 DEF MachineGood
<1>6. Rec(m) /\ m.ret = <<"end">> /\ m.calls \in Seq(FnTerms(f)')
  BY <1>4 DEF MachineGood
<1>7. \A r \in DOMAIN m.regs : r # 0 /\ Sets(ssaFns[f], r)' /\ m.regs[r] # <<"end">>
  BY <1>1, <1>4, <1>5 DEF Sets
<1> QED BY <1>6, <1>7 DEF MachineGood, Rec

LEMMA GoodSets ==
  ASSUME UNCHANGED <<prog, f>>, NEW m, MachineGood(m), ssaFns[f].insts \in Seq(Insts), NEW inst \in Insts,
         ssaFns'[f].insts = ssaFns[f].insts \o <<inst>>, ssaFns'[f].params = ssaFns[f].params,
         inst.result # 0, NEW value, value # <<"end">>, NEW calls \in Seq(FnTerms(f)),
         NEW m2, m2 = [regs |-> SetReg(m.regs, inst.result, value), calls |-> calls, ret |-> m.ret]
  PROVE  MachineGood(m2)'
<1>1. PICK g, fn, fn2, x : g = f /\ fn = ssaFns[f] /\ fn2 = ssaFns'[f] /\ x = inst.result
  OBVIOUS
<1>2. FnTerms(g)' = FnTerms(g)
  BY FnTermsSame
<1>3. (\A r : Sets(fn, r) => Sets(fn2, r)) /\ Sets(fn2, x)
  BY <1>1, SetsMore
<1>4. FnTerms(f)' = FnTerms(f) /\ ssaFns'[f'] = fn2
  BY <1>1, <1>2
<1>5. PICK regs : regs = SetReg(m.regs, x, value)
  OBVIOUS
<1>6. m2.regs = regs /\ m2.calls = calls /\ m2.ret = m.ret /\ Rec(m2)
  BY <1>1, <1>5 DEF Rec
<1>7. \A r \in DOMAIN regs : r # 0 /\ Sets(fn2, r) /\ regs[r] # <<"end">>
  BY <1>1, <1>3, <1>5 DEF MachineGood, SetReg
<1>8. \A r \in DOMAIN m2.regs : r # 0 /\ Sets(ssaFns[f], r)' /\ m2.regs[r] # <<"end">>
  BY <1>4, <1>6, <1>7 DEF Sets
<1>9. m2.ret = <<"end">> /\ m2.calls \in Seq(FnTerms(f)')
  BY <1>4, <1>6 DEF MachineGood
<1> QED BY <1>6, <1>8, <1>9 DEF MachineGood, Rec

(* After the first return nothing changes.                                 *)
LEMMA ReturnedOn ==
  ASSUME NEW own, NEW owner, NEW slot, InBody(own, owner, slot), NEW m, BodyInv(m), Returned,
         UNCHANGED <<prog, f>>, s' \in Nat, s <= s', s' <= Len(Fn.stmts) + 1, EndsInStmt'
  PROVE  BodyInv(m)'
<1>1. s \in Nat
  BY InBodyParts
<1>2. Returned'
  <2>1. PICK i \in StmtsIn(f) : i < s /\ StmtAt(f, i).t = "return"
    BY DEF Returned
  <2>2. i \in Nat /\ i < s'
    BY <1>1, <2>1 DEF StmtsIn
  <2> QED BY <2>1, <2>2 DEF Returned, StmtsIn, StmtAt
<1>3. PICK g : g = f
  OBVIOUS
<1>4. B!Meaning(g)' = B!Meaning(g)
  BY MeaningSame
<1>5. B!Meaning(f)' = B!Meaning(f)
  BY <1>3, <1>4
<1>6. Does(m, f)' /\ m.ret # <<"end">>
  BY <1>5 DEF BodyInv, Does
<1> QED BY <1>2, <1>6 DEF BodyInv, Fn

BodyNext == \E m2 : m2 = Machine(ssaFns[f])' /\ BodyInv(m2)'

LEMMA IdleKept ==
  ASSUME entries' = entries, NEW owner, NEW m
  PROVE  IdsKept(owner, 0, m, m)
  BY DEF IdsKept

LEMMA ArgsBody ==
  ASSUME NEW own, NEW owner, NEW slot, InBody(own, owner, slot), NEW m, m = Machine(ssaFns[f]), BodyInv(m),
         NEW t \in {"binop", "funcall"}, TranslateArgs(t)
  PROVE  BodyNext
<1> DEFINE args == EnterAll(Expr(Node).args)
           tasks == args \o <<Leave(Node)>>
<1>0. /\ Inv /\ Filled /\ TypesInv /\ IrInv /\ prog \in Programs /\ phase = "translate" /\ f \in Fns
      /\ todo \in Seq(GoodTasks) /\ s \in Nat \ {0} /\ Len(ssaFns[f].regs) \in Nat
  BY InBodyParts
<1>1. /\ todo # << >> /\ Head(todo).k = "enter" /\ Continue(tasks)
      /\ UNCHANGED <<prog, f, entries, paramEntry, stmtVar, ssaFns, result>> /\ UNCHANGED <<prog, f, s>>
  BY DEF TranslateArgs, At, In, Continue, annotations, irVars
<1>2. Node \in Nodes /\ s \in StmtsIn(f)
  BY <1>0, <1>1, AtTranslate
<1>3. PICK n, i : n = Node /\ i = s
  OBVIOUS
<1>4. /\ EnterAll(Expr(n).args) \in Seq(GoodTasks)
      /\ PendingCalls(EnterAll(Expr(n).args), f, i) = FlattenSeq(OperandCalls(f, i, n))
  BY <1>0, <1>2, <1>3, PendingArgs
<1>5. /\ Len(EnterAll(Expr(n).args)) = Len(Expr(n).args) /\ Len(Expr(n).args) \in Nat
      /\ \A k \in 1 .. Len(Expr(n).args) : EnterAll(Expr(n).args)[k] = Enter(Expr(n).args[k])
  BY <1>0, <1>2, <1>3, ArgsEntered, BelowNode
<1>6. Leave(n) \in GoodTasks /\ Leave(n).n = n /\ Leave(n).k = "leave"
  BY <1>0, <1>2, <1>3, AtTask DEF Leave, Task, Tasks, Nodes, GoodTasks
<1>7. PICK list, last : list = EnterAll(Expr(n).args) /\ last = Leave(n)
  OBVIOUS
<1>15. /\ Len(list) = Len(Expr(n).args)
       /\ \A k \in 1 .. Len(Expr(n).args) : list[k].k = "enter" /\ list[k].n = Expr(n).args[k]
  <2>1. \A v : Enter(v).n = v /\ Enter(v).k = "enter"
    BY DEF Enter, Task
  <2> QED BY <1>5, <1>7, <2>1
<1>8. PICK all \in Seq(GoodTasks) : all = list \o <<last>>
  BY <1>4, <1>6, <1>7, OneMore
<1>9. /\ Len(list) \in Nat /\ Len(all) = Len(list) + 1
      /\ \A k \in 1 .. Len(list) + 1 : all[k] = IF k <= Len(list) THEN list[k] ELSE last
  BY <1>4, <1>6, <1>7, <1>8, OneMore
<1>10. Continue(all)
  BY <1>1, <1>3, <1>7, <1>8
<1>11. m = Machine(ssaFns[f])'
  <2>1. ssaFns[f].insts \in Seq(Insts)
    BY <1>0, CurrentFn
  <2> QED BY <1>1, <2>1, MachineStays
<1>12. all \in Seq(Tasks)
  BY TasksOf
<1>13. CASE Returned
  <2>1. EndsInStmt'
    BY <1>0, <1>1, <1>10, <1>12, EndsOn DEF BodyInv
  <2>2. s <= Len(Fn.stmts) + 1
    BY DEF BodyInv
  <2>3. BodyInv(m)'
    BY <1>0, <1>1, <1>13, <2>1, <2>2, ReturnedOn
  <2> QED BY <1>11, <2>3 DEF BodyNext
<1>14. CASE ~Returned
  <2>1. MachineGood(m)'
    BY <1>1, <1>14, GoodStays DEF BodyInv
  <2>2. all[Len(list) + 1].n = Node
    BY <1>3, <1>6, <1>7, <1>9
  <2>3. ASSUME NEW j \in 1 .. Len(all), NEW n2 \in Reads(all[j])
        PROVE  \E l \in 1 .. j - 1 : all[l].n = n2
    <3>1. CASE j <= Len(list)
      <4>1. all[j].k = "enter"
        BY <1>9, <1>15, <3>1
      <4> QED BY <4>1 DEF Reads
    <3>2. CASE j = Len(list) + 1
      <4>1. all[j] = last
        BY <1>9, <3>2
      <4>2. PICK k \in 1 .. Len(Expr(n).args) : n2 = Expr(n).args[k]
        BY <1>6, <1>7, <4>1 DEF Reads
      <4>3. k \in 1 .. Len(list) + 1 /\ k <= Len(list) /\ list[k].n = n2
        BY <1>9, <1>15, <4>2
      <4>4. all[k].n = n2 /\ k \in 1 .. j - 1
        BY <1>9, <3>2, <4>3
      <4> QED BY <4>4
    <3>3. j <= Len(list) \/ j = Len(list) + 1
      BY <1>9
    <3> QED BY <3>1, <3>2, <3>3
  <2>4. TaskCalls(Head(todo), f, s) = << >> \o PendingCalls(all, f, s)
    <3>1. PICK S : S = FnTerms(f)
      OBVIOUS
    <3>2. <<last>> \in Seq(GoodTasks)
      BY <1>6, <1>7, OneElement
    <3>3. PICK one \in Seq(GoodTasks) : one = <<last>>
      BY <3>2
    <3>4. list \in Seq(GoodTasks) /\ i \in StmtsIn(f)
      BY <1>2, <1>3, <1>4, <1>7
    <3>5. PendingCalls(list \o one, f, i) = PendingCalls(list, f, i) \o PendingCalls(one, f, i)
      BY <1>0, <3>3, <3>4, PendingCat
    <3>6. PendingCalls(<<last>>, f, i) = TaskCalls(last, f, i)
      BY <1>0, <1>6, <1>7, <3>4, PendingOne
    <3>7. TaskCalls(last, f, i) = OwnCall(f, i, n)
      BY <1>6, <1>7 DEF TaskCalls
    <3>8. PendingCalls(all, f, i) = FlattenSeq(OperandCalls(f, i, n)) \o OwnCall(f, i, n)
      BY <1>4, <1>7, <1>8, <3>3, <3>5, <3>6, <3>7
    <3>9. n \in Values /\ n # 0
      BY <1>2, <1>3 DEF Values, Nodes
    <3>10. CallsAt(f, i, n) = PendingCalls(all, f, i)
      BY <1>0, <3>8, <3>9, CallsDef
    <3>11. TaskCalls(Head(todo), f, s) = CallsAt(f, i, n)
      BY <1>1, <1>3 DEF TaskCalls, Node
    <3>12. PendingCalls(all, f, i) \in Seq(S)
      BY <1>0, <1>8, <3>1, <3>4, TaskListsIn
    <3>13. << >> \o PendingCalls(all, f, i) = PendingCalls(all, f, i)
      BY <3>12, ConcatEmptySeq
    <3> QED BY <1>3, <3>10, <3>11, <3>13
  <2>5. << >> \in Seq(FnTerms(f)) /\ m.calls = m.calls \o << >>
    <3>1. m.calls \in Seq(FnTerms(f))
      BY <1>14 DEF BodyInv, MachineGood
    <3> QED BY <3>1, ConcatEmptySeq, EmptySeq
  <2>6. PICK made \in Seq(FnTerms(f)) : made = << >>
    BY <2>5
  <2>7. IdsKept(owner, 0, m, m)
    BY <1>1, IdleKept
  <2>8. Len(list) + 1 \in 1 .. Len(all)
    BY <1>9
  <2>9. /\ Len(ssaFns'[f].regs) \in Nat /\ Len(ssaFns[f].regs) <= Len(ssaFns'[f].regs)
        /\ \A n2 \in Nodes : result'[n2] = result[n2] \/ n2 \in Known(m)'
    BY <1>0, <1>1
  <2>10. \E l \in 1 .. Len(all) : all[l].n = Node
    BY <2>2, <2>8
  <2>11. Head(todo).k # "stmt"
    BY <1>1
  <2>12. m.calls = m.calls \o made /\ TaskCalls(Head(todo), f, s) = made \o PendingCalls(all, f, s)
    BY <2>4, <2>5, <2>6
  <2>13. StepGood(owner, m, m, all, made)
    BY <1>1, <1>8, <1>10, <2>1, <2>3, <2>6, <2>7, <2>9, <2>10, <2>11, <2>12 DEF StepGood
  <2>14. BodyInv(m)'
    BY <1>14, <2>13, BodyOn
  <2> QED BY <1>11, <2>14 DEF BodyNext
<1> QED BY <1>13, <1>14

(* The calls of the statements so far.                                     *)
LEMMA CallsBetween ==
  ASSUME NEW own, NEW owner, NEW slot, InBody(own, owner, slot), NEW m, BodyInv(m), ~Returned, todo = << >>
  PROVE  m.calls = CallsTo(f, s - 1)
<1>1. m.calls \in Seq(FnTerms(f)) /\ CallsRight(m)
  BY DEF BodyInv, MachineGood
<1>2. PendingCalls(todo, f, s) = << >>
  BY PendingNone
<1>3. m.calls \o << >> = m.calls
  BY <1>1, ConcatEmptySeq
<1> QED BY <1>1, <1>2, <1>3 DEF CallsRight

LEMMA EndStmtTask == EndStmt.k = "stmt" /\ \A n : Enter(n).k = "enter" /\ Enter(n).n = n
  BY DEF EndStmt, Enter, Task

LEMMA CallsAfter ==
  ASSUME NEW own, NEW owner, NEW slot, InBody(own, owner, slot), NEW m, BodyInv(m), ~Returned,
         todo # << >>, Head(todo).k = "stmt"
  PROVE  m.calls = CallsTo(f, s)
<1>0. /\ Inv /\ Filled /\ TypesInv /\ IrInv /\ prog \in Programs /\ phase = "translate" /\ f \in Fns
      /\ todo \in Seq(GoodTasks)
  BY InBodyParts
<1>1. m.calls \in Seq(FnTerms(f)) /\ CallsRight(m)
  BY DEF BodyInv, MachineGood
<1>2. Len(todo) = 1 /\ todo[1].k = "stmt" /\ s \in StmtsIn(f)
  BY <1>0, AtTranslate
<1>3. PICK t \in GoodTasks : t = todo[1]
  BY <1>0, <1>2, ElementOfSeq
<1>4. todo = <<t>>
  BY <1>0, <1>2, <1>3
<1>5. PendingCalls(<<t>>, f, s) = << >>
  BY <1>0, <1>2, <1>3, PendingOne DEF TaskCalls
<1>6. m.calls \o << >> = m.calls
  BY <1>1, ConcatEmptySeq
<1> QED BY <1>1, <1>4, <1>5, <1>6 DEF CallsRight

(* A statement that does not return is done.                               *)
LEMMA BodyMoves ==
  ASSUME NEW own, NEW owner, NEW slot, InBody(own, owner, slot), NEW m, BodyInv(m), ~Returned, NEW m2,
         MachineGood(m2)', UNCHANGED <<prog, f, p, paramEntry, stmtVar>>, NEW now \in StmtsIn(f), now = s,
         s' = s + 1, todo' = << >>, StmtAt(f, now).t # "return", NEW x, IdsKept(owner, x, m, m2),
         \A e \in Mine(owner) : e = x => slot[e] >= Cur,
         StmtAt(f, now).t = "let" => LetKnown(m2, now)', m2.calls = CallsTo(f, now)
  PROVE  BodyInv(m2)'
<1>1. /\ prog \in Programs /\ f \in Fns /\ s \in Nat \ {0} /\ Len(Fn.stmts) \in Nat /\ Fn = prog.fns[f]
      /\ s <= Len(Fn.stmts) /\ s' - 1 = now
  BY InBodyParts DEF StmtsIn
<1>2. StmtsIn(f)' = StmtsIn(f) /\ \A i : StmtAt(f, i)' = StmtAt(f, i)
  BY DEF StmtsIn, StmtAt
<1>3. \A i \in StmtsIn(f) : i < s' => i < s \/ i = now
  BY <1>1 DEF StmtsIn
<1>4. ~Returned'
  BY <1>2, <1>3 DEF Returned
<1>5. ParamsKnown(m) /\ LetsKnown(m)
  BY DEF BodyInv
<1>6. /\ ParamsKnown(m2)'
      /\ \A i \in StmtsIn(f) : i < s /\ StmtAt(f, i).t = "let" => LetKnown(m2, i)'
  BY <1>5, EntriesKept
<1>7. LetsKnown(m2)'
  BY <1>2, <1>3, <1>6 DEF LetsKnown
<1>8. todo' = << >> /\ Len(todo') = 0
  BY EmptySeq
<1>9. ComeFirst(Known(m2))' /\ EndsInStmt'
  BY <1>8 DEF ComeFirst, EndsInStmt
<1>10. CallsRight(m2)'
  <2>1. PICK g : g = f
    OBVIOUS
  <2>2. CallsTo(g, now)' = CallsTo(g, now)
    BY CallsToSame
  <2>3. CallsTo(f, s - 1)' = m2.calls
    BY <1>1, <2>1, <2>2
  <2>5. PendingCalls(todo, f, s)' = << >>
    <3>1. PICK i : i = s'
      OBVIOUS
    <3>2. PICK none : none = << >>
      OBVIOUS
    <3>3. PendingCalls(none, g, i)' = PendingCalls(none, g, i)
      BY PendingSame
    <3>4. PendingCalls(none, g, i) = << >>
      BY <3>2, PendingNone
    <3>5. PendingCalls(todo, f, s)' = PendingCalls(none, g, i)'
      BY <2>1, <3>1, <3>2
    <3> QED BY <3>3, <3>4, <3>5
  <2>6. m2.calls \o << >> = m2.calls
    <3>1. m2.calls \in Seq(FnTerms(f)')
      BY DEF MachineGood
    <3> QED BY <3>1, ConcatEmptySeq
  <2> QED BY <2>3, <2>5, <2>6 DEF CallsRight
<1>11. (s <= Len(Fn.stmts) + 1)'
  BY <1>1 DEF Fn
<1> QED BY <1>4, <1>6, <1>7, <1>9, <1>10, <1>11 DEF BodyInv

(* The entry of a let that is being translated has no value yet.           *)
LEMMA NotSetYet ==
  ASSUME NEW own, NEW owner, NEW slot, InBody(own, owner, slot), NEW m, MachineGood(m), NEW e \in Mine(owner),
         slot[e] >= Cur, entries[e].id # 0
  PROVE  entries[e].id \notin DOMAIN m.regs /\ Read(m.regs, entries[e].id) = <<"none">>
<1>1. Fit(Ids, Mine(owner), Waiting(owner, slot), ssaFns[f])
  BY InBodyParts
<1>2. e \in Waiting(owner, slot) /\ Ids[e] = entries[e].id
  BY DEF Waiting, Ids, Mine
<1>3. ~Sets(ssaFns[f], entries[e].id)
  BY <1>1, <1>2, FitParts
<1>4. entries[e].id \notin DOMAIN m.regs
  BY <1>3 DEF MachineGood
<1> QED BY <1>4, ReadFree

LEMMA SkipBody ==
  ASSUME NEW own, NEW owner, NEW slot, InBody(own, owner, slot), NEW m, m = Machine(ssaFns[f]), BodyInv(m),
         ~Returned, s \in StmtsIn(f), StmtAt(f, s).t = "let", StmtAt(f, s).value = NULL, todo = << >>,
         SkipStmt, UNCHANGED <<prog, entries, paramEntry, stmtVar, ssaFns>>
  PROVE  BodyInv(m)'
<1>1. PICK now : now = s
  OBVIOUS
<1>2. /\ now \in StmtsIn(f) /\ s' = s + 1 /\ todo' = << >> /\ UNCHANGED <<prog, f, p, paramEntry, stmtVar>>
      /\ StmtAt(f, now).t = "let" /\ StmtAt(f, now).value = NULL
  BY <1>1 DEF SkipStmt, NextStmt
<1>3. /\ prog \in Programs /\ f \in Fns /\ s \in Nat \ {0} /\ Cur = Len(Fn.params) + s
      /\ Len(Fn.params) \in Nat /\ Len(entries) \in Nat
  BY InBodyParts
<1>4. MachineGood(m) /\ MachineGood(m)'
  BY <1>2, GoodStays DEF BodyInv
<1>5. IdsKept(owner, 0, m, m)
  BY IdleKept
<1>6. \A e \in Mine(owner) : e = 0 => slot[e] >= Cur
  BY <1>3 DEF Mine
<1>7. LetKnown(m, now)'
  <2>1. PICK e : e = stmtVar[f][now]
    OBVIOUS
  <2>2. e \in Mine(owner) /\ slot[e] >= Cur
    <3>1. e \in Mine(owner) /\ slot[e] = Len(Fn.params) + now
      BY <1>2, <2>1, LetEntries
    <3> QED BY <1>1, <1>3, <3>1
  <2>3. entries[e].id # 0 => Read(m.regs, entries[e].id) = <<"none">>
    BY <1>4, <2>2, NotSetYet
  <2>4. PICK g : g = f
    OBVIOUS
  <2>5. TermAt(g, now, NULL)' = TermAt(g, now, NULL) /\ TermAt(g, now, NULL) = <<"none">>
    BY <1>2, <1>3, <2>4, TermSame, TermNull DEF NULL
  <2>6. TermAt(f, now, StmtAt(f, now).value)' = <<"none">> /\ StmtAt(f, now)'.value = NULL
    <3>1. StmtAt(f, now)'.value = NULL /\ f' = g
      BY <1>2, <2>4 DEF StmtAt
    <3> QED BY <2>5, <3>1
  <2>7. stmtVar'[f'][now] = e /\ entries' = entries
    BY <1>2, <2>1
  <2> QED BY <2>3, <2>6, <2>7 DEF LetKnown, Read
<1>8. m.calls = CallsTo(f, now)
  <2>1. m.calls = CallsTo(f, s - 1)
    BY CallsBetween
  <2>2. /\ CallsTo(f, s) = CallsTo(f, s - 1) \o CallsAt(f, s, 0)
        /\ CallsTo(f, s - 1) \in Seq(FnTerms(f))
    BY <1>2, <1>3, CallsToNext DEF NULL
  <2>3. CallsAt(f, s, 0) = << >>
    <3>1. 0 \in Values
      BY <1>3, ProgramShape DEF Values
    <3> QED BY <1>3, <3>1, CallsDef
  <2>4. CallsTo(f, s - 1) \o << >> = CallsTo(f, s - 1)
    BY <2>2, ConcatEmptySeq
  <2> QED BY <1>1, <2>1, <2>2, <2>3, <2>4
<1>9. StmtAt(f, now).t # "return"
  BY <1>2
<1> QED BY <1>1, <1>2, <1>4, <1>5, <1>6, <1>7, <1>8, <1>9, BodyMoves

StmtTasks(v) == (IF v = NULL THEN << >> ELSE <<Enter(v)>>) \o <<EndStmt>>

LEMMA TasksOfStmt ==
  ASSUME Inv, f \in Fns, NEW i \in StmtsIn(f), NEW v, v = StmtAt(f, i).value
  PROVE  /\ StmtTasks(v) \in Seq(GoodTasks) /\ StmtTasks(v) # << >>
         /\ v = NULL => Len(StmtTasks(v)) = 1 /\ StmtTasks(v)[1] = EndStmt
         /\ v # NULL => Len(StmtTasks(v)) = 2 /\ StmtTasks(v)[1] = Enter(v) /\ StmtTasks(v)[2] = EndStmt
         /\ PendingCalls(StmtTasks(v), f, i) = CallsAt(f, i, v)
<1>1. prog \in Programs /\ Len(prog.exprs) \in Nat
  BY InvParts, ProgramShape
<1>2. EndStmt \in GoodTasks /\ EndStmt.k = "stmt"
  BY <1>1 DEF EndStmt, Task, GoodTasks, Tasks
<1>3. PICK end : end = EndStmt
  OBVIOUS
<1>4. PICK last \in Seq(GoodTasks) : last = <<end>> /\ Len(last) = 1 /\ last[1] = end
  BY <1>2, <1>3, OneElement
<1>5. PendingCalls(<<end>>, f, i) = << >>
  BY <1>1, <1>2, <1>3, PendingOne DEF TaskCalls
<1>6. CASE v = NULL
  <2>1. StmtTasks(v) = << >> \o <<end>>
    BY <1>3, <1>6 DEF StmtTasks
  <2>2. << >> \o last = last
    BY <1>4, ConcatEmptySeq
  <2>3. StmtTasks(v) = last
    BY <1>4, <2>1, <2>2
  <2>4. CallsAt(f, i, 0) = << >>
    <3>1. 0 \in Values
      BY <1>1 DEF Values
    <3> QED BY <1>1, <3>1, CallsDef
  <2>5. PendingCalls(StmtTasks(v), f, i) = CallsAt(f, i, v)
    BY <1>4, <1>5, <1>6, <2>3, <2>4 DEF NULL
  <2>6. last # << >>
    BY <1>4, EmptySeq
  <2> QED BY <1>3, <1>4, <1>6, <2>3, <2>5, <2>6
<1>7. CASE v # NULL
  <2>1. v \in Nodes
    BY <1>1, <1>7, ValueNode
  <2>2. Enter(v) \in GoodTasks /\ Enter(v).k = "enter" /\ Enter(v).n = v
    BY <1>1, <2>1 DEF Enter, Task, GoodTasks, Tasks, Nodes
  <2>3. PICK enter : enter = Enter(v)
    OBVIOUS
  <2>4. PICK first \in Seq(GoodTasks) : first = <<enter>> /\ Len(first) = 1 /\ first[1] = enter
    BY <2>2, <2>3, OneElement
  <2>5. StmtTasks(v) = first \o <<end>>
    BY <1>3, <1>7, <2>3, <2>4 DEF StmtTasks
  <2>6. /\ first \o <<end>> \in Seq(GoodTasks) /\ Len(first \o <<end>>) = 2
        /\ (first \o <<end>>)[1] = enter /\ (first \o <<end>>)[2] = end
    BY <1>2, <1>3, <2>4, OneMore
  <2>7. PendingCalls(first \o last, f, i) = PendingCalls(first, f, i) \o PendingCalls(last, f, i)
    BY <1>1, PendingCat
  <2>8. PendingCalls(<<enter>>, f, i) = CallsAt(f, i, v)
    BY <1>1, <2>2, <2>3, PendingOne DEF TaskCalls
  <2>9. PendingCalls(first, f, i) \in Seq(FnTerms(f))
    BY <1>1, TaskListsIn
  <2>10. CallsAt(f, i, v) \o << >> = CallsAt(f, i, v)
    BY <2>4, <2>8, <2>9, ConcatEmptySeq
  <2>11. PendingCalls(StmtTasks(v), f, i) = CallsAt(f, i, v)
    BY <1>4, <1>5, <2>4, <2>5, <2>7, <2>8, <2>10
  <2>12. StmtTasks(v) # << >>
    BY <2>5, <2>6, EmptySeq
  <2> QED BY <1>3, <1>7, <2>3, <2>5, <2>6, <2>11, <2>12
<1> QED BY <1>6, <1>7

LEMMA WalkBody ==
  ASSUME NEW own, NEW owner, NEW slot, InBody(own, owner, slot), NEW m, m = Machine(ssaFns[f]), BodyInv(m),
         ~Returned, s \in StmtsIn(f), todo = << >>, Walk(StmtTasks(Stmt.value)), s' = s,
         UNCHANGED <<prog, entries, paramEntry, stmtVar, ssaFns, result>>
  PROVE  BodyInv(m)'
<1>1. PICK now, g, v : now = s /\ g = f /\ v = StmtAt(f, s).value
  OBVIOUS
<1>2. /\ prog \in Programs /\ f \in Fns /\ s \in Nat \ {0} /\ Inv /\ Fn = prog.fns[f]
      /\ Len(entries) \in Nat /\ Cur = Len(Fn.params) + s
  BY InBodyParts
<1>3. f' = f /\ s' = s /\ todo' = StmtTasks(v)
  BY <1>1, <1>2 DEF Walk, Stmt, StmtAt
<1>4. /\ StmtTasks(v) \in Seq(GoodTasks) /\ StmtTasks(v) # << >>
      /\ v = NULL => Len(StmtTasks(v)) = 1 /\ StmtTasks(v)[1] = EndStmt
      /\ v # NULL => Len(StmtTasks(v)) = 2 /\ StmtTasks(v)[1] = Enter(v) /\ StmtTasks(v)[2] = EndStmt
      /\ PendingCalls(StmtTasks(v), g, now) = CallsAt(g, now, v)
  BY <1>1, <1>2, TasksOfStmt
<1>5. MachineGood(m) /\ MachineGood(m)' /\ ParamsKnown(m) /\ LetsKnown(m)
  BY <1>3, GoodStays DEF BodyInv
<1>6. IdsKept(owner, 0, m, m)
  BY IdleKept
<1>7. \A e \in Mine(owner) : e = 0 => slot[e] >= Cur
  BY <1>2 DEF Mine
<1>8. /\ ParamsKnown(m)'
      /\ \A i \in StmtsIn(f) : i < s /\ StmtAt(f, i).t = "let" => LetKnown(m, i)'
  BY <1>3, <1>5, <1>6, <1>7, EntriesKept
<1>9. StmtsIn(f)' = StmtsIn(f) /\ \A i : StmtAt(f, i)' = StmtAt(f, i)
  BY <1>3 DEF StmtsIn, StmtAt
<1>10. LetsKnown(m)' /\ ~Returned'
  BY <1>3, <1>8, <1>9 DEF LetsKnown, Returned
<1>11. PICK tasks : tasks = StmtTasks(v)
  OBVIOUS
<1>12. EndsInStmt'
  BY <1>3, <1>4, <1>11, EndStmtTask DEF EndsInStmt
<1>13. ComeFirst(Known(m))'
  <2>1. ASSUME NEW j \in 1 .. Len(tasks), NEW n, n \in Nodes,
               tasks[j].k = "leave" \/ (tasks[j].k = "stmt" /\ n = v)
        PROVE  \E l \in 1 .. j - 1 : tasks[l].n = n
    <3>1. v # NULL
      <4>1. CASE v = NULL
        <5>0. Len(tasks) = 1 /\ tasks[1] = EndStmt
          BY <1>4, <1>11, <4>1, Zenon
        <5>1. j = 1 /\ tasks[j] = EndStmt
          BY <5>0
        <5>2. n = NULL
          BY <2>1, <4>1, <5>1, EndStmtTask
        <5> QED BY <2>1, <5>2, <1>2, ProgramShape DEF NULL, Nodes
      <4> QED BY <4>1
    <3>2. Len(tasks) = 2 /\ tasks[1] = Enter(v) /\ tasks[2] = EndStmt
      BY <1>4, <1>11, <3>1
    <3>3. j \in {1, 2}
      BY <3>2
    <3>4. j = 2 /\ n = v
      BY <2>1, <3>2, <3>3, EndStmtTask
    <3>5. 1 \in 1 .. j - 1 /\ tasks[1].n = n
      BY <3>2, <3>4, EndStmtTask
    <3> QED BY <3>5
  <2>2. ASSUME NEW j \in 1 .. Len(todo'), NEW n, n \in (Reads(todo[j]))'
        PROVE  \E l \in 1 .. j - 1 : todo'[l].n = n
    <3>1. todo' = tasks /\ Stmt'.value = v
      BY <1>1, <1>2, <1>3, <1>11 DEF Stmt, StmtAt, Fn
    <3>2. n \in Nodes /\ (tasks[j].k = "leave" \/ (tasks[j].k = "stmt" /\ n = v))
      BY <2>2, <3>1 DEF Reads, Nodes
    <3> QED BY <2>1, <3>1, <3>2
  <2> QED BY <2>2 DEF ComeFirst
<1>14. CallsRight(m)'
  <2>1. m.calls = CallsTo(g, now - 1)
    BY <1>1, CallsBetween
  <2>2. CallsTo(g, now) = CallsTo(g, now - 1) \o CallsAt(g, now, v)
    BY <1>1, <1>2, CallsToNext
  <2>3. m.calls \o PendingCalls(tasks, g, now) = CallsTo(g, now)
    BY <1>4, <1>11, <2>1, <2>2
  <2>4. PendingCalls(tasks, g, now)' = PendingCalls(tasks, g, now) /\ CallsTo(g, now)' = CallsTo(g, now)
    BY PendingSame, CallsToSame
  <2>5. todo' = tasks /\ f' = g /\ s' = now /\ todo' # << >>
    BY <1>1, <1>3, <1>4, <1>11
  <2>6. PendingCalls(todo, f, s)' = PendingCalls(tasks, g, now) /\ CallsTo(f, s)' = CallsTo(g, now)
    BY <2>4, <2>5
  <2> QED BY <2>3, <2>5, <2>6 DEF CallsRight
<1>15. (s <= Len(Fn.stmts) + 1)'
  BY <1>3 DEF BodyInv, Fn
<1> QED BY <1>5, <1>8, <1>10, <1>12, <1>13, <1>14, <1>15 DEF BodyInv

LEMMA StmtBody ==
  ASSUME NEW own, NEW owner, NEW slot, InBody(own, owner, slot), NEW m, m = Machine(ssaFns[f]), BodyInv(m),
         TranslateStmt
  PROVE  BodyNext
<1>1. /\ Inv /\ prog \in Programs /\ f \in Fns /\ s \in Nat \ {0} /\ Fn = prog.fns[f] /\ Len(Fn.stmts) \in Nat
      /\ phase = "translate"
  BY InBodyParts
<1>2. /\ todo = << >> /\ s <= Len(Fn.stmts)
      /\ UNCHANGED <<prog, f, entries, paramEntry, stmtVar, ssaFns, result>>
  BY DEF TranslateStmt, AtStmt, BetweenStmts, annotations, irVars, Walk, SkipStmt, NextStmt
<1>3. s \in StmtsIn(f) /\ Stmt = StmtAt(f, s)
  BY <1>1, <1>2 DEF StmtsIn, StmtAt, Stmt
<1>4. m = Machine(ssaFns[f])'
  <2>1. ssaFns[f].insts \in Seq(Insts)
    BY <1>1, CurrentFn
  <2> QED BY <1>2, <2>1, MachineStays
<1>5. CASE Stmt.t = "let" /\ Stmt.value = NULL
  <2>1. SkipStmt /\ s' = s + 1 /\ todo' = << >>
    BY <1>2, <1>5 DEF TranslateStmt, SkipStmt, NextStmt
  <2>2. CASE Returned
    <3>1. s' \in Nat /\ s <= s' /\ s' <= Len(Fn.stmts) + 1
      BY <1>1, <1>2, <2>1
    <3>2. EndsInStmt'
      BY <2>1 DEF EndsInStmt
    <3> QED BY <1>2, <1>4, <2>2, <3>1, <3>2, ReturnedOn DEF BodyNext
  <2>3. CASE ~Returned
    <3>1. StmtAt(f, s).t = "let" /\ StmtAt(f, s).value = NULL
      BY <1>3, <1>5
    <3>2. BodyInv(m)'
      BY <1>2, <1>3, <2>1, <2>3, <3>1, SkipBody
    <3> QED BY <1>4, <3>2 DEF BodyNext
  <2> QED BY <2>2, <2>3
<1>6. CASE ~(Stmt.t = "let" /\ Stmt.value = NULL)
  <2>1. Walk(StmtTasks(Stmt.value)) /\ s' = s
    BY <1>6 DEF TranslateStmt, Walk, StmtTasks
  <2>2. CASE Returned
    <3>1. s' \in Nat /\ s <= s' /\ s' <= Len(Fn.stmts) + 1
      BY <1>1, <1>2, <2>1
    <3>2. EndsInStmt'
      <4>1. PICK v, tasks : v = StmtAt(f, s).value /\ tasks = StmtTasks(v)
        OBVIOUS
      <4>2. /\ v = NULL => Len(tasks) = 1 /\ tasks[1] = EndStmt
            /\ v # NULL => Len(tasks) = 2 /\ tasks[2] = EndStmt
        BY <1>1, <1>3, <4>1, TasksOfStmt
      <4>3. todo' = tasks
        BY <1>3, <2>1, <4>1 DEF Walk
      <4>4. tasks[Len(tasks)] = EndStmt
        BY <4>2
      <4> QED BY <4>3, <4>4, EndStmtTask DEF EndsInStmt
    <3> QED BY <1>2, <1>4, <2>2, <3>1, <3>2, ReturnedOn DEF BodyNext
  <2>3. CASE ~Returned
    <3>2. BodyInv(m)'
      BY <1>2, <1>3, <2>1, <2>3, WalkBody
    <3> QED BY <1>4, <3>2 DEF BodyNext
  <2> QED BY <2>2, <2>3
<1> QED BY <1>5, <1>6

(* A new register is none that an instruction or an entry has.             *)
LEMMA FreshReg ==
  ASSUME NEW own, NEW owner, NEW slot, InBody(own, owner, slot), NEW m, MachineGood(m)
  PROVE  /\ \A r \in DOMAIN m.regs : r \in 1 .. Len(ssaFns[f].regs)
         /\ \A e \in Mine(owner) : entries[e].id \in 0 .. Len(ssaFns[f].regs)
<1>1. Fit(Ids, Mine(owner), Waiting(owner, slot), ssaFns[f]) /\ Len(ssaFns[f].regs) \in Nat
  BY InBodyParts
<1>2. PICK fn : fn = ssaFns[f]
  OBVIOUS
<1>3. Single(fn) /\ Len(fn.regs) \in Nat
  BY <1>1, <1>2, FitParts
<1>4. ASSUME NEW r, Sets(fn, r), r # 0 PROVE r \in 1 .. Len(fn.regs)
  <2>1. CASE \E i \in 1 .. Len(fn.insts) : fn.insts[i].result = r
    BY <1>3, <1>4, <2>1 DEF Single, InstFits
  <2>2. CASE \E k \in 1 .. Len(fn.params) : fn.params[k] = r
    BY <1>3, <1>4, <2>2 DEF Single
  <2> QED BY <1>4, <2>1, <2>2 DEF Sets
<1>5. \A r \in DOMAIN m.regs : r # 0 /\ Sets(fn, r)
  BY <1>2 DEF MachineGood
<1>6. \A e \in Mine(owner) : Ids[e] \in 0 .. Len(ssaFns[f].regs)
  BY <1>1 DEF Fit
<1>7. \A e \in Mine(owner) : Ids[e] = entries[e].id
  BY DEF Mine, Ids
<1> QED BY <1>2, <1>4, <1>5, <1>6, <1>7

(* What a new instruction with a new register computes.                    *)
LEMMA MadeBody ==
  ASSUME NEW own, NEW owner, NEW slot, InBody(own, owner, slot), NEW m, m = Machine(ssaFns[f]), BodyInv(m),
         todo # << >>, Head(todo).k # "stmt", Node \in Nodes, NEW inst \in Insts, inst.t # "ret",
         inst.result = ssa_new_reg, EmitResult(inst),
         NEW value, value = TermAt(f, s, Node), value # <<"end">>,
         ~Returned => Value(m.regs, inst, CalleeName(inst)) = value,
         TaskCalls(Head(todo), f, s) = IF inst.t = "callfn" THEN <<value>> ELSE << >>
  PROVE  BodyNext
<1> DEFINE x == Len(ssaFns[f].regs) + 1
<1>1. /\ Emit(<<inst.sz>>, <<inst>>) /\ result' = [result EXCEPT ![Node] = x]
      /\ Continue(<< >>) /\ UNCHANGED <<f, p, s>> /\ inst.result = x
      /\ UNCHANGED <<prog, entries, paramEntry, stmtVar>>
  BY DEF EmitResult, Continue, ssa_new_reg, annotations
<1>2. /\ Inv /\ prog \in Programs /\ f \in Fns /\ s \in Nat \ {0} /\ phase = "translate"
      /\ Filled /\ TypesInv /\ IrInv /\ Len(ssaFns[f].regs) \in Nat /\ Len(Fn.stmts) \in Nat
  BY InBodyParts
<1>3. s \in StmtsIn(f)
  BY <1>2, AtTranslate
<1>4. <<inst.sz>> \in Seq(Sizes) /\ <<inst>> \in Seq(Insts) /\ inst.sz \in Sizes
  BY OneElement DEF Insts
<1>5. PICK r \in SSA_Fns : /\ ssaFns' = [ssaFns EXCEPT ![f] = r]
                           /\ r.regs = ssaFns[f].regs \o <<inst.sz>>
                           /\ r.insts = ssaFns[f].insts \o <<inst>>
                           /\ r.params = ssaFns[f].params
  BY <1>1, <1>2, <1>4, EmitMakes
<1>6. /\ ssaFns \in Seq(SSA_Fns) /\ f \in 1 .. Len(ssaFns) /\ ssaFns[f].insts \in Seq(Insts)
      /\ ssaFns[f].regs \in Seq(Sizes)
  BY <1>2, CurrentFn
<1>7. ssaFns'[f] = r
  BY <1>5, <1>6
<1>8. Len(r.regs) = x
  BY <1>4, <1>5, <1>6, OneMore
<1>9. Machine(ssaFns[f])' = Exec(m, inst, CalleeName(inst))
  BY <1>1, <1>5, <1>6, <1>7, MachineMoves
<1>10. << >> \in Seq(GoodTasks) /\ << >> \in Seq(Tasks) /\ << >> \in Seq(FnTerms(f)) /\ Len(<< >>) = 0
  BY EmptySeq
<1>11. CASE Returned
  <2>1. m.ret # <<"end">> /\ EndsInStmt /\ s <= Len(Fn.stmts) + 1
    BY <1>11 DEF BodyInv
  <2>2. Machine(ssaFns[f])' = m
    BY <1>9, <2>1, ExecAfter
  <2>3. EndsInStmt'
    BY <1>1, <1>2, <1>10, <2>1, EndsOn
  <2>4. BodyInv(m)'
    BY <1>1, <1>2, <1>11, <2>1, <2>3, ReturnedOn
  <2> QED BY <2>2, <2>4 DEF BodyNext
<1>12. CASE ~Returned
  <2>0. x = Len(ssaFns[f].regs) + 1
    OBVIOUS
  <2> HIDE DEF x
  <2>1. MachineGood(m)
    BY <1>12 DEF BodyInv
  <2>2. PICK regs, calls : /\ regs = SetReg(m.regs, x, value)
                           /\ calls = IF inst.t = "callfn" THEN Append(m.calls, value) ELSE m.calls
    OBVIOUS
  <2>3. PICK m2 : m2 = [regs |-> regs, calls |-> calls, ret |-> m.ret]
    OBVIOUS
  <2>4. Machine(ssaFns[f])' = m2
    <3>1. Rec(m) /\ m.ret = <<"end">> /\ inst.result # 0
      BY <1>1, <1>2, <2>0, <2>1 DEF MachineGood
    <3>2. PICK name : name = CalleeName(inst)
      OBVIOUS
    <3>3. Value(m.regs, inst, name) = value
      BY <1>12, <3>2
    <3>4. Exec(m, inst, name) =
            [regs |-> SetReg(m.regs, inst.result, Value(m.regs, inst, name)),
             calls |-> IF inst.t = "callfn" THEN Append(m.calls, Value(m.regs, inst, name)) ELSE m.calls,
             ret |-> m.ret]
      BY <3>1, ExecSets
    <3>5. Exec(m, inst, name) = m2
      BY <1>1, <2>2, <2>3, <3>3, <3>4
    <3> QED BY <1>9, <3>2, <3>5
  <2>5. m2.regs = regs /\ m2.calls = calls /\ m2.ret = m.ret
    BY <2>3
  <2>6. value \in FnTerms(f)
    BY <1>3, TermInFn
  <2>7. PICK made \in Seq(FnTerms(f)) : made = IF inst.t = "callfn" THEN <<value>> ELSE << >>
    BY <1>10, <2>6, OneElement
  <2>8. m.calls \in Seq(FnTerms(f))
    BY <2>1 DEF MachineGood
  <2>9. calls = m.calls \o made /\ calls \in Seq(FnTerms(f))
    <3>1. CASE inst.t = "callfn"
      <4>1. Append(m.calls, value) = m.calls \o <<value>> /\ m.calls \o <<value>> \in Seq(FnTerms(f))
        BY <2>6, <2>8, OneMore, AppendIsConcat
      <4> QED BY <2>2, <2>7, <3>1, <4>1
    <3>2. CASE inst.t # "callfn"
      <4>1. m.calls \o << >> = m.calls
        BY <2>8, ConcatEmptySeq
      <4> QED BY <2>2, <2>7, <2>8, <3>2, <4>1
    <3> QED BY <3>1, <3>2
  <2>10. MachineGood(m2)'
    <3>1. inst.result # 0
      BY <1>1, <1>2, <2>0
    <3> QED BY <1>1, <1>5, <1>6, <1>7, <2>1, <2>2, <2>3, <2>9, <3>1, GoodSets
  <2>11. /\ \A y \in 1 .. Len(ssaFns[f].regs) : Read(m2.regs, y) = Read(m.regs, y)
         /\ Read(m2.regs, x) = value /\ Read(m2.regs, 0) = Read(m.regs, 0)
    <3>1. /\ Read(regs, x) = value
          /\ \A y : y # x => Read(regs, y) = Read(m.regs, y)
      <4>1. PICK old, new : old = m.regs /\ new = x
        OBVIOUS
      <4>2. /\ Read(SetReg(old, new, value), new) = value
            /\ \A y : y # new => Read(SetReg(old, new, value), y) = Read(old, y)
        BY ReadAfter
      <4>3. regs = SetReg(old, new, value)
        BY <2>2, <4>1
      <4> QED BY <4>1, <4>2, <4>3
    <3>2. \A y \in 0 .. Len(ssaFns[f].regs) : y # x
      BY <1>2, <2>0
    <3> QED BY <1>2, <2>5, <3>1, <3>2
  <2>12. \A e \in Mine(owner) : entries[e].id \in 0 .. Len(ssaFns[f].regs)
    BY <2>1, FreshReg
  <2>13. IdsKept(owner, 0, m, m2)
    <3>1. \A e \in Mine(owner) : entries[e].id # 0 => Read(m2.regs, entries[e].id) = Read(m.regs, entries[e].id)
      BY <1>2, <2>0, <2>11, <2>12
    <3> QED BY <1>1, <3>1 DEF IdsKept
  <2>14. \A n \in Nodes : result'[n] = IF n = Node THEN x ELSE result[n]
    BY <1>1, <1>2, InvParts DEF IrOK, Nodes
  <2>15. Node \in Known(m2)'
    <3>1. x \in 1 .. Len(ssaFns'[f].regs) /\ result'[Node] = x
      BY <1>2, <1>7, <1>8, <2>0, <2>14
    <3>2. PICK n : n = Node
      OBVIOUS
    <3>3. n \in Known(m2)'
      BY <1>1, <2>11, <3>1, <3>2, KnownNext
    <3> QED BY <3>2, <3>3
  <2>16. \A n \in Nodes : result'[n] = result[n] \/ n \in Known(m2)'
    BY <2>14, <2>15
  <2>17. PICK tasks \in Seq(GoodTasks) : tasks = << >>
    BY <1>10
  <2>18. PendingCalls(tasks, f, s) = << >>
    BY <2>17, PendingNone
  <2>19. made \o << >> = made
    BY ConcatEmptySeq
  <2>20. TaskCalls(Head(todo), f, s) = made \o PendingCalls(tasks, f, s)
    BY <2>7, <2>18, <2>19
  <2>21. Len(ssaFns'[f].regs) \in Nat /\ Len(ssaFns[f].regs) <= Len(ssaFns'[f].regs)
    BY <1>2, <1>7, <1>8, <2>0
  <2>22. \A j \in 1 .. Len(tasks) : FALSE
    BY <1>10, <2>17
  <2>23. Continue(tasks)
    BY <1>1, <2>17
  <2>24. m2.calls = m.calls \o made
    BY <2>5, <2>9
  <2>25. StepGood(owner, m, m2, tasks, made)
    BY <1>1, <2>10, <2>11, <2>13, <2>15, <2>16, <2>20, <2>21, <2>22, <2>23, <2>24 DEF StepGood
  <2>26. BodyInv(m2)'
    BY <1>12, <2>25, BodyOn
  <2> QED BY <2>4, <2>26 DEF BodyNext
<1> QED BY <1>11, <1>12

(* The size and the operator of an instruction are those of the program.   *)
LEMMA SameBits ==
  ASSUME NEW type, type.t \in IntTypes
  PROVE  type_sz(type) = B!Bits(type)
  BY DEF type_sz, B!Bits, IntTypes

LEMMA SameOp ==
  ASSUME NEW type, NEW op \in {"+", "-", "*", "/"}, NEW t, t = translate_binop(type, op)
  PROVE  t \in DOMAIN IrMeaning /\ IrMeaning[t][1] = op /\ IrMeaning[t][2] = B!Sign(op, type)
<1>1. is_unsigned(type) <=> type.t \in B!Unsigned
  BY DEF is_unsigned, B!Unsigned
<1>2. CASE op = "+"
  BY <1>2 DEF translate_binop, B!Sign, IrMeaning
<1>3. CASE op = "-"
  BY <1>3 DEF translate_binop, B!Sign, IrMeaning
<1>4. CASE op = "*"
  BY <1>1, <1>4 DEF translate_binop, B!Sign, IrMeaning
<1>5. CASE op = "/"
  BY <1>1, <1>5 DEF translate_binop, B!Sign, IrMeaning
<1> QED BY <1>2, <1>3, <1>4, <1>5

(* The operands of a node that was left stand for its arguments.           *)
LEMMA ArgsKnown ==
  ASSUME NEW own, NEW owner, NEW slot, InBody(own, owner, slot), NEW m, BodyInv(m), ~Returned,
         todo # << >>, Head(todo).k = "leave"
  PROVE  ArgValues(m.regs, ArgRegs) = ArgTerms(B!TermIn(f), s, Node)
<1>1. Inv /\ todo \in Seq(Tasks) /\ Filled /\ TypesInv /\ IrInv /\ phase = "translate" /\ prog \in Programs
  BY InBodyParts
<1>2. /\ Expr(Node).args \in Seq(Nat) /\ Len(Expr(Node).args) \in Nat /\ Node \in Nodes
      /\ \A k \in 1 .. Len(Expr(Node).args) : Expr(Node).args[k] \in Nodes
  BY <1>1, AtTask
<1>3. ComeFirst(Known(m))
  BY DEF BodyInv
<1>4. 1 \in 1 .. Len(todo) /\ todo[1] = Head(todo)
  BY <1>1
<1>5. ASSUME NEW k \in 1 .. Len(Expr(Node).args)
      PROVE  Read(m.regs, result[Expr(Node).args[k]]) = TermAt(f, s, Expr(Node).args[k])
  <2>1. PICK n : n = Expr(Node).args[k]
    OBVIOUS
  <2>2. n \in Reads(Head(todo))
    BY <1>2, <2>1 DEF Reads, Node
  <2>3. n \in Known(m)
    BY <1>3, <1>4, <2>2 DEF ComeFirst
  <2> QED BY <2>1, <2>3 DEF Known
<1>6. PICK args : args = Expr(Node).args
  OBVIOUS
<1>7. DOMAIN args = 1 .. Len(args) /\ Len(args) \in Nat
  BY <1>2, <1>6, LenProperties
<1>8. ArgRegs = [i \in 1 .. Len(args) |-> result[args[i]]]
  BY <1>6, <1>7 DEF ArgRegs
<1>9. Len(ArgRegs) = Len(args) /\ \A k \in 1 .. Len(args) : ArgRegs[k] = result[args[k]]
  BY <1>7, <1>8
<1>10. ArgValues(m.regs, ArgRegs) = [k \in 1 .. Len(args) |-> Read(m.regs, result[args[k]])]
  BY <1>9 DEF ArgValues
<1>11. \A k \in 1 .. Len(args) : Read(m.regs, result[args[k]]) = B!TermIn(f)[<<s, args[k]>>]
  BY <1>5, <1>6 DEF TermAt
<1>12. ArgTerms(B!TermIn(f), s, Node) = [k \in 1 .. Len(args) |-> B!TermIn(f)[<<s, args[k]>>]]
  BY <1>6 DEF ArgTerms
<1> QED BY <1>10, <1>11, <1>12

(* A leaf makes no call.                                                   *)
LEMMA LeafCalls ==
  ASSUME prog \in Programs, NEW g \in Fns, NEW i \in StmtsIn(g), NEW n \in Nodes, Expr(n).t \in {"int", "var"}
  PROVE  CallsAt(g, i, n) = << >>
<1>1. n \in Values /\ n # 0
  BY DEF Values, Nodes
<1>2. CallsAt(g, i, n) = FlattenSeq(OperandCalls(g, i, n)) \o OwnCall(g, i, n)
  BY <1>1, CallsDef
<1>3. OwnCall(g, i, n) = << >>
  BY DEF OwnCall
<1>4. Expr(n).args = << >>
  <2>1. ParsedExpr(Expr(n), n)
    BY ProgramShape DEF Expr
  <2> QED BY <2>1, Zenon DEF ParsedExpr
<1>5. OperandCalls(g, i, n) = << >>
  BY <1>4, EmptySeq DEF OperandCalls
<1>6. << >> \o << >> = << >>
  OBVIOUS
<1> QED BY <1>2, <1>3, <1>5, <1>6, FlatNone

(* Where the translation of an expression is.                              *)
LEMMA AtNode ==
  ASSUME NEW own, NEW owner, NEW slot, InBody(own, owner, slot), todo # << >>, Head(todo).k # "stmt"
  PROVE  /\ prog \in Programs /\ Inv /\ f \in Fns /\ s \in StmtsIn(f) /\ Node \in Nodes /\ Node # 0
         /\ Node \in Values /\ Node \in B!Nodes(StmtAt(f, s).value) /\ exprType[Node] = TypeAt(f, s, Node)
         /\ exprType[Node] \in Types
         /\ TermAt(f, s, Node) = TermBody(B!TermIn(f), f, s, Node)
         /\ Filled /\ NamesInv /\ TypesInv /\ IrInv /\ phase = "translate"
<1>1. Inv /\ Filled /\ NamesInv /\ TypesInv /\ IrInv /\ prog \in Programs /\ phase = "translate" /\ f \in Fns
  BY InBodyParts
<1>2. /\ s \in StmtsIn(f) /\ Stmt = StmtAt(f, s) /\ Node \in B!Nodes(Stmt.value) /\ Node \in Nodes
      /\ Node # 0 /\ exprType[Node] = TypeAt(f, s, Node) /\ exprType[Node] \in Types
  BY <1>1, AtTranslate
<1>3. PICK n, i : n = Node /\ i = s
  OBVIOUS
<1>4. n \in Values
  BY <1>2, <1>3 DEF Values, Nodes
<1>5. TermAt(f, i, n) = TermBody(B!TermIn(f), f, i, n)
  BY <1>1, <1>2, <1>3, <1>4, TermDef
<1> QED BY <1>1, <1>2, <1>3, <1>4, <1>5

LEMMA FailsEnd ==
  ASSUME NEW how \in Abnormal, Fails(how)
  PROVE  outcome' # "running"
  BY DEF Fails, Stop, Abnormal

LEMMA IntBody ==
  ASSUME NEW own, NEW owner, NEW slot, InBody(own, owner, slot), NEW m, m = Machine(ssaFns[f]), BodyInv(m),
         TranslateInt, outcome' = "running"
  PROVE  BodyNext
<1> DEFINE inst == [NewInst("imm", << >>) EXCEPT !.imm = Expr(Node).val]
<1>1. /\ todo # << >> /\ Head(todo).k = "enter" /\ EmitSized(inst)
      /\ Node # 0 => Expr(Node).t = "int"
  BY DEF TranslateInt, At, Node
<1>2. /\ prog \in Programs /\ Inv /\ f \in Fns /\ s \in StmtsIn(f) /\ Node \in Nodes /\ Node # 0
      /\ exprType[Node] = TypeAt(f, s, Node) /\ phase = "translate"
      /\ TermAt(f, s, Node) = TermBody(B!TermIn(f), f, s, Node)
  BY <1>1, AtNode
<1>3. Expr(Node).t = "int"
  BY <1>1, <1>2
<1>4. exprType[Node].t \in IntTypes /\ EmitResult(inst)
  BY <1>1, FailsEnd DEF EmitSized
<1>5. Expr(Node).val \in Nat
  BY <1>1, <1>2, AtTask DEF Exprs
<1>6. inst \in Insts
  BY <1>1, <1>2, <1>4, <1>5, EmptySeq, NewInstOK
<1>7. /\ inst.result = ssa_new_reg /\ inst.t = "imm" /\ inst.imm = Expr(Node).val
      /\ inst.sz = type_sz(exprType[Node])
  BY DEF NewInst, Inst
<1> HIDE DEF inst
<1>8. PICK value : value = TermAt(f, s, Node)
  OBVIOUS
<1>9. value = <<"int", B!Bits(Expr(Node).type), Expr(Node).val>>
  BY <1>2, <1>3, <1>8 DEF TermBody
<1>10. exprType[Node] = Expr(Node).type
  <2>1. PICK n : n = Node
    OBVIOUS
  <2>2. TypeAt(f, s, n) = Expr(n).type
    BY <1>2, <1>3, <2>1, IntAt
  <2> QED BY <1>2, <2>1, <2>2
<1>11. type_sz(exprType[Node]) = B!Bits(Expr(Node).type)
  BY <1>4, <1>10, SameBits
<1>12. Value(m.regs, inst, CalleeName(inst)) = value
  BY <1>7, <1>9, <1>11, ValueIs
<1>13. value # <<"end">>
  BY <1>9
<1>14. TaskCalls(Head(todo), f, s) = << >>
  <2>1. PICK n, i : n = Node /\ i = s
    OBVIOUS
  <2>2. CallsAt(f, i, n) = << >>
    BY <1>2, <1>3, <2>1, LeafCalls
  <2> QED BY <1>1, <2>1, <2>2 DEF TaskCalls, Node
<1> QED BY <1>1, <1>2, <1>4, <1>6, <1>7, <1>8, <1>12, <1>13, <1>14, MadeBody

LEMMA BinopBody ==
  ASSUME NEW own, NEW owner, NEW slot, InBody(own, owner, slot), NEW m, m = Machine(ssaFns[f]), BodyInv(m),
         TranslateBinop, outcome' = "running"
  PROVE  BodyNext
<1> DEFINE t == translate_binop(exprType[Node], Expr(Node).op)
           inst == NewInst(t, ArgRegs)
<1>1. /\ todo # << >> /\ Head(todo).k = "leave"
      /\ Node # 0 => Expr(Node).t = "binop"
  BY DEF TranslateBinop, At, Node
<1>2. /\ prog \in Programs /\ Inv /\ f \in Fns /\ s \in StmtsIn(f) /\ Node \in Nodes /\ Node # 0
      /\ exprType[Node] = TypeAt(f, s, Node) /\ phase = "translate"
      /\ TermAt(f, s, Node) = TermBody(B!TermIn(f), f, s, Node)
  BY <1>1, AtNode
<1>3. Expr(Node).t = "binop" /\ ParsedExpr(Expr(Node), Node)
  BY <1>1, <1>2, AtTask
<1>4. ~(exprType[Node].t \in IntTypes /\ Expr(Node).op \in Comparisons) /\ EmitSized(inst)
  BY FailsEnd DEF TranslateBinop, Abnormal
<1>5. exprType[Node].t \in IntTypes /\ EmitResult(inst)
  BY <1>4, FailsEnd DEF EmitSized
<1>6. Expr(Node).op \in {"+", "-", "*", "/"}
  <2>1. Expr(Node).op \in BinopKinds
    <3> HIDE DEF t, inst
    <3> QED BY <1>3, Zenon DEF ParsedExpr
  <2> QED BY <1>4, <1>5, <2>1 DEF BinopKinds
<1>7. PICK op, type : op = Expr(Node).op /\ type = exprType[Node]
  OBVIOUS
<1>8. t \in DOMAIN IrMeaning /\ IrMeaning[t][1] = op /\ IrMeaning[t][2] = B!Sign(op, type)
  BY <1>6, <1>7, SameOp
<1>9. /\ inst.result = ssa_new_reg /\ inst.t = t /\ inst.args = ArgRegs
      /\ inst.sz = type_sz(exprType[Node])
  BY DEF NewInst, Inst
<1>10. t \in {"add", "sub", "imul", "umul", "idiv", "udiv"}
  BY <1>8 DEF IrMeaning
<1> HIDE DEF t
<1>11. inst \in Insts
  BY <1>1, <1>2, <1>5, <1>10, ArgRegsOK, NewInstOK
<1> HIDE DEF inst
<1>12. PICK value : value = TermAt(f, s, Node)
  OBVIOUS
<1>13. value = <<op, B!Sign(op, type), B!Bits(type), ArgTerms(B!TermIn(f), s, Node)>>
  BY <1>2, <1>3, <1>7, <1>12 DEF TermBody
<1>14. type_sz(exprType[Node]) = B!Bits(type)
  BY <1>5, <1>7, SameBits
<1>15. ASSUME ~Returned PROVE Value(m.regs, inst, CalleeName(inst)) = value
  <2>1. ArgValues(m.regs, ArgRegs) = ArgTerms(B!TermIn(f), s, Node)
    BY <1>1, <1>15, ArgsKnown
  <2>2. inst.t \in DOMAIN IrMeaning
    BY <1>8, <1>9
  <2>3. Value(m.regs, inst, CalleeName(inst)) =
          <<IrMeaning[inst.t][1], IrMeaning[inst.t][2], inst.sz, ArgValues(m.regs, inst.args)>>
    BY <2>2, ValueIs
  <2> QED BY <1>8, <1>9, <1>13, <1>14, <2>1, <2>3
<1>16. value # <<"end">>
  BY <1>13
<1>17. TaskCalls(Head(todo), f, s) = << >>
  BY <1>1, <1>3 DEF TaskCalls, OwnCall, Node
<1>18. inst.t \notin {"ret", "callfn"} /\ Head(todo).k # "stmt"
  BY <1>1, <1>9, <1>10
<1> QED BY <1>1, <1>2, <1>5, <1>9, <1>11, <1>12, <1>15, <1>16, <1>17, <1>18, MadeBody

(* What the name of a node in a body leads to.                             *)
LEMMA NameEntry ==
  ASSUME NEW own, NEW owner, NEW slot, InBody(own, owner, slot), todo # << >>, Head(todo).k # "stmt",
         Expr(Node).t \in {"var", "funcall"}, NEW b, b = B!Binding(Expr(Node).name, f, s),
         NEW e, e = exprVar[Node]
  PROVE  /\ b.kind \in {"let", "param", "fn"}
         /\ b.kind = "let" => /\ b.at \in StmtsIn(f) /\ b.at <= s /\ StmtAt(f, b.at).t = "let"
                              /\ e = stmtVar[f][b.at] /\ e \in Mine(owner) /\ slot[e] = Len(Fn.params) + b.at
         /\ b.kind = "param" => b.at \in 1 .. Len(Fn.params) /\ e = paramEntry[f][b.at] /\ e \in Mine(owner)
         /\ b.kind = "fn" => e \in Fns /\ e \in 1 .. Len(entries) /\ owner[e] = 0
                             /\ prog.fns[e].name = Expr(Node).name
<1>1. /\ prog \in Programs /\ Inv /\ f \in Fns /\ s \in StmtsIn(f) /\ Node \in Nodes
      /\ Node \in B!Nodes(StmtAt(f, s).value) /\ Filled /\ NamesInv /\ phase = "translate"
  BY AtNode
<1>2. Placed(owner, slot) /\ ~Naming /\ Fn = prog.fns[f]
  BY InBodyParts
<1>3. NamedNode(Node)
  BY DEF NamedNode
<1>4. PICK n, name : n = Node /\ name = Expr(Node).name
  OBVIOUS
<1>5. b.kind \in {"let", "param", "fn"} /\ e = EntryOf(b, f)
  <2>1. b = B!Binding(Expr(n).name, f, s) /\ NamedNode(n) /\ n \in B!Nodes(StmtAt(f, s).value)
    BY <1>1, <1>3, <1>4
  <2>2. b.kind \in {"let", "param", "fn"} /\ exprVar[n] = EntryOf(b, f)
    BY <1>1, <1>2, <2>1, NamedBound
  <2> QED BY <1>4, <2>2
<1>6. ASSUME b.kind = "let"
      PROVE  /\ b.at \in StmtsIn(f) /\ b.at <= s /\ StmtAt(f, b.at).t = "let"
             /\ e = stmtVar[f][b.at] /\ e \in Mine(owner) /\ slot[e] = Len(Fn.params) + b.at
  <2>1. b.at \in StmtsIn(f) /\ b.at <= s /\ StmtAt(f, b.at).t = "let"
    <3>1. PICK g, i : g = f /\ i = s
      OBVIOUS
    <3>2. b = B!Binding(name, g, i) /\ g \in Fns
      BY <1>1, <1>4, <3>1
    <3>3. B!Binding(name, g, i).kind = "let" /\ prog \in Programs
      BY <1>1, <1>6, <3>2
    <3>4. LET j == B!Binding(name, g, i).at
          IN  j \in StmtsIn(g) /\ j <= i /\ StmtAt(g, j).t = "let"
      BY ONLY <3>2, <3>3, BoundToLet, Z3T(60)
    <3> QED BY <3>1, <3>2, <3>4
  <2>2. e = stmtVar[f][b.at]
    BY <1>5, <1>6 DEF EntryOf
  <2>3. PICK i : i = b.at
    OBVIOUS
  <2>4. stmtVar[f][i] \in Mine(owner) /\ slot[stmtVar[f][i]] = Len(Fn.params) + i
    BY <2>1, <2>3, LetEntries
  <2> QED BY <2>1, <2>2, <2>3, <2>4
<1>7. ASSUME b.kind = "param"
      PROVE  b.at \in 1 .. Len(Fn.params) /\ e = paramEntry[f][b.at] /\ e \in Mine(owner)
  <2>1. b.at \in 1 .. Len(Fn.params)
    BY <1>1, <1>2, <1>4, <1>7, BoundToParam
  <2>2. e = paramEntry[f][b.at]
    BY <1>5, <1>7 DEF EntryOf
  <2>3. PICK k : k = b.at
    OBVIOUS
  <2>4. paramEntry[f][k] \in Mine(owner)
    BY <2>1, <2>3, ParamEntries
  <2> QED BY <2>1, <2>2, <2>3, <2>4
<1>8. ASSUME b.kind = "fn"
      PROVE  e \in Fns /\ e \in 1 .. Len(entries) /\ owner[e] = 0 /\ prog.fns[e].name = Expr(Node).name
  <2>1. b.at \in Fns /\ prog.fns[b.at].name = name
    BY <1>1, <1>4, <1>8, BoundToFn
  <2>2. e = fnEntry[b.at]
    BY <1>5, <1>8 DEF EntryOf
  <2>3. PICK h : h = b.at
    OBVIOUS
  <2>4. fnEntry[h] = h /\ h \in 1 .. Len(entries)
    BY <1>1, <2>1, <2>3, FnEntryTyped
  <2>5. owner[h] = 0
    BY <1>2, <2>1, <2>3, <2>4, PlacedParts DEF Fns
  <2> QED BY <1>4, <2>1, <2>2, <2>3, <2>4, <2>5
<1> QED BY <1>5, <1>6, <1>7, <1>8

LEMMA CallBody ==
  ASSUME NEW own, NEW owner, NEW slot, InBody(own, owner, slot), NEW m, m = Machine(ssaFns[f]), BodyInv(m),
         TranslateCall, outcome' = "running"
  PROVE  BodyNext
<1>1. /\ todo # << >> /\ Head(todo).k = "leave"
      /\ Node # 0 => Expr(Node).t = "funcall"
  BY DEF TranslateCall, At, Node
<1>2. /\ prog \in Programs /\ Inv /\ f \in Fns /\ s \in StmtsIn(f) /\ Node \in Nodes /\ Node # 0
      /\ phase = "translate" /\ Filled /\ NamesInv /\ TypesInv /\ IrInv
      /\ TermAt(f, s, Node) = TermBody(B!TermIn(f), f, s, Node)
      /\ Node \in B!Nodes(StmtAt(f, s).value)
  BY <1>1, AtNode
<1>3. Expr(Node).t = "funcall"
  BY <1>1, <1>2
<1>4. PICK e : e = exprVar[Node]
  OBVIOUS
<1>5. PICK fn : fn = entries[e].fn
  OBVIOUS
<1>6. e # NULL /\ e \in 1 .. Len(entries) /\ Len(entries) \in Nat
  <2>1. PICK n, i : n = Node /\ i = s
    OBVIOUS
  <2>2. exprVar[n] # NULL
    BY <1>2, <1>3, <2>1, CalleeAlloced DEF IrInv
  <2>3. exprVar[n] \in 0 .. Len(entries) /\ Len(entries) \in Nat
    <3>1. AnnotationsOK /\ n \in Nodes
      BY <1>2, <2>1, InvParts
    <3>2. exprVar \in [Nodes -> 0 .. Len(entries)]
      BY <3>1 DEF AnnotationsOK, Nodes
    <3> QED BY <3>1, <3>2, InBodyParts
  <2>4. e = exprVar[n]
    BY <1>4, <2>1
  <2> QED BY <2>2, <2>3, <2>4 DEF NULL
<1> DEFINE inst == [NewInst("callfn", ArgRegs) EXCEPT !.fn = fn]
<1>7. fn # << >> /\ exprType[Node].t \in IntTypes /\ EmitResult(inst)
  <2>1. IF exprType[Node].t \in IntTypes /\ fn = << >> THEN Fails("internal_err") ELSE EmitSized(inst)
    BY <1>4, <1>5, <1>6 DEF TranslateCall
  <2>2. ~(exprType[Node].t \in IntTypes /\ fn = << >>) /\ EmitSized(inst)
    BY <2>1, FailsEnd DEF Abnormal
  <2>3. exprType[Node].t \in IntTypes /\ EmitResult(inst)
    BY <2>2, FailsEnd DEF EmitSized
  <2> QED BY <2>2, <2>3
<1>8. fn \in FnPointers
  BY <1>2, <1>5, <1>6, InvParts, EntryParts
<1>9. inst \in Insts
  BY <1>1, <1>2, <1>7, <1>8, ArgRegsOK, NewInstOK
<1>10. inst.result = ssa_new_reg /\ inst.t = "callfn" /\ inst.args = ArgRegs /\ inst.fn = fn
  BY DEF NewInst, Inst
<1> HIDE DEF inst
<1>11. fn[2] = e /\ e \in Fns
  BY <1>2, <1>5, <1>6, <1>7, TypeInvOf DEF TypeInv, FnPtrs
<1>12. prog.fns[e].name = Expr(Node).name
  <2>1. PICK b : b = B!Binding(Expr(Node).name, f, s)
    OBVIOUS
  <2>2. b.kind \in {"let", "param"} => owner[e] = f
    BY <1>1, <1>3, <1>4, <2>1, NameEntry DEF Mine
  <2>3. owner[e] = 0 /\ f # 0
    <3>1. Placed(owner, slot)
      BY InBodyParts
    <3> QED BY <1>2, <1>6, <1>11, <3>1, PlacedParts DEF Fns
  <2>4. b.kind = "fn"
    BY <1>1, <1>3, <1>4, <2>1, <2>2, <2>3, NameEntry
  <2> QED BY <1>1, <1>3, <1>4, <2>1, <2>4, NameEntry
<1>13. CalleeName(inst) = Expr(Node).name
  BY <1>10, <1>11, <1>12 DEF CalleeName
<1>14. PICK value, name : value = TermAt(f, s, Node) /\ name = CalleeName(inst)
  OBVIOUS
<1>15. value = <<"call", name, ArgTerms(B!TermIn(f), s, Node)>>
  BY <1>2, <1>3, <1>13, <1>14 DEF TermBody
<1>16. ASSUME ~Returned PROVE Value(m.regs, inst, CalleeName(inst)) = value
  <2>1. ArgValues(m.regs, ArgRegs) = ArgTerms(B!TermIn(f), s, Node)
    BY <1>1, <1>16, ArgsKnown
  <2>2. Value(m.regs, inst, name) = <<"call", name, ArgValues(m.regs, inst.args)>>
    BY <1>10, ValueIs
  <2> QED BY <1>10, <1>14, <1>15, <2>1, <2>2
<1>17. value # <<"end">>
  BY <1>15
<1>18. TaskCalls(Head(todo), f, s) = <<value>>
  BY <1>1, <1>3, <1>14 DEF TaskCalls, OwnCall, Node
<1>19. inst.t # "ret" /\ Head(todo).k # "stmt"
  BY <1>1, <1>10
<1> QED BY <1>1, <1>2, <1>7, <1>9, <1>10, <1>14, <1>16, <1>17, <1>18, <1>19, MadeBody

(* The register an entry is asked for is the one it has, or a new one.     *)
LEMMA AskedReg ==
  ASSUME NEW own, NEW owner, NEW slot, InBody(own, owner, slot), NEW m, MachineGood(m),
         NEW e \in Mine(owner), set_id(e), NEW x, x = sym_table_reg(e)
  PROVE  /\ \A d \in 1 .. Len(entries) : entries'[d].id = IF d = e THEN x ELSE entries[d].id
         /\ entries[e].id # 0 => x = entries[e].id
         /\ entries[e].id = 0 => x \notin DOMAIN m.regs /\ Read(m.regs, x) = <<"none">>
         /\ x # 0 /\ IdsKept(owner, 0, m, m)
<1>1. Inv /\ Len(ssaFns[f].regs) \in Nat /\ e \in 1 .. Len(entries)
  BY InBodyParts DEF Mine
<1>2. entries' = [entries EXCEPT ![e].id = x]
  BY DEF set_id
<1>3. \A d \in 1 .. Len(entries) : entries'[d].id = IF d = e THEN x ELSE entries[d].id
  <2>1. TableOK
    BY <1>1, InvParts
  <2>2. entries \in Seq([pos : Names, type : Types, id : Nat, fn : FnPointers])
    BY <2>1 DEF TableOK
  <2> QED BY <1>1, <1>2, <2>2
<1>4. entries[e].id # 0 => x = entries[e].id
  BY DEF sym_table_reg
<1>5. ASSUME entries[e].id = 0 PROVE x \notin DOMAIN m.regs /\ Read(m.regs, x) = <<"none">> /\ x # 0
  <2>1. x = Len(ssaFns[f].regs) + 1
    BY <1>5 DEF sym_table_reg, ssa_new_reg
  <2>2. x \notin DOMAIN m.regs
    BY <1>1, <2>1, FreshReg
  <2> QED BY <1>1, <2>1, <2>2, ReadFree
<1>6. x # 0
  BY <1>4, <1>5
<1>7. IdsKept(owner, 0, m, m)
  <2>1. ASSUME NEW d \in Mine(owner)
        PROVE  /\ entries[d].id # 0 => /\ entries'[d].id = entries[d].id
                                       /\ Read(m.regs, entries[d].id) = Read(m.regs, entries[d].id)
               /\ entries[d].id = 0 => entries'[d].id = 0 \/ Read(m.regs, entries'[d].id) = <<"none">>
    <3>1. d \in 1 .. Len(entries)
      BY DEF Mine
    <3>2. CASE d # e
      BY <1>3, <3>1, <3>2
    <3>3. CASE d = e
      BY <1>3, <1>4, <1>5, <3>1, <3>3
    <3> QED BY <3>2, <3>3
  <2> QED BY <2>1 DEF IdsKept
<1> QED BY <1>3, <1>4, <1>5, <1>6, <1>7

(* What the register of a variable stands for is what the variable does.   *)
LEMMA VarTerm ==
  ASSUME NEW own, NEW owner, NEW slot, InBody(own, owner, slot), NEW m, BodyInv(m), ~Returned,
         todo # << >>, Head(todo).k # "stmt", Expr(Node).t = "var",
         NEW e, e = exprVar[Node], e \in Mine(owner), set_id(e), NEW x, x = sym_table_reg(e)
  PROVE  Read(m.regs, x) = TermAt(f, s, Node)
<1>1. /\ prog \in Programs /\ Inv /\ f \in Fns /\ s \in StmtsIn(f) /\ Node # 0
      /\ TermAt(f, s, Node) = TermBody(B!TermIn(f), f, s, Node)
  BY AtNode
<1>2. MachineGood(m) /\ ParamsKnown(m) /\ LetsKnown(m)
  BY DEF BodyInv
<1>3. /\ entries[e].id # 0 => x = entries[e].id
      /\ entries[e].id = 0 => Read(m.regs, x) = <<"none">>
  BY <1>2, AskedReg
<1>4. PICK b : b = B!Binding(Expr(Node).name, f, s)
  OBVIOUS
<1>5. /\ b.kind \in {"let", "param", "fn"}
      /\ b.kind = "let" => /\ b.at \in StmtsIn(f) /\ b.at <= s /\ StmtAt(f, b.at).t = "let"
                           /\ e = stmtVar[f][b.at] /\ slot[e] = Len(Fn.params) + b.at
      /\ b.kind = "param" => b.at \in 1 .. Len(Fn.params) /\ e = paramEntry[f][b.at]
      /\ b.kind = "fn" => owner[e] = 0
  BY <1>4, NameEntry
<1>6. b.kind # "fn"
  BY <1>1, <1>5 DEF Mine, Fns
<1>7. CASE b.kind = "param"
  <2>1. PICK k \in 1 .. Len(Fn.params) : k = b.at
    BY <1>5, <1>7
  <2>2. e = paramEntry[f][k]
    BY <1>5, <1>7, <2>1
  <2>3. entries[e].id # 0 /\ Read(m.regs, entries[e].id) = <<"param", k>>
    BY <1>2, <2>2 DEF ParamsKnown, ParamKnown
  <2>4. TermAt(f, s, Node) = <<"param", k>>
    BY <1>1, <1>4, <1>7, <2>1 DEF TermBody
  <2> QED BY <1>3, <2>3, <2>4
<1>8. CASE b.kind = "let" /\ b.at # s
  <2>1. PICK i \in StmtsIn(f) : i = b.at
    BY <1>5, <1>8
  <2>2. i < s /\ StmtAt(f, i).t = "let" /\ e = stmtVar[f][i]
    BY <1>1, <1>5, <1>8, <2>1 DEF StmtsIn
  <2>3. LetKnown(m, i)
    BY <1>2, <2>2 DEF LetsKnown
  <2>4. TermAt(f, s, Node) = LetTerm(B!TermIn(f), f, b)
    BY <1>1, <1>4, <1>8 DEF TermBody
  <2>5. TermAt(f, s, Node) = TermAt(f, i, StmtAt(f, i).value)
    BY <2>1, <2>4 DEF LetTerm, TermAt
  <2>6. CASE entries[e].id = 0
    <3>1. StmtAt(f, i).value = 0
      BY <2>2, <2>3, <2>6 DEF LetKnown, NULL
    <3>2. TermAt(f, i, 0) = <<"none">>
      BY <1>1, TermNull
    <3> QED BY <1>3, <2>5, <2>6, <3>1, <3>2
  <2>7. CASE entries[e].id # 0
    BY <1>3, <2>2, <2>3, <2>5, <2>7 DEF LetKnown
  <2> QED BY <2>6, <2>7
<1>9. CASE b.kind = "let" /\ b.at = s
  <2>1. TermAt(f, s, Node) = <<"none">>
    BY <1>1, <1>4, <1>9 DEF TermBody
  <2>2. slot[e] >= Cur
    <3>1. slot[e] = Len(Fn.params) + s /\ Cur = Len(Fn.params) + s /\ Len(Fn.params) \in Nat /\ s \in Nat
      BY <1>5, <1>9, InBodyParts
    <3> QED BY <3>1
  <2>3. entries[e].id # 0 => Read(m.regs, entries[e].id) = <<"none">>
    BY <1>2, <2>2, NotSetYet
  <2> QED BY <1>3, <2>1, <2>3
<1> QED BY <1>5, <1>6, <1>7, <1>8, <1>9

LEMMA VarBody ==
  ASSUME NEW own, NEW owner, NEW slot, InBody(own, owner, slot), NEW m, m = Machine(ssaFns[f]), BodyInv(m),
         TranslateVar, outcome' = "running"
  PROVE  BodyNext
<1>1. /\ todo # << >> /\ Head(todo).k = "enter"
      /\ Node # 0 => Expr(Node).t = "var"
  BY DEF TranslateVar, At, Node
<1>2. /\ prog \in Programs /\ Inv /\ f \in Fns /\ s \in StmtsIn(f) /\ Node \in Nodes /\ Node # 0
      /\ phase = "translate" /\ Filled /\ TypesInv /\ IrInv
  BY <1>1, AtNode
<1>3. Expr(Node).t = "var"
  BY <1>1, <1>2
<1>4. PICK e : e = exprVar[Node]
  OBVIOUS
<1>5. PICK x : x = sym_table_reg(e)
  OBVIOUS
<1>6. /\ set_id(e) /\ Emit(new_regs(e), << >>) /\ Continue(<< >>) /\ UNCHANGED <<f, p, s>>
      /\ \A how \in Abnormal : ~reg_fails(e, how)
      /\ result' = [result EXCEPT ![Node] = x]
      /\ UNCHANGED <<prog, paramEntry, stmtVar>>
  <2>1. ~ \E how \in Abnormal : reg_fails(e, how) /\ Fails(how)
    BY FailsEnd
  <2> QED BY <1>4, <1>5, <2>1 DEF TranslateVar, Continue, annotations
<1>7. Owned(own) /\ Tracked(own, owner, slot) /\ Walking(own) /\ Bound(own, owner) /\ Len(Fn.stmts) \in Nat
      /\ s \in Nat /\ Len(ssaFns[f].regs) \in Nat
  BY InBodyParts DEF Tracked
<1>8. own[Node] = f
  BY <1>1, <1>2, <1>7, NodeOwned
<1>9. e \in 1 .. Len(entries) /\ new_regs(e) \in Seq(Sizes)
  <2>1. AnnotationsOK
    BY <1>2, InvParts
  <2>2. exprVar \in [Nodes -> 0 .. Len(entries)]
    BY <2>1 DEF AnnotationsOK, Nodes
  <2>3. e \in 0 .. Len(entries)
    BY <1>2, <1>4, <2>2
  <2> QED BY <1>2, <1>6, <2>3, RegOK
<1>10. owner[e] = f
  <2>1. e # NULL
    BY <1>9 DEF NULL
  <2>2. owner[e] \in {0, f}
    BY <1>2, <1>4, <1>7, <1>8, <2>1 DEF Bound
  <2> QED BY <1>2, <1>6, <1>7, <1>9, <2>2, OwnEntry
<1>11. e \in Mine(owner)
  BY <1>9, <1>10 DEF Mine
<1>12. << >> \in Seq(Insts) /\ << >> \in Seq(GoodTasks) /\ << >> \in Seq(Tasks)
       /\ << >> \in Seq(FnTerms(f)) /\ Len(<< >>) = 0
  BY EmptySeq
<1>13. PICK r \in SSA_Fns : /\ ssaFns' = [ssaFns EXCEPT ![f] = r]
                            /\ r.regs = ssaFns[f].regs \o new_regs(e)
                            /\ r.insts = ssaFns[f].insts \o << >>
                            /\ r.params = ssaFns[f].params
  BY <1>2, <1>6, <1>9, <1>12, EmitMakes
<1>14. ssaFns \in Seq(SSA_Fns) /\ f \in 1 .. Len(ssaFns) /\ ssaFns[f].insts \in Seq(Insts)
  BY <1>2, CurrentFn
<1>15. ssaFns'[f] = r /\ r.insts = ssaFns[f].insts
  BY <1>13, <1>14, ConcatEmptySeq
<1>16. Machine(ssaFns[f])' = m
  BY <1>6, <1>13, <1>14, <1>15, MachineStays
<1>17. /\ x \in 1 .. Len(r.regs) /\ Len(r.regs) \in Nat /\ Len(ssaFns[f].regs) <= Len(r.regs)
  BY <1>2, <1>5, <1>6, <1>7, <1>9, <1>10, <1>13, <1>15, EntryReg
<1>18. CASE Returned
  <2>1. EndsInStmt /\ s <= Len(Fn.stmts) + 1
    BY DEF BodyInv
  <2>2. EndsInStmt'
    BY <1>1, <1>2, <1>6, <1>12, <2>1, EndsOn
  <2>3. BodyInv(m)'
    BY <1>6, <1>7, <1>18, <2>1, <2>2, ReturnedOn
  <2> QED BY <1>16, <2>3 DEF BodyNext
<1>19. CASE ~Returned
  <2>1. MachineGood(m)
    BY <1>19 DEF BodyInv
  <2>2. IdsKept(owner, 0, m, m)
    BY <1>5, <1>6, <1>11, <2>1, AskedReg
  <2>3. Read(m.regs, x) = TermAt(f, s, Node)
    BY <1>1, <1>3, <1>4, <1>5, <1>6, <1>11, <1>19, VarTerm
  <2>4. \A n \in Nodes : result'[n] = IF n = Node THEN x ELSE result[n]
    BY <1>2, <1>6, InvParts DEF IrOK, Nodes
  <2>5. Node \in Known(m)'
    <3>1. PICK n : n = Node
      OBVIOUS
    <3>2. result'[n] = x /\ n \in Nodes
      BY <1>2, <2>4, <3>1
    <3>3. result'[n] \in 1 .. Len(ssaFns'[f].regs) /\ Read(m.regs, result'[n]) = TermAt(f, s, n)
      BY <1>15, <1>17, <2>3, <3>1, <3>2
    <3>4. n \in Known(m)'
      BY <1>6, <3>2, <3>3, KnownNext
    <3> QED BY <3>1, <3>4
  <2>6. \A n \in Nodes : result'[n] = result[n] \/ n \in Known(m)'
    BY <2>4, <2>5
  <2>7. PICK tasks \in Seq(GoodTasks), made \in Seq(FnTerms(f)) : tasks = << >> /\ made = << >>
    BY <1>12
  <2>8. TaskCalls(Head(todo), f, s) = made \o PendingCalls(tasks, f, s)
    <3>1. PICK n, i : n = Node /\ i = s
      OBVIOUS
    <3>2. CallsAt(f, i, n) = << >>
      BY <1>2, <1>3, <3>1, LeafCalls
    <3>3. TaskCalls(Head(todo), f, s) = << >>
      BY <1>1, <3>1, <3>2 DEF TaskCalls, Node
    <3>4. PendingCalls(tasks, f, s) = << >>
      BY <2>7, PendingNone
    <3>5. made \o << >> = << >>
      BY <2>7, ConcatEmptySeq
    <3> QED BY <3>3, <3>4, <3>5
  <2>9. m.calls = m.calls \o made
    <3>1. m.calls \in Seq(FnTerms(f))
      BY <2>1 DEF MachineGood
    <3> QED BY <2>7, <3>1, ConcatEmptySeq
  <2>10. MachineGood(m)'
    BY <1>6, <1>13, <1>15, <2>1, GoodStays
  <2>11. \A j \in 1 .. Len(tasks) : FALSE
    BY <1>12, <2>7
  <2>12. Continue(tasks)
    BY <1>6, <2>7
  <2>13. Len(ssaFns'[f].regs) \in Nat /\ Len(ssaFns[f].regs) <= Len(ssaFns'[f].regs)
    BY <1>15, <1>17
  <2>14. StepGood(owner, m, m, tasks, made)
    BY <1>1, <1>6, <2>2, <2>5, <2>6, <2>8, <2>9, <2>10, <2>11, <2>12, <2>13 DEF StepGood
  <2>15. BodyInv(m)'
    BY <1>19, <2>14, BodyOn
  <2> QED BY <1>16, <2>15 DEF BodyNext
<1> QED BY <1>18, <1>19

(* The end of a statement adds this instruction and goes to the next.      *)
EndGood(inst) ==
  /\ todo # << >> /\ Head(todo).k = "stmt" /\ s \in StmtsIn(f) /\ Stmt = StmtAt(f, s)
  /\ s' = s + 1 /\ todo' = << >> /\ UNCHANGED <<prog, f, p, paramEntry, stmtVar>>
  /\ inst \in Insts
  /\ \E r \in SSA_Fns : /\ ssaFns'[f] = r /\ r.insts = ssaFns[f].insts \o <<inst>>
                        /\ r.params = ssaFns[f].params

LEMMA EndMakes ==
  ASSUME NEW own, NEW owner, NEW slot, InBody(own, owner, slot), todo # << >>, Head(todo).k = "stmt",
         NextStmt, todo' = << >>, UNCHANGED <<prog, annotations>>,
         NEW regs \in Seq(Sizes), NEW inst \in Insts, Emit(regs, <<inst>>)
  PROVE  EndGood(inst)
<1>1. /\ Inv /\ prog \in Programs /\ f \in Fns /\ s \in Nat \ {0} /\ phase = "translate" /\ Fn = prog.fns[f]
      /\ Filled /\ TypesInv /\ IrInv
  BY InBodyParts
<1>2. s \in StmtsIn(f) /\ Stmt = StmtAt(f, s)
  <2>1. s \in 1 .. Len(Fn.stmts)
    BY <1>1, CurrentStmt
  <2> QED BY <1>1, <2>1 DEF StmtsIn, StmtAt, Stmt
<1>3. <<inst>> \in Seq(Insts)
  BY OneElement
<1>4. PICK r \in SSA_Fns : /\ ssaFns' = [ssaFns EXCEPT ![f] = r]
                           /\ r.insts = ssaFns[f].insts \o <<inst>>
                           /\ r.params = ssaFns[f].params
  BY <1>1, <1>3, EmitMakes
<1>5. ssaFns \in Seq(SSA_Fns) /\ f \in 1 .. Len(ssaFns)
  BY <1>1, CurrentFn
<1>6. ssaFns'[f] = r
  BY <1>4, <1>5
<1> QED BY <1>2, <1>4, <1>6 DEF EndGood, NextStmt, annotations

LEMMA EndMachine ==
  ASSUME NEW own, NEW owner, NEW slot, InBody(own, owner, slot), NEW m, m = Machine(ssaFns[f]),
         NEW inst, EndGood(inst)
  PROVE  Machine(ssaFns[f])' = Exec(m, inst, CalleeName(inst))
<1>1. /\ inst \in Insts /\ UNCHANGED <<prog, f>>
      /\ ssaFns'[f].insts = ssaFns[f].insts \o <<inst>> /\ ssaFns'[f].params = ssaFns[f].params
  BY DEF EndGood
<1>2. ssaFns[f].insts \in Seq(Insts)
  BY InBodyParts, CurrentFn
<1> QED BY <1>1, <1>2, MachineMoves

LEMMA EndReturned ==
  ASSUME NEW own, NEW owner, NEW slot, InBody(own, owner, slot), NEW m, m = Machine(ssaFns[f]), BodyInv(m),
         Returned, NEW inst, EndGood(inst)
  PROVE  BodyNext
<1>1. m.ret # <<"end">> /\ s <= Len(Fn.stmts) + 1
  BY DEF BodyInv
<1>2. Machine(ssaFns[f])' = m
  BY <1>1, EndMachine, ExecAfter
<1>3. s' \in Nat /\ s <= s' /\ s' <= Len(Fn.stmts) + 1
  BY InBodyParts DEF EndGood, StmtsIn
<1>4. EndsInStmt' /\ UNCHANGED <<prog, f>>
  BY DEF EndGood, EndsInStmt
<1>5. BodyInv(m)'
  BY <1>3, <1>4, ReturnedOn
<1> QED BY <1>2, <1>5 DEF BodyNext

LEMMA GoodMore ==
  ASSUME UNCHANGED <<prog, f>>, NEW m, MachineGood(m), ssaFns[f].insts \in Seq(Insts), NEW inst \in Insts,
         ssaFns'[f].insts = ssaFns[f].insts \o <<inst>>, ssaFns'[f].params = ssaFns[f].params
  PROVE  MachineGood(m)'
<1>1. PICK g, fn, fn2 : g = f /\ fn = ssaFns[f] /\ fn2 = ssaFns'[f]
  OBVIOUS
<1>2. FnTerms(g)' = FnTerms(g)
  BY FnTermsSame
<1>3. \A r : Sets(fn, r) => Sets(fn2, r)
  BY <1>1, SetsMore
<1>4. FnTerms(f)' = FnTerms(f) /\ ssaFns'[f'] = fn2
  BY <1>1, <1>2
<1>5. \A r \in DOMAIN m.regs : r # 0 /\ Sets(ssaFns[f], r)' /\ m.regs[r] # <<"end">>
  <2>1. \A r \in DOMAIN m.regs : r # 0 /\ Sets(fn, r) /\ m.regs[r] # <<"end">>
    BY <1>1 DEF MachineGood
  <2>2. \A r \in DOMAIN m.regs : r # 0 /\ Sets(fn2, r) /\ m.regs[r] # <<"end">>
    BY <1>3, <2>1
  <2> QED BY <1>4, <2>2 DEF Sets
<1>6. Rec(m) /\ m.ret = <<"end">> /\ m.calls \in Seq(FnTerms(f)')
  BY <1>4 DEF MachineGood
<1> QED BY <1>5, <1>6 DEF MachineGood, Rec

(* The value of a statement that ends is known.                            *)
LEMMA EndValue ==
  ASSUME NEW own, NEW owner, NEW slot, InBody(own, owner, slot), NEW m, BodyInv(m), ~Returned,
         todo # << >>, Head(todo).k = "stmt", NEW v, v = Stmt.value, v # NULL
  PROVE  /\ v \in Nodes /\ result[v] \in 1 .. Len(ssaFns[f].regs) /\ result[v] \in Nat
         /\ Read(m.regs, result[v]) = TermAt(f, s, v)
<1>1. Inv /\ Owned(own) /\ Tracked(own, owner, slot) /\ phase = "translate" /\ todo \in Seq(Tasks)
  BY InBodyParts
<1>2. v \in Nodes /\ result[v] \in Nat
  BY <1>1, ValueReg
<1>3. 1 \in 1 .. Len(todo) /\ todo[1] = Head(todo)
  BY <1>1
<1>4. v \in Reads(todo[1])
  BY <1>2, <1>3 DEF Reads
<1>5. v \in Known(m)
  BY <1>3, <1>4 DEF BodyInv, ComeFirst
<1> QED BY <1>2, <1>5 DEF Known

LEMMA ExprEnds ==
  ASSUME NEW own, NEW owner, NEW slot, InBody(own, owner, slot), NEW m, m = Machine(ssaFns[f]), BodyInv(m),
         EndExpr, outcome' = "running"
  PROVE  BodyNext
<1> DEFINE inst == Inst("copy", type_sz(exprType[Stmt.value]), 0, <<result[Stmt.value]>>)
<1>1. todo # << >> /\ Head(todo).k = "stmt" /\ Stmt.t = "expr"
  BY DEF EndExpr, At
<1>2. /\ exprType[Stmt.value].t \in IntTypes /\ Emit(<< >>, <<inst>>)
      /\ NextStmt /\ todo' = << >> /\ UNCHANGED <<prog, entries, annotations>>
  <2>1. ~ \E how \in Abnormal : size_fails(exprType[Stmt.value], how) /\ Fails(how)
    BY FailsEnd
  <2> QED BY <2>1 DEF EndExpr
<1>3. Inv /\ Owned(own) /\ Tracked(own, owner, slot) /\ phase = "translate" /\ f \in Fns
  BY InBodyParts
<1>4. Stmt.value # NULL
  BY <1>1, <1>3, CurrentStmt
<1>5. result[Stmt.value] \in Nat
  BY <1>1, <1>3, <1>4, ValueReg
<1>6. inst \in Insts
  BY <1>2, <1>5, SizeOK, InstOK
<1>7. inst.t = "copy" /\ inst.result = 0
  BY DEF Inst
<1> HIDE DEF inst
<1>8. << >> \in Seq(Sizes)
  BY EmptySeq
<1>9. EndGood(inst)
  BY <1>1, <1>2, <1>6, <1>8, EndMakes
<1>10. CASE Returned
  BY <1>9, <1>10, EndReturned
<1>11. CASE ~Returned
  <2>1. MachineGood(m) /\ Rec(m) /\ m.ret = <<"end">>
    BY <1>11 DEF BodyInv, MachineGood
  <2>2. Machine(ssaFns[f])' = m
    BY <1>7, <1>9, <2>1, EndMachine, ExecNothing
  <2>3. MachineGood(m)'
    BY <1>3, <1>9, <2>1, GoodMore, CurrentFn DEF EndGood
  <2>4. PICK now : now = s
    OBVIOUS
  <2>5. m.calls = CallsTo(f, now)
    BY <1>1, <1>11, <2>4, CallsAfter
  <2>6. IdsKept(owner, 0, m, m)
    BY <1>2, IdleKept
  <2>7. \A e \in Mine(owner) : e = 0 => slot[e] >= Cur
    BY DEF Mine
  <2>8. /\ now \in StmtsIn(f) /\ s' = s + 1 /\ todo' = << >> /\ UNCHANGED <<prog, f, p, paramEntry, stmtVar>>
        /\ StmtAt(f, now).t = "expr"
    BY <1>1, <1>9, <2>4 DEF EndGood
  <2>9. BodyInv(m)'
    BY <1>11, <2>3, <2>4, <2>5, <2>6, <2>7, <2>8, BodyMoves
  <2> QED BY <2>2, <2>9 DEF BodyNext
<1> QED BY <1>10, <1>11

(* The register a let sets is no other entry's.                            *)
LEMMA LetSets ==
  ASSUME NEW own, NEW owner, NEW slot, InBody(own, owner, slot), NEW m, MachineGood(m),
         NEW e \in Mine(owner), set_id(e), NEW x, x = sym_table_reg(e),
         NEW m2, NEW value, m2.regs = SetReg(m.regs, x, value)
  PROVE  IdsKept(owner, e, m, m2)
<1>1. /\ Inv /\ Len(ssaFns[f].regs) \in Nat /\ e \in 1 .. Len(entries)
      /\ Fit(Ids, Mine(owner), Waiting(owner, slot), ssaFns[f])
  BY InBodyParts DEF Mine
<1>2. /\ \A d \in 1 .. Len(entries) : entries'[d].id = IF d = e THEN x ELSE entries[d].id
      /\ entries[e].id # 0 => x = entries[e].id
  BY AskedReg
<1>3. ASSUME NEW d \in Mine(owner), d # e
      PROVE  /\ entries'[d].id = entries[d].id
             /\ entries[d].id # 0 => Read(m2.regs, entries[d].id) = Read(m.regs, entries[d].id)
  <2>1. d \in 1 .. Len(entries)
    BY DEF Mine
  <2>2. entries'[d].id = entries[d].id
    BY <1>2, <1>3, <2>1
  <2>3. ASSUME entries[d].id # 0 PROVE entries[d].id # x
    <3>1. CASE entries[e].id # 0
      <4>1. Ids[d] = entries[d].id /\ Ids[e] = entries[e].id
        BY <1>1, <2>1 DEF Ids
      <4>2. entries[d].id # entries[e].id
        BY <1>1, <1>3, <2>3, <4>1, FitParts
      <4> QED BY <1>2, <3>1, <4>2
    <3>2. CASE entries[e].id = 0
      <4>1. x = Len(ssaFns[f].regs) + 1
        BY <3>2 DEF sym_table_reg, ssa_new_reg
      <4>2. entries[d].id \in 0 .. Len(ssaFns[f].regs)
        BY FreshReg
      <4> QED BY <1>1, <4>1, <4>2
    <3> QED BY <3>1, <3>2
  <2>4. PICK old : old = m.regs
    OBVIOUS
  <2>5. \A r : r # x => Read(SetReg(old, x, value), r) = Read(old, r)
    BY ReadAfter
  <2>6. entries[d].id # 0 => Read(m2.regs, entries[d].id) = Read(m.regs, entries[d].id)
    BY <2>3, <2>4, <2>5
  <2> QED BY <2>2, <2>6
<1> QED BY <1>3 DEF IdsKept

LEMMA LetEnds ==
  ASSUME NEW own, NEW owner, NEW slot, InBody(own, owner, slot), NEW m, m = Machine(ssaFns[f]), BodyInv(m),
         EndLet, outcome' = "running"
  PROVE  BodyNext
<1>1. todo # << >> /\ Head(todo).k = "stmt" /\ Stmt.t = "let"
  BY DEF EndLet, At
<1>2. PICK e, v : e = stmtVar[f][s] /\ v = Stmt.value
  OBVIOUS
<1>3. PICK x, type : x = sym_table_reg(e) /\ type = exprType[v]
  OBVIOUS
<1> DEFINE inst == Inst("copy", type_sz(type), x, <<result[v]>>)
           fails(how) == size_fails(type, how) \/ reg_fails(e, how)
<1>4. /\ \A how \in Abnormal : ~fails(how)
      /\ set_id(e) /\ Emit(new_regs(e), <<inst>>)
      /\ NextStmt /\ todo' = << >> /\ UNCHANGED <<prog, annotations>>
  <2>1. ~ \E how \in Abnormal : fails(how) /\ Fails(how)
    BY FailsEnd
  <2> QED BY <1>2, <1>3, <2>1 DEF EndLet
<1>5. (\A how \in Abnormal : ~size_fails(type, how)) /\ (\A how \in Abnormal : ~reg_fails(e, how))
  BY <1>4
<1>6. /\ Inv /\ Owned(own) /\ Tracked(own, owner, slot) /\ phase = "translate" /\ f \in Fns
      /\ Fn = prog.fns[f] /\ Len(Fn.params) \in Nat /\ s \in Nat /\ Cur = Len(Fn.params) + s
  BY InBodyParts
<1>7. v # NULL /\ s \in StmtsIn(f) /\ StmtAt(f, s) = Stmt
  <2>1. v # NULL /\ s \in 1 .. Len(Fn.stmts)
    BY <1>1, <1>2, <1>6, CurrentStmt
  <2> QED BY <1>6, <2>1 DEF StmtsIn, StmtAt, Stmt
<1>8. result[v] \in Nat
  BY <1>1, <1>2, <1>6, <1>7, ValueReg
<1>9. PICK now : now = s
  OBVIOUS
<1>10. e \in Mine(owner) /\ slot[e] = Cur
  <2>1. now \in StmtsIn(f) /\ StmtAt(f, now).t = "let" /\ e = stmtVar[f][now]
    BY <1>1, <1>2, <1>7, <1>9
  <2>2. e \in Mine(owner) /\ slot[e] = Len(Fn.params) + now
    BY <2>1, LetEntries
  <2> QED BY <1>6, <1>9, <2>2
<1>11. e \in 0 .. Len(entries) /\ e \in 1 .. Len(entries)
  BY <1>10 DEF Mine
<1>12. x \in Nat /\ new_regs(e) \in Seq(Sizes)
  BY <1>3, <1>5, <1>6, <1>11, RegOK
<1>13. inst \in Insts
  BY <1>5, <1>8, <1>12, SizeOK, InstOK
<1>14. inst.t = "copy" /\ inst.result = x /\ inst.args = <<result[v]>>
  BY DEF Inst
<1> HIDE DEF inst, fails
<1>15. EndGood(inst)
  BY <1>1, <1>4, <1>12, <1>13, EndMakes
<1>16. CASE Returned
  BY <1>15, <1>16, EndReturned
<1>17. CASE ~Returned
  <2>1. MachineGood(m) /\ Rec(m) /\ m.ret = <<"end">> /\ m.calls \in Seq(FnTerms(f))
    BY <1>17 DEF BodyInv, MachineGood
  <2>2. PICK value : value = TermAt(f, s, v)
    OBVIOUS
  <2>3. Read(m.regs, result[v]) = value
    BY <1>1, <1>2, <1>7, <1>17, <2>2, EndValue
  <2>4. value # <<"end">>
    BY <2>1, <2>3, ReadNotEnd
  <2>5. Value(m.regs, inst, CalleeName(inst)) = value
    BY <1>14, <2>3, ValueOne
  <2>6. x # 0 /\ \A d \in 1 .. Len(entries) : entries'[d].id = IF d = e THEN x ELSE entries[d].id
    BY <1>3, <1>4, <1>10, <2>1, AskedReg
  <2>7. PICK m2 : m2 = [regs |-> SetReg(m.regs, x, value), calls |-> m.calls, ret |-> m.ret]
    OBVIOUS
  <2>8. Machine(ssaFns[f])' = m2
    <3>1. PICK name : name = CalleeName(inst)
      OBVIOUS
    <3>2. Exec(m, inst, name) =
            [regs |-> SetReg(m.regs, inst.result, Value(m.regs, inst, name)),
             calls |-> IF inst.t = "callfn" THEN Append(m.calls, Value(m.regs, inst, name)) ELSE m.calls,
             ret |-> m.ret]
      BY <1>14, <2>1, <2>6, ExecSets
    <3>3. Exec(m, inst, name) = m2
      BY <1>14, <2>5, <2>7, <3>1, <3>2
    <3> QED BY <1>15, <3>1, <3>3, EndMachine
  <2>9. MachineGood(m2)'
    <3>1. /\ UNCHANGED <<prog, f>> /\ ssaFns'[f].insts = ssaFns[f].insts \o <<inst>>
          /\ ssaFns'[f].params = ssaFns[f].params /\ inst \in Insts
      BY <1>15 DEF EndGood
    <3>2. ssaFns[f].insts \in Seq(Insts)
      BY <1>6, CurrentFn
    <3> QED BY <1>14, <2>1, <2>4, <2>6, <2>7, <3>1, <3>2, GoodSets
  <2>10. IdsKept(owner, e, m, m2)
    BY <1>3, <1>4, <1>10, <2>1, <2>7, LetSets
  <2>11. m2.calls = CallsTo(f, now)
    BY <1>1, <1>9, <1>17, <2>7, CallsAfter
  <2>12. /\ now \in StmtsIn(f) /\ s' = s + 1 /\ todo' = << >> /\ UNCHANGED <<prog, f, p, paramEntry, stmtVar>>
         /\ StmtAt(f, now).t = "let" /\ StmtAt(f, now).value = v
    BY <1>1, <1>2, <1>7, <1>9, <1>15 DEF EndGood
  <2>13. LetKnown(m2, now)'
    <3>1. PICK g : g = f
      OBVIOUS
    <3>2. TermAt(g, now, v)' = TermAt(g, now, v)
      BY <2>12, TermSame
    <3>3. TermAt(f, now, StmtAt(f, now).value)' = value
      <4>1. StmtAt(f, now)'.value = v /\ f' = g /\ g = f
        BY <2>12, <3>1 DEF StmtAt
      <4> QED BY <1>9, <2>2, <3>2, <4>1
    <3>4. stmtVar'[f'][now] = e /\ entries'[e].id = x
      BY <1>2, <1>9, <1>11, <2>6, <2>12
    <3>5. Read(m2.regs, x) = value
      <4>1. PICK old : old = m.regs
        OBVIOUS
      <4>2. Read(SetReg(old, x, value), x) = value
        BY ReadAfter
      <4> QED BY <2>7, <4>1, <4>2
    <3> QED BY <2>6, <3>3, <3>4, <3>5 DEF LetKnown, Read
  <2>14. \A d \in Mine(owner) : d = e => slot[d] >= Cur
    BY <1>6, <1>10
  <2>15. BodyInv(m2)'
    BY <1>9, <1>17, <2>9, <2>10, <2>11, <2>12, <2>13, <2>14, BodyMoves
  <2> QED BY <2>8, <2>15 DEF BodyNext
<1> QED BY <1>16, <1>17

LEMMA ReturnEnds ==
  ASSUME NEW own, NEW owner, NEW slot, InBody(own, owner, slot), NEW m, m = Machine(ssaFns[f]), BodyInv(m),
         EndReturn
  PROVE  BodyNext
<1>1. todo # << >> /\ Head(todo).k = "stmt" /\ Stmt.t = "return"
  BY DEF EndReturn, At
<1>2. PICK v, op : v = Stmt.value /\ op = IF v = NULL THEN 0 ELSE result[v]
  OBVIOUS
<1> DEFINE inst == Inst("ret", 0, 0, <<op>>)
<1>3. Emit(<< >>, <<inst>>) /\ NextStmt /\ todo' = << >> /\ UNCHANGED <<prog, annotations>>
  BY <1>2 DEF EndReturn
<1>4. /\ Inv /\ Owned(own) /\ Tracked(own, owner, slot) /\ phase = "translate" /\ f \in Fns
      /\ prog \in Programs /\ s \in Nat
  BY InBodyParts
<1>5. op \in Nat
  BY <1>1, <1>2, <1>4, ValueReg
<1>6. inst \in Insts
  BY <1>5, InstOK DEF Sizes
<1>7. inst.t = "ret" /\ inst.args = <<op>>
  BY DEF Inst
<1> HIDE DEF inst
<1>8. << >> \in Seq(Sizes)
  BY EmptySeq
<1>9. EndGood(inst)
  BY <1>1, <1>3, <1>6, <1>8, EndMakes
<1>10. CASE Returned
  BY <1>9, <1>10, EndReturned
<1>11. CASE ~Returned
  <2>1. MachineGood(m) /\ Rec(m) /\ m.ret = <<"end">> /\ m.calls \in Seq(FnTerms(f))
    BY <1>11 DEF BodyInv, MachineGood
  <2>2. PICK g, now, value : g = f /\ now = s /\ value = TermAt(f, s, v)
    OBVIOUS
  <2>3. /\ now \in StmtsIn(g) /\ StmtAt(g, now).t = "return" /\ StmtAt(g, now).value = v
        /\ s' = now + 1 /\ todo' = << >> /\ prog' = prog /\ f' = g /\ g \in Fns
    BY <1>1, <1>2, <1>4, <1>9, <2>2 DEF EndGood
  <2>4. Read(m.regs, op) = value
    <3>1. CASE v = NULL
      <4>1. op = 0 /\ 0 \notin DOMAIN m.regs
        BY <1>2, <2>1, <3>1 DEF MachineGood
      <4>2. Read(m.regs, 0) = <<"none">>
        BY <4>1, ReadFree
      <4>3. TermAt(g, now, 0) = <<"none">>
        BY <1>4, <2>3, TermNull
      <4> QED BY <2>2, <3>1, <4>1, <4>2, <4>3 DEF NULL
    <3>2. CASE v # NULL
      BY <1>1, <1>2, <1>11, <2>2, <3>2, EndValue
    <3> QED BY <3>1, <3>2
  <2>5. value # <<"end">>
    BY <2>1, <2>4, ReadNotEnd
  <2>6. PICK m2 : m2 = [regs |-> m.regs, calls |-> m.calls, ret |-> value]
    OBVIOUS
  <2>7. Machine(ssaFns[f])' = m2
    <3>1. PICK name : name = CalleeName(inst)
      OBVIOUS
    <3>2. Value(m.regs, inst, name) = value
      BY <1>7, <2>4, ValueOne
    <3>3. Exec(m, inst, name) = [regs |-> m.regs, calls |-> m.calls, ret |-> Value(m.regs, inst, name)]
      BY <1>7, <2>1, ExecReturns
    <3> QED BY <1>9, <2>6, <3>1, <3>2, <3>3, EndMachine
  <2>8. ReturnsIn(g) # {} /\ LastOf(g) = now
    <3>1. now \in ReturnsIn(g)
      BY <2>3 DEF ReturnsIn
    <3>2. \A i \in ReturnsIn(g) : i \in Nat /\ now <= i
      <4>1. ASSUME NEW i \in ReturnsIn(g) PROVE i \in Nat /\ now <= i
        <5>1. i \in StmtsIn(f) /\ StmtAt(f, i).t = "return" /\ i \in Nat
          BY <2>2 DEF ReturnsIn, StmtsIn
        <5>2. ~(i < s)
          BY <1>11, <5>1 DEF Returned
        <5> QED BY <1>4, <2>2, <5>1, <5>2
      <4> QED BY <4>1
    <3>3. PICK S : S = ReturnsIn(g)
      OBVIOUS
    <3>4. S # {} /\ S \subseteq Nat
      BY <3>1, <3>2, <3>3
    <3>5. B!First(S) \in S /\ \A j \in S : B!First(S) <= j
      BY <3>4, FirstIs
    <3>6. B!First(S) = now
      BY <3>1, <3>2, <3>3, <3>5
    <3> QED BY <3>1, <3>3, <3>6 DEF LastOf
  <2>9. B!Meaning(g) = [calls |-> CallsTo(g, now), ret |-> value]
    <3>1. B!Meaning(g) = [calls |-> CallsTo(g, LastOf(g)),
                          ret |-> IF ReturnsIn(g) = {} THEN <<"end">>
                                  ELSE TermAt(g, LastOf(g), StmtAt(g, LastOf(g)).value)]
      BY MeaningIs
    <3> QED BY <2>2, <2>3, <2>8, <3>1
  <2>10. m.calls = CallsTo(g, now)
    BY <1>1, <1>11, <2>2, CallsAfter
  <2>11. Does(m2, g)
    BY <2>6, <2>9, <2>10 DEF Does
  <2>12. Does(m2, f)'
    <3>1. B!Meaning(g)' = B!Meaning(g)
      BY <2>3, MeaningSame
    <3> QED BY <2>3, <2>11, <3>1 DEF Does
  <2>13. Returned'
    <3>1. now \in StmtsIn(f)' /\ StmtAt(f, now)'.t = "return" /\ now < s'
      BY <1>4, <2>2, <2>3 DEF StmtsIn, StmtAt
    <3> QED BY <3>1 DEF Returned
  <2>14. EndsInStmt' /\ (s <= Len(Fn.stmts) + 1)'
    <3>1. Len(prog.fns[g].stmts) \in Nat /\ now \in Nat /\ now <= Len(prog.fns[g].stmts)
      BY <1>4, <2>2, <2>3, InBodyParts DEF StmtsIn
    <3>2. Fn' = prog.fns[g]
      BY <2>3 DEF Fn
    <3> QED BY <2>3, <3>1, <3>2 DEF EndsInStmt
  <2>15. BodyInv(m2)'
    BY <2>5, <2>6, <2>12, <2>13, <2>14 DEF BodyInv
  <2> QED BY <2>7, <2>15 DEF BodyNext
<1> QED BY <1>10, <1>11

-----------------------------------------------------------------------------
(* The functions one after the other: those not reached yet are empty, the *)
(* parameters so far of the current one have their registers, its body is  *)
(* as above, and those that are done do what they mean.                    *)
UnusedFrom(k) ==
  \A g \in 1 .. Len(ssaFns) : g >= k => ssaFns[g].params = << >> /\ ssaFns[g].insts = << >>
FnsUnused ==
  /\ phase \notin {"translate", "done"} => UnusedFrom(1)
  /\ phase = "translate" => UnusedFrom(f + 1)
ParamsDone ==
  /\ s = 1 /\ todo = << >> /\ ssaFns[f].insts = << >>
  /\ Len(ssaFns[f].params) = IF p = 0 THEN 0 ELSE p - 1
  /\ \A k \in 1 .. Len(ssaFns[f].params) :
       paramEntry[f][k] # NULL /\ ssaFns[f].params[k] = entries[paramEntry[f][k]].id
BodyAt == \E m : m = Machine(ssaFns[f]) /\ BodyInv(m)
InParams == phase = "translate" /\ f \in Fns /\ p <= Len(Fn.params)
AtBody == phase = "translate" /\ f \in Fns /\ p > Len(Fn.params)
FnDoes(g) == Does(Machine(ssaFns[g]), g)
FnsDo == \A g \in Fns : phase = "done" \/ (phase = "translate" /\ g < f) => FnDoes(g)
MeaningInv ==
  outcome \in {"running", "ok"} =>
    /\ outcome = "ok" => phase = "done"
    /\ FnsUnused /\ FnsDo
    /\ InParams => ParamsDone
    /\ AtBody => BodyAt

(* A body starts with the parameters in their registers.                   *)
LEMMA StartKnows ==
  ASSUME VerdictInv, AtBody, ParamsDone, Len(ssaFns[f].params) = Len(Fn.params),
         NEW m, m = Start(ssaFns[f])
  PROVE  MachineGood(m) /\ ParamsKnown(m) /\ m.calls = << >>
<1>1. /\ Inv /\ Filled /\ phase = "translate" /\ f \in Fns
  BY DEF VerdictInv, AtBody, Filled
<1>2. PICK fn, params : fn = ssaFns[f] /\ params = fn.params
  OBVIOUS
<1>3. Single(fn)
  <2>1. PICK own, owner, slot : Tracked(own, owner, slot)
    BY <1>1, FilledOwned
  <2>2. f \in 1 .. Len(ssaFns)
    BY <1>1, CurrentFn
  <2> QED BY <1>2, <2>1, <2>2 DEF Tracked, Singles
<1>4. /\ params \in Seq(Nat) /\ Len(fn.regs) \in Nat
      /\ \A k \in 1 .. Len(params) : params[k] \in 1 .. Len(fn.regs)
      /\ \A k, l \in 1 .. Len(params) : params[k] = params[l] => k = l
  BY <1>1, <1>2, <1>3, CurrentFn, LenProperties DEF Single
<1>5. DOMAIN params = 1 .. Len(params)
  BY <1>4, LenProperties
<1>6. PICK regs : regs = [r \in Range(params) |->
                            <<"param", CHOOSE k \in DOMAIN params : params[k] = r>>]
  OBVIOUS
<1>7. m = [regs |-> regs, calls |-> << >>, ret |-> <<"end">>]
  BY <1>2, <1>6 DEF Start
<1>8. /\ m.regs = regs /\ m.calls = << >> /\ m.ret = <<"end">> /\ Rec(m)
  BY <1>7 DEF Rec
<1>9. DOMAIN regs = Range(params) /\ Range(params) = {params[k] : k \in 1 .. Len(params)}
  BY <1>5, <1>6 DEF Range
<1>10. \A k \in 1 .. Len(params) : regs[params[k]] = <<"param", k>>
  <2>1. ASSUME NEW k \in 1 .. Len(params) PROVE regs[params[k]] = <<"param", k>>
    <3>1. PICK j : j = CHOOSE l \in DOMAIN params : params[l] = params[k]
      OBVIOUS
    <3>2. j \in DOMAIN params /\ params[j] = params[k]
      BY <1>5, <3>1
    <3>3. j = k
      BY <1>4, <1>5, <3>2
    <3>4. params[k] \in Range(params)
      BY <1>9
    <3> QED BY <1>6, <3>1, <3>3, <3>4
  <2> QED BY <2>1
<1>11. \A r \in DOMAIN regs : r # 0 /\ Sets(ssaFns[f], r) /\ regs[r] # <<"end">>
  <2>1. ASSUME NEW r \in DOMAIN regs PROVE r # 0 /\ Sets(ssaFns[f], r) /\ regs[r] # <<"end">>
    <3>1. PICK k \in 1 .. Len(params) : r = params[k]
      BY <1>9
    <3>2. r # 0 /\ regs[r] = <<"param", k>>
      BY <1>4, <1>10, <3>1
    <3>3. Sets(fn, r)
      BY <1>2, <3>1 DEF Sets
    <3> QED BY <1>2, <3>2, <3>3
  <2> QED BY <2>1
<1>12. MachineGood(m)
  <2>1. << >> \in Seq(FnTerms(f))
    BY EmptySeq
  <2> QED BY <1>8, <1>11, <2>1 DEF MachineGood
<1>13. ParamsKnown(m)
  <2>1. ASSUME NEW k \in 1 .. Len(Fn.params) PROVE ParamKnown(m, k)
    <3>1. paramEntry[f][k] # NULL /\ params[k] = entries[paramEntry[f][k]].id /\ k \in 1 .. Len(params)
      BY <1>2 DEF ParamsDone
    <3>2. params[k] # 0 /\ regs[params[k]] = <<"param", k>> /\ params[k] \in DOMAIN regs
      BY <1>4, <1>9, <1>10, <3>1
    <3> QED BY <1>8, <3>1, <3>2 DEF ParamKnown, Read
  <2> QED BY <2>1 DEF ParamsKnown
<1> QED BY <1>8, <1>12, <1>13

LEMMA BodyStarts ==
  VerdictInv /\ AtBody /\ ParamsDone /\ Len(ssaFns[f].params) = Len(Fn.params) => BodyAt
<1> SUFFICES ASSUME VerdictInv, AtBody, ParamsDone, Len(ssaFns[f].params) = Len(Fn.params)
             PROVE  BodyAt
  OBVIOUS
<1>1. PICK m : m = Start(ssaFns[f])
  OBVIOUS
<1>2. MachineGood(m) /\ ParamsKnown(m) /\ m.calls = << >>
  BY <1>1, StartKnows
<1>3. s = 1 /\ todo = << >> /\ Len(todo) = 0 /\ ssaFns[f].insts = << >>
  BY EmptySeq DEF ParamsDone
<1>4. Machine(ssaFns[f]) = m
  BY <1>1, <1>3, MachineStart
<1>5. Inv /\ f \in Fns
  BY DEF VerdictInv, AtBody, Filled
<1>6. Len(Fn.stmts) \in Nat
  BY <1>5, ControlTypes, InsideFn DEF Fns
<1>7. s <= Len(Fn.stmts) + 1 /\ EndsInStmt
  BY <1>3, <1>6 DEF EndsInStmt
<1>8. ~Returned /\ LetsKnown(m)
  <2>1. \A i \in StmtsIn(f) : ~(i < 1)
    BY DEF StmtsIn
  <2> QED BY <1>3, <2>1 DEF Returned, LetsKnown
<1>9. ComeFirst(Known(m))
  BY <1>3 DEF ComeFirst
<1>10. CallsRight(m)
  <2>1. CallsTo(f, 0) = << >> /\ PendingCalls(<< >>, f, s) = << >>
    BY CallsToNone, PendingNone
  <2>2. << >> \o << >> = << >>
    BY EmptySeq, ConcatEmptySeq
  <2> QED BY <1>2, <1>3, <2>1, <2>2 DEF CallsRight
<1>11. BodyInv(m)
  BY <1>2, <1>7, <1>8, <1>9, <1>10 DEF BodyInv
<1> QED BY <1>4, <1>11 DEF BodyAt

LEMMA BodyStartsNext ==
  (VerdictInv /\ AtBody /\ ParamsDone /\ Len(ssaFns[f].params) = Len(Fn.params) => BodyAt)'
  BY BodyStarts, PTL

-----------------------------------------------------------------------------
(* What a function does is a matter of its instructions and parameters.    *)
LEMMA DoesKept ==
  ASSUME prog' = prog, NEW g, ssaFns[g].insts \in Seq(Insts),
         ssaFns'[g].insts = ssaFns[g].insts, ssaFns'[g].params = ssaFns[g].params, FnDoes(g)
  PROVE  FnDoes(g)'
<1>1. PICK fn, fn2 : fn = ssaFns[g] /\ fn2 = ssaFns'[g]
  OBVIOUS
<1>2. Machine(fn2)' = Machine(fn2)
  BY MachinePrimed
<1>3. Machine(fn2) = Machine(fn)
  BY <1>1, MachineSame
<1>4. PICK m : m = Machine(fn)
  OBVIOUS
<1>5. Machine(ssaFns[g])' = m /\ Machine(ssaFns[g]) = m
  BY <1>1, <1>2, <1>3, <1>4
<1>6. B!Meaning(g)' = B!Meaning(g)
  BY MeaningSame
<1> QED BY <1>5, <1>6 DEF FnDoes, Does

LEMMA UnusedKept ==
  ASSUME NEW k, UnusedFrom(k), Len(ssaFns') = Len(ssaFns),
         \A g \in 1 .. Len(ssaFns) : g >= k => ssaFns'[g].params = ssaFns[g].params
                                               /\ ssaFns'[g].insts = ssaFns[g].insts
  PROVE  UnusedFrom(k)'
  BY DEF UnusedFrom

(* A step of the translation of function f leaves the others as they are.  *)
OtherFns ==
  Len(ssaFns') = Len(ssaFns) /\ \A g \in 1 .. Len(ssaFns) : g # f => ssaFns'[g] = ssaFns[g]

LEMMA OthersKept ==
  ASSUME Inv, phase = "translate", f \in Fns, UNCHANGED <<prog, phase, f>>, OtherFns, FnsUnused, FnsDo
  PROVE  FnsUnused' /\ FnsDo'
<1>1. f \in Nat /\ Len(prog.fns) \in Nat /\ Fns' = Fns
  BY ControlTypes DEF Fns
<1>2. Len(ssaFns) = Len(prog.fns) /\ ssaFns \in Seq(SSA_Fns)
  BY InvParts, CurrentFn DEF LoopsOK
<1>3. PICK k : k = f + 1
  OBVIOUS
<1>4. UnusedFrom(k)
  BY <1>3 DEF FnsUnused
<1>5. UnusedFrom(k)'
  <2>1. \A g \in 1 .. Len(ssaFns) : g >= k => ssaFns'[g].params = ssaFns[g].params
                                              /\ ssaFns'[g].insts = ssaFns[g].insts
    BY <1>1, <1>3 DEF OtherFns
  <2>2. Len(ssaFns') = Len(ssaFns)
    BY DEF OtherFns
  <2> QED BY <1>4, <2>1, <2>2, UnusedKept
<1>6. FnsUnused'
  BY <1>3, <1>5 DEF FnsUnused, UnusedFrom
<1>7. \A g \in Fns : g < f => FnDoes(g)'
  <2>1. ASSUME NEW g \in Fns, g < f PROVE FnDoes(g)'
    <3>1. FnDoes(g)
      BY <2>1 DEF FnsDo
    <3>2. ssaFns'[g] = ssaFns[g]
      BY <1>1, <1>2, <2>1 DEF OtherFns, Fns
    <3>3. ssaFns[g] \in SSA_Fns
      BY <1>2, ElementOfSeq DEF Fns
    <3>4. ssaFns[g].insts \in Seq(Insts)
      BY <3>3 DEF SSA_Fns
    <3> QED BY <3>1, <3>2, <3>4, DoesKept
  <2> QED BY <2>1
<1>8. FnsDo'
  BY <1>1, <1>7 DEF FnsDo
<1> QED BY <1>6, <1>8

LEMMA BodyStep ==
  ASSUME Inv, MeaningInv, AtBody, outcome = "running", outcome' = "running",
         UNCHANGED <<prog, phase, f, p>>, OtherFns, BodyNext
  PROVE  MeaningInv'
<1>1. phase = "translate" /\ f \in Fns /\ p > Len(Fn.params) /\ Fns' = Fns /\ Fn' = Fn
  BY DEF AtBody, Fns, Fn
<1>2. FnsUnused /\ FnsDo
  BY DEF MeaningInv
<1>3. FnsUnused' /\ FnsDo'
  BY <1>1, <1>2, OthersKept
<1>4. BodyAt'
  BY DEF BodyNext, BodyAt
<1>5. Len(Fn.params) \in Nat /\ p \in Nat
  BY <1>1, ControlTypes, InsideFn DEF Fns
<1>6. ~InParams'
  BY <1>1, <1>5 DEF InParams
<1>7. outcome' # "ok"
  OBVIOUS
<1> QED BY <1>3, <1>4, <1>6, <1>7 DEF MeaningInv

LEMMA ExceptOthers ==
  ASSUME Inv, phase = "translate", f \in Fns, NEW r, ssaFns' = [ssaFns EXCEPT ![f] = r]
  PROVE  OtherFns
<1> DEFINE T == SSA_Fns \cup {r}
<1>1. ssaFns \in Seq(SSA_Fns) /\ f \in 1 .. Len(ssaFns)
  BY CurrentFn
<1>2. ssaFns \in Seq(T) /\ r \in T
  BY <1>1, LenProperties, SeqDef
<1> HIDE DEF T
<1>3. ssaFns' \in Seq(T) /\ Len(ssaFns') = Len(ssaFns)
  BY <1>1, <1>2, ExceptSeq
<1>4. DOMAIN ssaFns = 1 .. Len(ssaFns)
  BY <1>1, LenProperties
<1> QED BY <1>3, <1>4 DEF OtherFns

LEMMA EmitOthers ==
  ASSUME Inv, phase = "translate", f \in Fns, NEW regs, NEW insts, Emit(regs, insts)
  PROVE  OtherFns
<1>1. PICK r : r = [ssaFns[f] EXCEPT !.regs = ssaFns[f].regs \o regs, !.insts = ssaFns[f].insts \o insts]
  OBVIOUS
<1>2. ssaFns \in Seq(SSA_Fns) /\ f \in 1 .. Len(ssaFns)
  BY CurrentFn
<1>3. DOMAIN ssaFns = 1 .. Len(ssaFns) /\ ssaFns[f] \in SSA_Fns
  BY <1>2, LenProperties, ElementOfSeq
<1>4. ssaFns' = [ssaFns EXCEPT ![f] = r]
  BY <1>1, <1>2, <1>3 DEF Emit, SSA_Fns
<1> QED BY <1>4, ExceptOthers

LEMMA SameOthers == ASSUME ssaFns' = ssaFns PROVE OtherFns
  BY DEF OtherFns

(* The steps between a function's parameters and its end.                  *)
BodySteps ==
  \/ TranslateStmt \/ TranslateInt \/ TranslateVar \/ (\E t \in {"binop", "funcall"} : TranslateArgs(t))
  \/ TranslateBinop \/ TranslateCall \/ EndLet \/ EndExpr \/ EndReturn

LEMMA BodySite ==
  ASSUME VerdictInv, BodySteps
  PROVE  AtBody /\ outcome = "running"
<1>1. Inv /\ Filled
  BY DEF VerdictInv, Filled
<1>2. CASE TranslateStmt
  BY <1>1, <1>2, ControlTypes DEF TranslateStmt, AtStmt, BetweenStmts, InFn, In, AtBody, Fns
<1>3. CASE ~TranslateStmt
  <2>1. phase = "translate" /\ outcome = "running" /\ todo # << >>
    BY <1>3 DEF BodySteps, TranslateInt, TranslateVar, TranslateArgs, TranslateBinop, TranslateCall,
                EndLet, EndExpr, EndReturn, At, In
  <2>2. f \in Fns
    BY <1>1, <2>1, CurrentStmt
  <2>3. PICK own, owner, slot : Tracked(own, owner, slot)
    BY <1>1, FilledOwned
  <2>4. p > Len(Fn.params)
    BY <2>1, <2>3 DEF Tracked, Walking
  <2> QED BY <2>1, <2>2, <2>4 DEF AtBody
<1> QED BY <1>2, <1>3

LEMMA BodyFrame ==
  ASSUME VerdictInv, BodySteps, outcome' = "running"
  PROVE  UNCHANGED <<prog, phase, f, p>> /\ OtherFns
<1>1. Inv /\ phase = "translate" /\ f \in Fns
  BY BodySite DEF VerdictInv, Filled, AtBody
<1>2. \A how \in Abnormal : ~Fails(how)
  BY FailsEnd
<1>3. "segv" \in Abnormal /\ "internal_err" \in Abnormal
  BY DEF Abnormal
<1>4. CASE TranslateStmt
  BY <1>4, SameOthers DEF TranslateStmt, SkipStmt, NextStmt, Walk, irVars
<1>5. ASSUME NEW inst, EmitSized(inst) PROVE UNCHANGED <<prog, phase, f, p>> /\ OtherFns
  BY <1>1, <1>2, <1>5, EmitOthers DEF EmitSized, EmitResult, Continue
<1>6. CASE TranslateInt
  BY <1>5, <1>6 DEF TranslateInt
<1>7. CASE TranslateVar
  BY <1>1, <1>2, <1>7, EmitOthers DEF TranslateVar, Continue
<1>8. CASE \E t \in {"binop", "funcall"} : TranslateArgs(t)
  BY <1>8, SameOthers DEF TranslateArgs, Continue, irVars
<1>9. CASE TranslateBinop
  BY <1>2, <1>3, <1>5, <1>9 DEF TranslateBinop
<1>10. CASE TranslateCall
  BY <1>2, <1>3, <1>5, <1>10 DEF TranslateCall
<1>11. CASE EndLet
  BY <1>1, <1>2, <1>11, EmitOthers DEF EndLet, NextStmt
<1>12. CASE EndExpr
  BY <1>1, <1>2, <1>12, EmitOthers DEF EndExpr, NextStmt
<1>13. CASE EndReturn
  BY <1>1, <1>13, EmitOthers DEF EndReturn, NextStmt
<1> QED BY <1>4, <1>6, <1>7, <1>8, <1>9, <1>10, <1>11, <1>12, <1>13 DEF BodySteps

LEMMA BodyMeans ==
  ASSUME VerdictInv, MeaningInv, BodySteps, outcome' = "running"
  PROVE  MeaningInv'
<1>1. AtBody /\ outcome = "running" /\ UNCHANGED <<prog, phase, f, p>> /\ OtherFns
  BY BodySite, BodyFrame
<1>2. Inv /\ Filled
  BY DEF VerdictInv, Filled
<1>3. PICK own, owner, slot : Owned(own) /\ Tracked(own, owner, slot)
  BY <1>2, FilledOwned
<1>4. InBody(own, owner, slot)
  BY <1>1, <1>3 DEF InBody, AtBody
<1>5. PICK m : m = Machine(ssaFns[f]) /\ BodyInv(m)
  BY <1>1 DEF MeaningInv, BodyAt
<1>6. BodyNext
  <2>1. CASE TranslateStmt
    BY <1>4, <1>5, <2>1, StmtBody
  <2>2. CASE TranslateInt
    BY <1>4, <1>5, <2>2, IntBody
  <2>3. CASE TranslateVar
    BY <1>4, <1>5, <2>3, VarBody
  <2>4. CASE \E t \in {"binop", "funcall"} : TranslateArgs(t)
    BY <1>4, <1>5, <2>4, ArgsBody
  <2>5. CASE TranslateBinop
    BY <1>4, <1>5, <2>5, BinopBody
  <2>6. CASE TranslateCall
    BY <1>4, <1>5, <2>6, CallBody
  <2>7. CASE EndLet
    BY <1>4, <1>5, <2>7, LetEnds
  <2>8. CASE EndExpr
    BY <1>4, <1>5, <2>8, ExprEnds
  <2>9. CASE EndReturn
    BY <1>4, <1>5, <2>9, ReturnEnds
  <2> QED BY <2>1, <2>2, <2>3, <2>4, <2>5, <2>6, <2>7, <2>8, <2>9 DEF BodySteps
<1> QED BY <1>1, <1>2, <1>6, BodyStep

(* A function's parameters come one after the other, then its body.        *)
LEMMA ParamsStep ==
  ASSUME Inv, MeaningInv, VerdictInv', phase = "translate", f \in Fns, outcome = "running",
         outcome' = "running", UNCHANGED <<prog, phase, f>>, OtherFns, p <= Len(Fn.params), p' = p + 1,
         ParamsDone'
  PROVE  MeaningInv'
<1>1. Fns' = Fns /\ Fn' = Fn /\ Len(Fn.params) \in Nat /\ p \in Nat
  BY ControlTypes, InsideFn DEF Fns, Fn
<1>2. FnsUnused /\ FnsDo
  BY DEF MeaningInv
<1>3. FnsUnused' /\ FnsDo'
  BY <1>2, OthersKept
<1>4. ASSUME AtBody' PROVE BodyAt'
  <2>1. p' > Len(Fn'.params)
    BY <1>4 DEF AtBody
  <2>2. p = Len(Fn.params) /\ p' # 0 /\ p' - 1 = p
    BY <1>1, <2>1
  <2>3. Len(ssaFns'[f'].params) = IF p' = 0 THEN 0 ELSE p' - 1
    BY DEF ParamsDone
  <2>4. Len(ssaFns'[f'].params) = Len(Fn'.params)
    BY <1>1, <2>2, <2>3
  <2> QED BY <1>4, <2>4, BodyStartsNext
<1> QED BY <1>3, <1>4 DEF MeaningInv

LEMMA EnterMeans ==
  ASSUME VerdictInv, VerdictInv', MeaningInv, Ir_EnterFn
  PROVE  MeaningInv'
<1>1. Inv /\ Len(prog.fns) \in Nat /\ f \in 1 .. Len(prog.fns) + 1
  BY ControlTypes DEF VerdictInv, Filled
<1>2. /\ phase = "translate" /\ outcome = "running" /\ f \in Fns /\ p = 0 /\ p' = 1
      /\ UNCHANGED <<prog, phase, outcome, f, s, todo, entries, paramEntry, ssaFns>>
  BY <1>1 DEF Ir_EnterFn, InFn, In, irVars, annotations, Fns
<1>3. Len(Fn.params) \in Nat
  BY <1>1, <1>2, InsideFn DEF Fns
<1>4. ParamsDone
  BY <1>2, <1>3 DEF MeaningInv, InParams
<1>5. ParamsDone'
  BY <1>2, <1>4 DEF ParamsDone
<1>6. OtherFns
  BY <1>2, SameOthers
<1> QED BY <1>1, <1>2, <1>3, <1>5, <1>6, ParamsStep

LEMMA SetIdIs ==
  ASSUME TableOK, NEW e \in 1 .. Len(entries), set_id(e)
  PROVE  \A d \in 1 .. Len(entries) :
           entries'[d].id = IF d = e THEN sym_table_reg(e) ELSE entries[d].id
<1>1. PICK x : x = sym_table_reg(e)
  OBVIOUS
<1>2. entries' = [entries EXCEPT ![e].id = x]
  BY <1>1 DEF set_id
<1>3. entries \in Seq([pos : Names, type : Types, id : Nat, fn : FnPointers])
  BY DEF TableOK
<1>4. /\ DOMAIN entries = 1 .. Len(entries)
      /\ \A d \in 1 .. Len(entries) : entries[d] \in [pos : Names, type : Types, id : Nat, fn : FnPointers]
  BY <1>3, LenProperties, ElementOfSeq
<1> QED BY <1>1, <1>2, <1>4

LEMMA ParamMeans ==
  ASSUME VerdictInv, VerdictInv', MeaningInv, TranslateParam, outcome' = "running"
  PROVE  MeaningInv'
<1>1. Inv /\ Filled /\ Len(prog.fns) \in Nat /\ f \in 1 .. Len(prog.fns) + 1
  BY ControlTypes DEF VerdictInv, Filled
<1>2. phase = "translate" /\ outcome = "running" /\ f \in Fns /\ p \in 1 .. Len(Fn.params)
  BY <1>1 DEF TranslateParam, AtParam, InFn, In, Fns
<1>3. PICK e, x, g, k : e = paramEntry[f][p] /\ x = sym_table_reg(e) /\ g = f /\ k = p
  OBVIOUS
<1>4. /\ \A how \in Abnormal : ~reg_fails(e, how)
      /\ set_id(e)
      /\ ssaFns' = [ssaFns EXCEPT ![f].regs = @ \o new_regs(e), ![f].params = Append(@, x)]
      /\ p' = p + 1 /\ UNCHANGED <<prog, phase, f, s, todo, paramEntry>>
  <2>1. \A how \in Abnormal : ~Fails(how)
    BY FailsEnd
  <2> QED BY <1>3, <2>1 DEF TranslateParam, annotations
<1>5. PICK own, owner, slot : Tracked(own, owner, slot)
  BY <1>1, FilledOwned
<1>6. /\ ParamsDone /\ Len(Fn.params) \in Nat
  BY <1>1, <1>2, InsideFn DEF MeaningInv, InParams, Fns
<1>7. /\ paramEntry[g] \in Seq(0 .. Len(entries)) /\ Len(paramEntry[g]) = Len(Fn.params)
      /\ TableOK
  BY <1>1, <1>2, <1>3, InvParts DEF AnnotationsOK, LoopsOK, Fns, Fn
<1>8. \A j \in 1 .. Len(Fn.params) :
        /\ paramEntry[g][j] \in 0 .. Len(entries)
        /\ paramEntry[g][j] # NULL => slot[paramEntry[g][j]] = j
  <2>1. Placed(owner, slot)
    BY <1>5 DEF Tracked
  <2> QED BY <1>2, <1>3, <1>7, <2>1, ElementOfSeq DEF Placed
<1>9. e \in 1 .. Len(entries) /\ slot[e] = k /\ x \in Nat /\ new_regs(e) \in Seq(Sizes)
  <2>1. e \in 0 .. Len(entries)
    BY <1>2, <1>3, <1>8
  <2>2. e \in 1 .. Len(entries) /\ x \in Nat /\ new_regs(e) \in Seq(Sizes)
    BY <1>1, <1>2, <1>3, <1>4, <2>1, RegOK
  <2> QED BY <1>2, <1>3, <1>8, <2>2 DEF NULL
<1>10. \A d \in 1 .. Len(entries) : entries'[d].id = IF d = e THEN x ELSE entries[d].id
  BY <1>3, <1>4, <1>7, <1>9, SetIdIs
<1>11. PICK old, params : old = ssaFns[g] /\ params = old.params
  OBVIOUS
<1>12. /\ ssaFns \in Seq(SSA_Fns) /\ g \in 1 .. Len(ssaFns) /\ old \in SSA_Fns /\ params \in Seq(Nat)
       /\ DOMAIN ssaFns = 1 .. Len(ssaFns)
  BY <1>1, <1>2, <1>3, <1>11, CurrentFn, LenProperties
<1>13. PICK new : new = [old EXCEPT !.regs = @ \o new_regs(e), !.params = Append(@, x)]
  OBVIOUS
<1>14. ssaFns' = [ssaFns EXCEPT ![g] = new]
  BY <1>3, <1>4, <1>11, <1>12, <1>13 DEF SSA_Fns
<1>15. OtherFns
  BY <1>1, <1>2, <1>3, <1>14, ExceptOthers
<1>16. ssaFns'[g] = new /\ new.insts = old.insts /\ new.params = Append(params, x)
  BY <1>11, <1>12, <1>13, <1>14 DEF SSA_Fns
<1>17. /\ s = 1 /\ todo = << >> /\ old.insts = << >> /\ Len(params) = k - 1 /\ k \in 1 .. Len(Fn.params)
       /\ \A j \in 1 .. k - 1 : paramEntry[g][j] # NULL /\ params[j] = entries[paramEntry[g][j]].id
  BY <1>2, <1>3, <1>6, <1>11 DEF ParamsDone
<1>18. /\ Len(new.params) = k
       /\ \A j \in 1 .. k : new.params[j] = IF j <= k - 1 THEN params[j] ELSE x
  BY <1>9, <1>12, <1>16, <1>17, OneMore
<1>19. \A j \in 1 .. k : paramEntry[g][j] # NULL /\ new.params[j] = entries'[paramEntry[g][j]].id
  <2>1. ASSUME NEW j \in 1 .. k - 1
        PROVE  paramEntry[g][j] # NULL /\ new.params[j] = entries'[paramEntry[g][j]].id
    <3>1. PICK d : d = paramEntry[g][j]
      OBVIOUS
    <3>2. d # NULL /\ params[j] = entries[d].id /\ d \in 1 .. Len(entries) /\ slot[d] = j
      BY <1>8, <1>17, <2>1, <3>1 DEF NULL
    <3>3. d # e
      BY <1>9, <1>17, <2>1, <3>2
    <3>4. entries'[d].id = entries[d].id
      BY <1>10, <3>2, <3>3
    <3>5. new.params[j] = params[j]
      BY <1>17, <1>18, <2>1
    <3> QED BY <3>1, <3>2, <3>4, <3>5
  <2>2. paramEntry[g][k] # NULL /\ new.params[k] = entries'[paramEntry[g][k]].id
    <3>1. paramEntry[g][k] = e
      BY <1>3
    <3>2. new.params[k] = x
      BY <1>17, <1>18
    <3>3. entries'[e].id = x
      BY <1>9, <1>10
    <3> QED BY <1>9, <3>1, <3>2, <3>3 DEF NULL
  <2>3. \A j \in 1 .. k : j \in 1 .. k - 1 \/ j = k
    BY <1>17
  <2> QED BY <2>1, <2>2, <2>3
<1>20. ParamsDone'
  <2>1. s' = 1 /\ todo' = << >> /\ ssaFns'[f'].insts = << >> /\ ssaFns'[f'].params = new.params
    BY <1>3, <1>4, <1>16, <1>17
  <2>2. paramEntry'[f'] = paramEntry[g] /\ p' = k + 1 /\ k \in Nat
    BY <1>2, <1>3, <1>4
  <2>3. Len(new.params) = IF p' = 0 THEN 0 ELSE p' - 1
    BY <1>18, <2>2
  <2> QED BY <1>18, <1>19, <2>1, <2>2, <2>3 DEF ParamsDone
<1> QED BY <1>1, <1>2, <1>4, <1>15, <1>20, ParamsStep

(* At the end of its last statement a function does what it means: it ran  *)
(* into a return, or made the calls of all its statements.                 *)
LEMMA LastDoes ==
  ASSUME VerdictInv, MeaningInv, outcome = "running", AtBody, todo = << >>, s > Len(Fn.stmts)
  PROVE  FnDoes(f)
<1>1. Filled
  BY DEF VerdictInv
<1>2. PICK own, owner, slot : Owned(own) /\ Tracked(own, owner, slot)
  BY <1>1, FilledOwned
<1>3. InBody(own, owner, slot)
  BY <1>2 DEF InBody, AtBody
<1>4. PICK m : m = Machine(ssaFns[f]) /\ BodyInv(m)
  BY DEF MeaningInv, BodyAt
<1>5. s \in Nat \ {0} /\ Len(Fn.stmts) \in Nat /\ f \in Fns /\ Fn = prog.fns[f]
  BY <1>3, InBodyParts
<1>6. s - 1 = Len(prog.fns[f].stmts)
  BY <1>4, <1>5 DEF BodyInv
<1>7. CASE Returned
  BY <1>4, <1>7 DEF BodyInv, FnDoes
<1>8. CASE ~Returned
  <2>1. m.ret = <<"end">>
    BY <1>4, <1>8 DEF BodyInv, MachineGood
  <2>2. m.calls = CallsTo(f, s - 1)
    BY <1>3, <1>4, <1>8, CallsBetween
  <2>3. ReturnsIn(f) = {}
    <3>1. \A i \in StmtsIn(f) : i < s
      BY <1>5, <1>6 DEF StmtsIn
    <3> QED BY <1>8, <3>1 DEF Returned, ReturnsIn, StmtAt
  <2>4. LastOf(f) = s - 1
    BY <1>6, <2>3 DEF LastOf
  <2>5. B!Meaning(f) = [calls |-> CallsTo(f, s - 1), ret |-> <<"end">>]
    BY <2>3, <2>4, MeaningIs
  <2> QED BY <1>4, <2>1, <2>2, <2>5 DEF FnDoes, Does
<1> QED BY <1>7, <1>8

LEMMA LeaveMeans ==
  ASSUME VerdictInv, VerdictInv', MeaningInv, Ir_LeaveFn
  PROVE  MeaningInv'
<1>1. Inv /\ Filled /\ Len(prog.fns) \in Nat /\ f \in 1 .. Len(prog.fns) + 1 /\ Fns' = Fns
  BY ControlTypes DEF VerdictInv, Filled, Ir_LeaveFn, Fns
<1>2. /\ phase = "translate" /\ outcome = "running" /\ f \in Fns /\ p > Len(Fn.params)
      /\ todo = << >> /\ s > Len(Fn.stmts) /\ p' = 0 /\ s' = 1
      /\ UNCHANGED <<prog, phase, outcome, todo>>
  BY <1>1 DEF Ir_LeaveFn, LeaveFn, BetweenStmts, InFn, In, NextFn, Fns
<1>3. PICK g, next, after : g = f /\ next = f + 1 /\ after = next + 1
  OBVIOUS
<1>4. f' = next /\ g \in Fns /\ g \in Nat
  BY <1>1, <1>2, <1>3 DEF Ir_LeaveFn, LeaveFn, NextFn
<1>5. FnsUnused /\ FnsDo /\ FnDoes(g)
  BY <1>2, <1>3, LastDoes DEF AtBody, MeaningInv
<1>6. /\ ssaFns \in Seq(SSA_Fns) /\ g \in 1 .. Len(ssaFns) /\ Len(ssaFns) = Len(prog.fns)
      /\ DOMAIN ssaFns = 1 .. Len(ssaFns) /\ ssaFns[g] \in SSA_Fns
  BY <1>1, <1>2, <1>3, CurrentFn, InvParts, LenProperties DEF LoopsOK
<1>7. PICK new : new = [ssaFns[g] EXCEPT !.name = Fn.name]
  OBVIOUS
<1>8. ssaFns' = [ssaFns EXCEPT ![g] = new]
  BY <1>3, <1>6, <1>7 DEF Ir_LeaveFn
<1>9. ssaFns'[g] = new /\ new.insts = ssaFns[g].insts /\ new.params = ssaFns[g].params
  BY <1>6, <1>7, <1>8 DEF SSA_Fns
<1>10. OtherFns
  BY <1>1, <1>2, <1>3, <1>8, ExceptOthers
<1>11. /\ Len(ssaFns') = Len(ssaFns)
       /\ \A h \in Fns : ssaFns'[h].insts = ssaFns[h].insts /\ ssaFns'[h].params = ssaFns[h].params
  BY <1>3, <1>6, <1>9, <1>10 DEF OtherFns, Fns
<1>12. \A h \in Fns : ssaFns[h].insts \in Seq(Insts)
  <2>1. \A h \in Fns : ssaFns[h] \in SSA_Fns
    BY <1>6, ElementOfSeq DEF Fns
  <2> QED BY <2>1 DEF SSA_Fns
<1>13. FnsDo'
  <2>1. ASSUME NEW h \in Fns, h < next PROVE FnDoes(h)'
    <3>1. h \in Nat /\ (h < g \/ h = g)
      BY <1>3, <1>4, <2>1 DEF Fns
    <3>2. FnDoes(h)
      BY <1>2, <1>3, <1>5, <3>1 DEF FnsDo
    <3> QED BY <1>2, <1>11, <1>12, <3>2, DoesKept
  <2> QED BY <1>1, <1>2, <1>4, <2>1 DEF FnsDo
<1>14. UnusedFrom(next)
  BY <1>2, <1>3, <1>5 DEF FnsUnused
<1>15. UnusedFrom(next)'
  BY <1>6, <1>11, <1>14, UnusedKept DEF Fns
<1>16. FnsUnused'
  <2>1. \A h \in Nat : h >= after => h >= next
    BY <1>3, <1>4
  <2>2. UnusedFrom(after)'
    BY <1>6, <1>11, <1>15, <2>1 DEF UnusedFrom
  <2>3. UnusedFrom(f + 1)'
    BY <1>3, <1>4, <2>2 DEF UnusedFrom
  <2> QED BY <1>2, <2>3 DEF FnsUnused
<1>17. InParams' => ParamsDone'
  <2>1. ASSUME InParams' PROVE ParamsDone'
    <3>1. next \in Fns
      BY <1>1, <1>4, <2>1 DEF InParams
    <3>2. ssaFns'[next].params = << >> /\ ssaFns'[next].insts = << >>
      BY <1>4, <1>6, <1>11, <1>15, <3>1 DEF UnusedFrom, Fns
    <3>3. Len(<< >>) = 0 /\ \A k : k \notin 1 .. 0
      OBVIOUS
    <3> QED BY <1>2, <1>4, <3>2, <3>3 DEF ParamsDone
  <2> QED BY <2>1
<1>18. ~AtBody'
  <2>1. ASSUME AtBody' PROVE FALSE
    <3>1. Inv' /\ f' <= Len(prog'.fns)
      BY <1>1, <2>1 DEF AtBody, VerdictInv, Filled, Fns
    <3>2. Len(Fn'.params) \in Nat
      <4>1. prog \in Programs
        BY <1>1, InvParts
      <4>2. next \in Fns
        BY <1>1, <1>4, <2>1 DEF AtBody
      <4>3. Len(prog.fns[next].params) \in Nat
        BY <4>1, <4>2, ProgramShape, LenProperties
      <4> QED BY <1>2, <1>4, <4>3 DEF Fn
    <3> QED BY <1>2, <2>1, <3>2 DEF AtBody
  <2> QED BY <2>1
<1> QED BY <1>2, <1>13, <1>16, <1>17, <1>18 DEF MeaningInv

-----------------------------------------------------------------------------
(* Until the translation starts no function has anything in it.            *)
LEMMA StillUnused ==
  ASSUME phase' \notin {"translate", "done"}, outcome' # "ok", UnusedFrom(1)'
  PROVE  MeaningInv'
  BY DEF MeaningInv, FnsUnused, FnsDo, InParams, AtBody

LEMMA AllocMeans ==
  ASSUME VerdictInv, MeaningInv, AllocFn
  PROVE  MeaningInv'
<1>1. /\ phase = "alloc_fns" /\ phase' = phase /\ outcome' = "running" /\ outcome = "running"
      /\ ssaFns' = Append(ssaFns, SSA_Fn)
  BY DEF AllocFn, InFn, In, NextFn
<1>2. UnusedFrom(1)
  BY <1>1 DEF MeaningInv, FnsUnused
<1>3. ssaFns \in Seq(SSA_Fns)
  BY InvParts DEF VerdictInv, Filled, IrOK
<1>4. ssaFns \in Seq(SSA_Fns \cup {SSA_Fn})
  BY <1>3, LenProperties, SeqDef
<1>5. /\ Len(ssaFns) \in Nat /\ Len(ssaFns') = Len(ssaFns) + 1
      /\ \A g \in 1 .. Len(ssaFns) + 1 : ssaFns'[g] = IF g <= Len(ssaFns) THEN ssaFns[g] ELSE SSA_Fn
  BY <1>1, <1>4, OneMore
<1>6. SSA_Fn.params = << >> /\ SSA_Fn.insts = << >>
  BY DEF SSA_Fn
<1>7. UnusedFrom(1)'
  BY <1>2, <1>5, <1>6 DEF UnusedFrom
<1> QED BY <1>1, <1>7, StillUnused

LEMMA EndMeans ==
  ASSUME VerdictInv, VerdictInv', MeaningInv, EndPhase, UNCHANGED irVars
  PROVE  MeaningInv'
<1>1. /\ Inv /\ Len(prog.fns) \in Nat /\ f \in 1 .. Len(prog.fns) + 1 /\ phase \in Phases
      /\ Inv' /\ prog \in Programs
  BY ControlTypes, InvParts DEF VerdictInv, Filled
<1>2. /\ outcome = "running" /\ f > Len(prog.fns) /\ phase # "done" /\ phase' = NextPhase[phase]
      /\ f' = 1 /\ p' = 0 /\ s' = 1 /\ UNCHANGED <<prog, todo, ssaFns, paramEntry, entries>>
      /\ outcome' = IF phase = "translate" THEN "ok" ELSE outcome
  BY DEF EndPhase, irVars, annotations
<1>3. FnsUnused /\ FnsDo /\ Fns' = Fns
  BY <1>2 DEF MeaningInv, Fns
<1>4. Len(ssaFns) \in Nat
  BY <1>1, InvParts, LenProperties DEF IrOK
<1>5. CASE phase = "translate"
  <2>1. phase' = "done" /\ outcome' = "ok"
    BY <1>2, <1>5 DEF NextPhase
  <2>2. \A g \in Fns : ssaFns[g].insts \in Seq(Insts)
    <3>1. ssaFns \in Seq(SSA_Fns) /\ Len(ssaFns) = Len(prog.fns)
      BY <1>1, <1>5, InvParts DEF IrOK, LoopsOK
    <3>2. \A g \in Fns : ssaFns[g] \in SSA_Fns
      BY <3>1, ElementOfSeq DEF Fns
    <3> QED BY <3>2 DEF SSA_Fns
  <2>3. \A g \in Fns : FnDoes(g)'
    <3>1. ASSUME NEW g \in Fns PROVE FnDoes(g)'
      <4>1. g < f
        BY <1>1, <1>2 DEF Fns
      <4>2. FnDoes(g)
        BY <1>3, <1>5, <4>1 DEF FnsDo
      <4> QED BY <1>2, <2>2, <4>2, DoesKept
    <3> QED BY <3>1
  <2> QED BY <1>3, <2>1, <2>3 DEF MeaningInv, FnsUnused, FnsDo, InParams, AtBody
<1>6. CASE phase # "translate"
  <2>1. UnusedFrom(1) /\ phase' # "done" /\ outcome' = "running"
    BY <1>1, <1>2, <1>3, <1>6 DEF FnsUnused, Phases, NextPhase
  <2>2. UnusedFrom(1)'
    BY <1>2, <2>1, UnusedKept
  <2>3. CASE phase' # "translate"
    BY <2>1, <2>2, <2>3, StillUnused
  <2>4. CASE phase' = "translate"
    <3>1. todo = << >>
      BY <1>1, <1>2, InvParts DEF WalkOK
    <3>2. UnusedFrom(1 + 1)'
      BY <1>2, <1>4, <2>2 DEF UnusedFrom
    <3>3. FnsUnused'
      BY <1>2, <2>4, <3>2 DEF FnsUnused, UnusedFrom
    <3>4. FnsDo'
      <4>1. \A g \in Fns : ~(g < 1)
        BY <1>1 DEF Fns
      <4> QED BY <1>2, <1>3, <2>4, <4>1 DEF FnsDo
    <3>5. InParams' => ParamsDone'
      <4>1. ASSUME InParams' PROVE ParamsDone'
        <5>1. Len(ssaFns') = Len(prog'.fns) /\ 1 \in Fns'
          BY <1>1, <1>2, <2>4, <4>1 DEF Inv, IInv, LoopsOK, InParams
        <5>2. 1 \in 1 .. Len(ssaFns')
          BY <5>1 DEF Fns
        <5>3. ssaFns'[1].params = << >> /\ ssaFns'[1].insts = << >>
          BY <2>2, <5>2 DEF UnusedFrom
        <5>4. Len(<< >>) = 0 /\ \A k : k \notin 1 .. 0
          OBVIOUS
        <5> QED BY <1>2, <3>1, <5>3, <5>4 DEF ParamsDone
      <4> QED BY <4>1
    <3>6. ~AtBody'
      <4>1. ASSUME AtBody' PROVE FALSE
        <5>1. 1 \in Fns
          BY <1>2, <1>3, <4>1 DEF AtBody
        <5>2. Len(prog.fns[1].params) \in Nat
          BY <1>1, <5>1, ProgramShape, LenProperties
        <5> QED BY <1>2, <4>1, <5>2 DEF AtBody, Fn
      <4> QED BY <4>1
    <3> QED BY <2>1, <3>3, <3>4, <3>5, <3>6 DEF MeaningInv
  <2> QED BY <2>3, <2>4
<1> QED BY <1>5, <1>6

-----------------------------------------------------------------------------
(* Only the end of the last loop accepts a program.                        *)
LEMMA AbnormalEnds == \A how \in Abnormal : Fails(how) => outcome' \notin {"running", "ok"}
  BY DEF Fails, Stop, Abnormal

LEMMA IrRuns ==
  ASSUME Ir_Next, outcome' \in {"running", "ok"}
  PROVE  outcome' = "running"
<1>1. outcome = "running"
  BY StepRuns DEF Next
<1>2. \A how \in Abnormal : ~Fails(how)
  BY AbnormalEnds
<1>3. "segv" \in Abnormal /\ "internal_err" \in Abnormal
  BY DEF Abnormal
<1>4. ASSUME NEW inst, EmitSized(inst) PROVE outcome' = outcome
  BY <1>2, <1>4 DEF EmitSized, EmitResult, Continue
<1>5. CASE AllocFn \/ Ir_EnterFn \/ Ir_LeaveFn
  BY <1>1, <1>5 DEF AllocFn, Ir_EnterFn, Ir_LeaveFn, LeaveFn, NextFn
<1>6. CASE TranslateParam \/ TranslateVar \/ EndLet \/ EndExpr \/ EndReturn
  BY <1>1, <1>2, <1>6 DEF TranslateParam, TranslateVar, EndLet, EndExpr, EndReturn, NextStmt, Continue
<1>7. CASE TranslateStmt \/ \E t \in {"binop", "funcall"} : TranslateArgs(t)
  BY <1>1, <1>7 DEF TranslateStmt, TranslateArgs, SkipStmt, NextStmt, Walk, Continue
<1>8. CASE TranslateInt
  BY <1>1, <1>4, <1>8 DEF TranslateInt
<1>9. CASE TranslateBinop
  BY <1>1, <1>2, <1>3, <1>4, <1>9 DEF TranslateBinop
<1>10. CASE TranslateCall
  BY <1>1, <1>2, <1>3, <1>4, <1>10 DEF TranslateCall
<1> QED BY <1>5, <1>6, <1>7, <1>8, <1>9, <1>10 DEF Ir_Next

LEMMA SemanticsMeans ==
  ASSUME VerdictInv, VerdictInv', MeaningInv, Semantics, outcome' \in {"running", "ok"}, ~EndPhase
  PROVE  MeaningInv'
<1>1. Inv /\ outcome = "running"
  BY StepRuns DEF VerdictInv, Filled, Next
<1>2. phase \notin {"translate", "done"} /\ Quiet
  <2>1. CASE Names_Next
    BY <1>1, <2>1, QuietNames
  <2>2. CASE Types_Next
    BY <1>1, <2>2, QuietTypes
  <2>3. CASE CheckReturns
    BY <1>1, <2>3, QuietReturns
  <2> QED BY <2>1, <2>2, <2>3 DEF Semantics
<1>3. ssaFns' = ssaFns /\ phase' = phase /\ outcome' # "ok"
  BY <1>2 DEF Semantics, irVars, Quiet
<1>4. UnusedFrom(1)
  BY <1>1, <1>2 DEF MeaningInv, FnsUnused
<1>5. UnusedFrom(1)'
  BY <1>3, <1>4, UnusedKept
<1> QED BY <1>2, <1>3, <1>5, StillUnused

LEMMA NextMeans ==
  ASSUME VerdictInv, VerdictInv', MeaningInv, Next
  PROVE  MeaningInv'
<1>1. CASE outcome' \notin {"running", "ok"}
  BY <1>1 DEF MeaningInv
<1>2. CASE Semantics /\ outcome' \in {"running", "ok"}
  BY <1>2, SemanticsMeans, EndMeans DEF Semantics
<1>3. CASE Ir_Next /\ outcome' \in {"running", "ok"}
  <2>1. outcome' = "running"
    BY <1>3, IrRuns
  <2>2. CASE AllocFn
    BY <2>2, AllocMeans
  <2>3. CASE Ir_EnterFn
    BY <2>3, EnterMeans
  <2>4. CASE TranslateParam
    BY <2>1, <2>4, ParamMeans
  <2>5. CASE Ir_LeaveFn
    BY <2>5, LeaveMeans
  <2>6. CASE BodySteps
    BY <2>1, <2>6, BodyMeans
  <2> QED BY <1>3, <2>2, <2>3, <2>4, <2>5, <2>6 DEF Ir_Next, BodySteps
<1> QED BY <1>1, <1>2, <1>3 DEF Next

(* Where nothing happens nothing changes.                                  *)
LEMMA BodyStays ==
  ASSUME UNCHANGED <<prog, f, s, todo, entries, paramEntry, stmtVar, ssaFns, result>>,
         Inv, phase = "translate", f \in Fns, NEW m, BodyInv(m)
  PROVE  BodyInv(m)'
<1>1. ssaFns[f].insts \in Seq(Insts) /\ Fn' = Fn
  BY CurrentFn DEF Fn
<1>2. s' <= Len(Fn'.stmts) + 1 /\ EndsInStmt'
  BY <1>1 DEF BodyInv, EndsInStmt
<1>3. Returned' <=> Returned
  BY DEF Returned, StmtsIn, StmtAt
<1>4. CASE Returned
  <2>1. Does(m, f)'
    <3>1. B!Meaning(f)' = B!Meaning(f)
      BY MeaningSame
    <3> QED BY <1>4, <3>1 DEF BodyInv, Does
  <2> QED BY <1>2, <1>3, <1>4, <2>1 DEF BodyInv
<1>5. CASE ~Returned
  <2>1. MachineGood(m) /\ ParamsKnown(m) /\ LetsKnown(m) /\ ComeFirst(Known(m)) /\ CallsRight(m)
    BY <1>5 DEF BodyInv
  <2>2. MachineGood(m)'
    BY <1>1, <2>1, GoodStays
  <2>3. ParamsKnown(m)'
    BY <1>1, <2>1 DEF ParamsKnown, ParamKnown
  <2>4. LetsKnown(m)'
    <3>1. \A i, n : TermAt(f, i, n)' = TermAt(f, i, n)
      BY TermSame
    <3>2. ASSUME NEW i \in StmtsIn(f), LetKnown(m, i) PROVE LetKnown(m, i)'
      BY <3>1, <3>2 DEF LetKnown, StmtAt
    <3> QED BY <2>1, <3>2 DEF LetsKnown, StmtsIn, StmtAt
  <2>5. ComeFirst(Known(m))'
    <3>1. Known(m)' = Known(m)
      <4>1. \A n : TermAt(f, s, n)' = TermAt(f, s, n)
        BY TermSame
      <4> QED BY <4>1 DEF Known, Nodes
    <3>2. PICK good : good = Known(m)
      OBVIOUS
    <3>3. ComeFirst(good)
      BY <2>1, <3>2
    <3>4. ComeFirst(good)'
      BY <3>3 DEF ComeFirst, Reads, Fn, Stmt, Expr, Nodes
    <3> QED BY <3>1, <3>2, <3>4 DEF ComeFirst
  <2>6. CallsRight(m)'
    <3>1. \A tasks, i : PendingCalls(tasks, f, i)' = PendingCalls(tasks, f, i)
      BY PendingSame
    <3>2. \A i : CallsTo(f, i)' = CallsTo(f, i)
      BY CallsToSame
    <3> QED BY <2>1, <3>1, <3>2 DEF CallsRight
  <2> QED BY <1>2, <1>3, <1>5, <2>2, <2>3, <2>4, <2>5, <2>6 DEF BodyInv
<1> QED BY <1>4, <1>5

LEMMA MeansStays ==
  ASSUME VerdictInv, MeaningInv, UNCHANGED vars
  PROVE  MeaningInv'
<1>1. /\ UNCHANGED <<prog, f, s, todo, entries, paramEntry, stmtVar, ssaFns, result>>
      /\ UNCHANGED <<phase, p, outcome>> /\ Inv /\ Fns' = Fns /\ Fn' = Fn
  BY DEF vars, VerdictInv, Filled, Fns, Fn
<1>2. SUFFICES ASSUME outcome \in {"running", "ok"} PROVE MeaningInv'
  BY <1>1 DEF MeaningInv
<1>3. FnsUnused /\ FnsDo /\ (InParams => ParamsDone) /\ (AtBody => BodyAt) /\ (outcome = "ok" => phase = "done")
  BY <1>2 DEF MeaningInv
<1>4. FnsUnused'
  BY <1>1, <1>3 DEF FnsUnused, UnusedFrom
<1>5. FnsDo'
  <2>1. ASSUME phase \in {"translate", "done"} PROVE \A g \in Fns : ssaFns[g].insts \in Seq(Insts)
    <3>1. ssaFns \in Seq(SSA_Fns) /\ Len(ssaFns) = Len(prog.fns)
      BY <1>1, <2>1, InvParts DEF IrOK, LoopsOK
    <3>2. \A g \in Fns : ssaFns[g] \in SSA_Fns
      BY <3>1, ElementOfSeq DEF Fns
    <3> QED BY <3>2 DEF SSA_Fns
  <2>2. ASSUME NEW g \in Fns, phase = "done" \/ (phase = "translate" /\ g < f) PROVE FnDoes(g)'
    <3>1. FnDoes(g)
      BY <1>3, <2>2 DEF FnsDo
    <3> QED BY <1>1, <2>1, <2>2, <3>1, DoesKept
  <2> QED BY <1>1, <2>2 DEF FnsDo
<1>6. InParams' => ParamsDone'
  BY <1>1, <1>3 DEF InParams, ParamsDone
<1>7. ASSUME AtBody' PROVE BodyAt'
  <2>1. AtBody
    BY <1>1, <1>7 DEF AtBody
  <2>2. PICK m : m = Machine(ssaFns[f]) /\ BodyInv(m)
    BY <1>3, <2>1 DEF BodyAt
  <2>3. phase = "translate" /\ f \in Fns
    BY <2>1 DEF AtBody
  <2>4. BodyInv(m)'
    BY <1>1, <2>2, <2>3, BodyStays
  <2>5. Machine(ssaFns[f])' = Machine(ssaFns[f])
    BY <1>1, <2>3, CurrentFn, MachineStays
  <2> QED BY <2>2, <2>4, <2>5 DEF BodyAt
<1> QED BY <1>1, <1>3, <1>4, <1>5, <1>6, <1>7 DEF MeaningInv

LEMMA InitMeans == Init => MeaningInv
<1> SUFFICES ASSUME Init PROVE MeaningInv
  OBVIOUS
<1>1. phase = "declare" /\ outcome = "running" /\ ssaFns = << >>
  BY DEF Init, InitIr
<1>2. UnusedFrom(1)
  BY <1>1 DEF UnusedFrom
<1> QED BY <1>1, <1>2 DEF MeaningInv, FnsUnused, FnsDo, InParams, AtBody

LEMMA MeaningKept ==
  ASSUME NamesApart
  PROVE  VerdictInv /\ MeaningInv /\ [Next]_vars => VerdictInv' /\ MeaningInv'
<1>1. ASSUME VerdictInv, MeaningInv, Next PROVE VerdictInv' /\ MeaningInv'
  BY <1>1, VerdictKept, NextMeans
<1>2. ASSUME VerdictInv, MeaningInv, UNCHANGED vars PROVE VerdictInv' /\ MeaningInv'
  BY <1>2, VerdictKept, MeansStays
<1> QED BY <1>1, <1>2

-----------------------------------------------------------------------------
(* Where the calls can be followed, the function called is the one named.  *)
LEMMA CalledIs ==
  ASSUME CalleeLive, outcome = "ok", NEW g \in DOMAIN ssaFns
  PROVE  Called(ssaFns[g].insts) = CalleeNames(ssaFns[g].insts)
<1>1. PICK insts : insts = ssaFns[g].insts
  OBVIOUS
<1>2. \A i \in DOMAIN insts :
        (IF insts[i].t = "callfn" THEN Deref(insts[i].fn).name ELSE << >>) = CalleeName(insts[i])
  <2>1. ASSUME NEW i \in DOMAIN insts, insts[i].t = "callfn"
        PROVE  Deref(insts[i].fn).name = prog.fns[insts[i].fn[2]].name
    <3>1. insts[i] \in Range(insts)
      BY DEF Range
    <3> QED BY <1>1, <2>1, <3>1 DEF CalleeLive
  <2> QED BY <2>1 DEF CalleeName
<1> QED BY <1>1, <1>2 DEF Called, CalleeNames

LEMMA MeansPreserved ==
  MeaningInv /\ VerdictInv /\ CalleeLive => MeaningPreserved
<1> SUFFICES ASSUME MeaningInv, VerdictInv, CalleeLive, outcome = "ok", NEW g \in 1 .. Len(prog.fns)
             PROVE  Compiled(g) = B!Meaning(g)
  BY DEF MeaningPreserved
<1>1. phase = "done" /\ FnsDo
  BY DEF MeaningInv
<1>2. FnDoes(g)
  BY <1>1 DEF FnsDo, Fns
<1>3. PICK fn : fn = ssaFns[g]
  OBVIOUS
<1>4. g \in DOMAIN ssaFns
  <2>1. ssaFns \in Seq(SSA_Fns) /\ Len(ssaFns) = Len(prog.fns)
    BY <1>1, InvParts DEF VerdictInv, Filled, IrOK, LoopsOK
  <2> QED BY <2>1, LenProperties
<1>5. Called(fn.insts) = CalleeNames(fn.insts)
  BY <1>3, <1>4, CalledIs
<1>6. PICK m : m = Machine(fn)
  OBVIOUS
<1>7. Compiled(g) = [calls |-> m.calls, ret |-> m.ret]
  BY <1>3, <1>5, <1>6 DEF Compiled, Machine
<1>8. B!Meaning(g) = [calls |-> m.calls, ret |-> m.ret]
  BY <1>2, <1>3, <1>6 DEF FnDoes, Does
<1> QED BY <1>7, <1>8

(* The translation keeps the meaning of every program it accepts: each     *)
(* function makes the calls its text makes, with the same arguments in the *)
(* same order, and returns the same value.  It does for the programs that  *)
(* prog->fns has room for from the start: in the others a call leads to    *)
(* where its function was before the vector was resized (generate_ir).     *)
THEOREM MeaningsKept ==
  ASSUME NamesApart
  PROVE  Spec /\ Separate(prog) /\ Unshared(prog)
           => [](Len(prog.fns) <= VEC_INIT_ALLOC => MeaningPreserved)
<1>1. Init /\ Separate(prog) /\ Unshared(prog) => VerdictInv /\ MeaningInv
  BY InitVerdict, InitMeans
<1>2. VerdictInv /\ MeaningInv /\ [Next]_vars => (VerdictInv /\ MeaningInv)'
  BY MeaningKept
<1>3. /\ VerdictInv /\ MeaningInv /\ (Len(prog.fns) <= VEC_INIT_ALLOC => CalleeLive)
      => (Len(prog.fns) <= VEC_INIT_ALLOC => MeaningPreserved)
  BY MeansPreserved
<1>4. Spec => [](Len(prog.fns) <= VEC_INIT_ALLOC => CalleeLive)
  BY CalleesLive
<1> QED BY <1>1, <1>2, <1>3, <1>4, PTL DEF Spec

===========================================================================
