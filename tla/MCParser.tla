------------------------------ MODULE MCParser ------------------------------
(***************************************************************************)
(* Short texts around fixed openings, and longer ones with one error.      *)
(***************************************************************************)
EXTENDS Parser

MCNames == {<<102>>, <<120>>}

F == [Token("TOK_SYM") EXCEPT !.name = <<102>>]
X == [Token("TOK_SYM") EXCEPT !.name = <<120>>]
One == [Token("TOK_INT") EXCEPT !.digits = <<1>>, !.type = Type("i64")]
Big == [Token("TOK_INT") EXCEPT !.digits = <<2, 5, 6>>, !.type = Type("u8")]
T(t) == Token("TOK_" \o t)

U8 == T("U8")   LP == T("LPAREN")   RP == T("RPAREN")   LC == T("LCURLY")   RC == T("RCURLY")
Comma == T("COMMA")   NL == T("NEWLINE")   Let == T("LET")   Return == T("RETURN")
Eq == T("EQ")   Colon == T("COLON")
Mul == T("MUL")   Add == T("ADD")   Less == T("LE")

(* f() { e; } for short sequences e, and chains of operators.              *)
Inside(e) == <<F, LP, RP, LC>> \o e \o <<NL, RC>>
Expressions ==
  BoundedSeq({X, One, LP, RP, Mul, Add, Less, Comma}, 4)
  \cup {<<X, a, One, b, X, c, F, LP, RP>> : a, b, c \in {Mul, T("DIV"), Add, T("SUB"), Less, T("DEQ")}}
  \cup {<<X, a, LP, X, b, One, RP, c, X>> : a, b, c \in {Mul, Add, Less}}

(* f() { b } and f() { b x; } for short sequences b.                       *)
Blocks ==
  {<<F, LP, RP, LC>> \o b \o end :
     b \in BoundedSeq({Let, X, Colon, U8, Eq, NL, Return, RC}, 4), end \in {<<RC>>, <<X, NL, RC>>}}

(* Functions from nothing, and behind f(.                                  *)
Headers ==
  BoundedSeq({F, LP, RP, U8, LC, RC}, 5)
  \cup {<<F, LP>> \o h \o <<RC>> : h \in BoundedSeq({X, U8, Comma, RP, LC, NL}, 4)}

(* f(x u8, f bool) u8 { let x: u8 = 1 * (x + 1); return f(x, 1 < x); }     *)
(* x() { mut x = 256u8; }, with one token removed, replaced or put in.     *)
Sentence ==
  <<F, LP, X, U8, Comma, F, T("BOOL"), RP, U8, LC,
    Let, X, Colon, U8, Eq, One, Mul, LP, X, Add, One, RP, NL,
    Return, F, LP, X, Comma, One, Less, X, RP, NL, RC,
    X, LP, RP, LC, T("MUT"), X, Eq, Big, NL, RC>>

Kinds ==
  {X, One, U8, LP, RP, LC, RC, Comma, NL, Let, Return, Eq, Colon, Mul, Add, Less,
   T("MUT"), T("NOT"), Token("unlexable")}

Edited ==
  LET n == Len(Sentence) IN
  {SubSeq(Sentence, 1, i) \o new \o SubSeq(Sentence, j, n) :
     new \in {<< >>} \cup {<<t>> : t \in Kinds},
     <<i, j>> \in {<<i, j>> \in (0 .. n) \X (1 .. n + 1) : j \in {i + 1, i + 2}}}

MCTexts == {Inside(e) : e \in Expressions} \cup Blocks \cup Headers \cup Edited
             \cup {SubSeq(Sentence, 1, i) : i \in 1 .. Len(Sentence)}

(* f() { d1u8; } for numbers of up to three digits.                        *)
Literals ==
  {Inside(<<[Token("TOK_INT") EXCEPT !.digits = digits, !.type = Type("u8")]>>) :
     digits \in UNION {[1 .. n -> {0, 1, 2, 5, 6}] : n \in 1 .. 3}}
=============================================================================
