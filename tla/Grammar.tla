------------------------------ MODULE Grammar ------------------------------
(***************************************************************************)
(* The language of the parser, without a parser: which token sequences are *)
(* programs, and the tree of each.  A phrase is defined by the tokens it   *)
(* spans, over all ways to cut the span; nothing is read in an order.      *)
(***************************************************************************)
EXTENDS Naturals, Sequences

VARIABLES
  text,     \* the tokens of the file
  outcome,  \* "running", "ok", or a diagnostic
  tree      \* the program's tree, once it is accepted

(* By level, weakest last: what binds two phrases of the level below.      *)
Binary ==
  << {<<"TOK_MUL", "*">>, <<"TOK_DIV", "/">>},
     {<<"TOK_ADD", "+">>, <<"TOK_SUB", "-">>},
     {<<"TOK_DEQ", "==">>, <<"TOK_NEQ", "!=">>, <<"TOK_GR", ">">>, <<"TOK_LE", "<">>,
      <<"TOK_GREQ", ">=">>, <<"TOK_LEEQ", "<=">>} >>

TypeNames ==
  {<<"TOK_U8", "u8">>, <<"TOK_U16", "u16">>, <<"TOK_U32", "u32">>, <<"TOK_U64", "u64">>,
   <<"TOK_I8", "i8">>, <<"TOK_I16", "i16">>, <<"TOK_I32", "i32">>, <<"TOK_I64", "i64">>,
   <<"TOK_BOOL", "bool">>}

Type(t) == [t |-> t]
Tree(t, name, op, parts) == [t |-> t, name |-> name, op |-> op, parts |-> parts]
Statement(t, name, type, value) == [t |-> t, name |-> name, type |-> type, value |-> value]

Is(w, i, t) == i \in 1 .. Len(w) /\ w[i].t = t
When(condition, S) == IF condition THEN S ELSE {}

(* The trees of the tokens i to j of w: as an expression of level 0 to 3,  *)
(* operators grouped to the left, or as the arguments of a call (level 4), *)
(* which may end in a comma.  The code makes an integer of the first digit *)
(* of a literal.                                                           *)
Phrases(w) ==
  LET phrase[l \in 0 .. 4, i \in 1 .. Len(w) + 1, j \in 0 .. Len(w)] ==
        CASE l = 0 ->
               When(i = j /\ Is(w, i, "TOK_INT"), {Tree("int", <<w[i].digits[1]>>, w[i].type.t, << >>)})
               \cup When(i = j /\ Is(w, i, "TOK_SYM"), {Tree("var", w[i].name, "", << >>)})
               \cup When(i < j /\ Is(w, i, "TOK_LPAREN") /\ Is(w, j, "TOK_RPAREN"),
                         phrase[3, i + 1, j - 1])
               \cup When(/\ i + 1 < j /\ Is(w, i, "TOK_SYM")
                         /\ Is(w, i + 1, "TOK_LPAREN") /\ Is(w, j, "TOK_RPAREN"),
                         {Tree("funcall", w[i].name, "", args) : args \in phrase[4, i + 2, j - 1]})
          [] l \in 1 .. 3 ->
               phrase[l - 1, i, j] \cup
               UNION {{Tree("binop", << >>, c[2][2], <<left, right>>) :
                         left \in phrase[l, i, c[1] - 1], right \in phrase[l - 1, c[1] + 1, j]} :
                      c \in {c \in (i + 1 .. j - 1) \X Binary[l] : Is(w, c[1], c[2][1])}}
          [] l = 4 ->
               IF i > j THEN {<< >>}
               ELSE {<<arg>> : arg \in phrase[3, i, j]} \cup
                    UNION {{<<arg>> \o rest : arg \in phrase[3, i, k - 1], rest \in phrase[4, k + 1, j]} :
                           k \in {k \in i + 1 .. j : Is(w, k, "TOK_COMMA")}}
  IN  phrase

TypesAt(w, i) == {Type(n[2]) : n \in {n \in TypeNames : Is(w, i, n[1])}}

(* A statement, without the newline that ends it.                          *)
Statements(w, i, j) ==
  LET values(k) == {<<e>> : e \in Phrases(w)[3, k, j]}
      let == (Is(w, i, "TOK_LET") \/ Is(w, i, "TOK_MUT")) /\ Is(w, i + 1, "TOK_SYM")
      typed == let /\ Is(w, i + 2, "TOK_COLON")
  IN  {Statement("expr", << >>, Type("null"), v) : v \in values(i)}
      \cup When(Is(w, i, "TOK_RETURN"),
                {Statement("return", << >>, Type("null"), v) :
                   v \in IF i = j THEN {<< >>} ELSE values(i + 1)})
      \cup When(let /\ Is(w, i + 2, "TOK_EQ") /\ i + 2 < j,
                {Statement("let", w[i + 1].name, Type("null"), v) : v \in values(i + 3)})
      \cup When(typed /\ j = i + 3,
                {Statement("let", w[i + 1].name, t, << >>) : t \in TypesAt(w, i + 3)})
      \cup When(typed /\ Is(w, i + 4, "TOK_EQ") /\ i + 4 < j,
                {Statement("let", w[i + 1].name, t, v) : t \in TypesAt(w, i + 3), v \in values(i + 5)})

(* A body is cut where a newline comes first: no statement spans one.      *)
Bodies(w) ==
  LET ends(i, k) == /\ Is(w, k, "TOK_NEWLINE")
                    /\ \A m \in i .. k - 1 : ~Is(w, m, "TOK_NEWLINE") /\ ~Is(w, m, "TOK_RCURLY")
      body[i \in 1 .. Len(w) + 1, j \in 0 .. Len(w)] ==
        IF i > j THEN {<< >>}
        ELSE UNION {{<<st>> \o rest : st \in Statements(w, i, k - 1), rest \in body[k + 1, j]} :
                    k \in {k \in i + 1 .. j : ends(i, k)}}
  IN  body

(* Parameters need no comma between them.                                  *)
ParamLists(w) ==
  LET params[i \in 1 .. Len(w) + 2, j \in 0 .. Len(w)] ==
        IF i > j THEN {<< >>}
        ELSE {<<[name |-> w[i].name, type |-> t]>> \o rest :
                t \in When(Is(w, i, "TOK_SYM") /\ i < j, TypesAt(w, i + 1)),
                rest \in IF Is(w, i + 2, "TOK_COMMA") /\ i + 2 <= j THEN params[i + 3, j] ELSE params[i + 2, j]}
  IN  params

(* One function.  The token behind a return type opens the block, whatever *)
(* it is; without a return type it is the '{'.                             *)
FunctionTrees(w, i, j) ==
  LET bodies(k) == When(Is(w, k, "TOK_LCURLY"), {<<Type("void"), k + 1>>})
                   \cup {<<t, k + 2>> : t \in TypesAt(w, k)}
      cuts == UNION {{<<k, b>> : b \in bodies(k + 1)} : k \in {k \in i + 2 .. j : Is(w, k, "TOK_RPAREN")}}
  IN  When(Is(w, i, "TOK_SYM") /\ Is(w, i + 1, "TOK_LPAREN") /\ Is(w, j, "TOK_RCURLY"),
           UNION {{[name |-> w[i].name, params |-> params, ret |-> c[2][1], stmts |-> stmts] :
                     params \in ParamLists(w)[i + 2, c[1] - 1], stmts \in Bodies(w)[c[2][2], j - 1]} :
                  c \in {c \in cuts : c[2][2] <= j}})

Programs(w) ==
  LET program[i \in 1 .. Len(w) + 1] ==
        IF i > Len(w) THEN {<< >>}
        ELSE UNION {{<<fn>> \o rest : fn \in FunctionTrees(w, i, j), rest \in program[j + 1]} :
                    j \in {j \in i .. Len(w) : FunctionTrees(w, i, j) # {}}}
  IN  When(\A i \in 1 .. Len(w) : ~Is(w, i, "unlexable"), program[1])

Diagnostics(w) ==
  {"expected_closing_paren", "expected_opening_paren", "expected_expression", "expected_type",
   "expected_name", "expected_newline", "expected_equals"}
  \cup When(\E i \in 1 .. Len(w) : Is(w, i, "unlexable"), {"unexpected_char"})

-----------------------------------------------------------------------------
(* The promise, for any text: it is accepted as the one program it is, or  *)
(* it is none and a diagnostic says so.                                    *)
Init == outcome = "running" /\ tree = << >>

Accept == outcome' = "ok" /\ Programs(text) = {tree'}
Reject == outcome' \in Diagnostics(text) /\ Programs(text) = {} /\ UNCHANGED tree

Decide == outcome = "running" /\ (Accept \/ Reject) /\ UNCHANGED text

Spec == Init /\ [][Decide]_<<text, outcome, tree>> /\ <>(outcome # "running")
=============================================================================
