---------------------------- MODULE TokenReader ----------------------------
(***************************************************************************)
(* What the parser relies on (lexer.h:83-86): a text is one sequence of    *)
(* tokens, lexer_next reads the next one and lexer_peek only shows it.     *)
(* Which token comes next is said here of the text and of the token before *)
(* it, by the longest spelling that fits, without any state of a lexer.    *)
(***************************************************************************)
EXTENDS Integers, Sequences, FiniteSetsExt

CONSTANTS
  Inputs,    \* the texts, as sequences of characters
  Letters,   \* characters isalpha accepts
  Digits     \* characters isdigit accepts

VARIABLES
  buf,       \* the text
  out,       \* the tokens read
  ret,       \* what the last call returned
  outcome    \* "running", or "diag" after an unexpected character

vars == <<buf, out, ret, outcome>>

(* The spellings that stand for one kind only.  The kinds of the last two   *)
(* are the code's.                                                         *)
Fixed ==
  { << <<"t","r","u","e">>, "TOK_TRUE">>, << <<"f","a","l","s","e">>, "TOK_FALSE">>,
    << <<"l","e","t">>, "TOK_LET">>, << <<"m","u","t">>, "TOK_MUT">>,
    << <<"r","e","t","u","r","n">>, "TOK_RETURN">>, << <<"b","o","o","l">>, "TOK_BOOL">>,
    << <<"u","8">>, "TOK_U8">>, << <<"u","1","6">>, "TOK_U16">>,
    << <<"u","3","2">>, "TOK_U32">>, << <<"u","6","4">>, "TOK_U64">>,
    << <<"i","8">>, "TOK_I8">>, << <<"i","1","6">>, "TOK_I16">>,
    << <<"i","3","2">>, "TOK_I32">>, << <<"i","6","4">>, "TOK_I64">>,
    << <<"+">>, "TOK_ADD">>, << <<"-">>, "TOK_SUB">>, << <<"*">>, "TOK_MUL">>,
    << <<"/">>, "TOK_DIV">>, << <<"=">>, "TOK_EQ">>, << <<"=","=">>, "TOK_DEQ">>,
    << <<">">>, "TOK_GR">>, << <<">","=">>, "TOK_GREQ">>,
    << <<"<">>, "TOK_LE">>, << <<"<","=">>, "TOK_LEEQ">>,
    << <<"(">>, "TOK_LPAREN">>, << <<")">>, "TOK_RPAREN">>,
    << <<"{">>, "TOK_LCURLY">>, << <<"}">>, "TOK_RCURLY">>,
    << <<"[">>, "TOK_LBRACK">>, << <<"]">>, "TOK_RBRACK">>,
    << <<":">>, "TOK_COLON">>, << <<",">>, "TOK_COMMA">>, << <<";">>, "TOK_NEWLINE">>,
    << <<"!">>, "TOK_NEQ">>, << <<"!","=">>, "TOK_NOT">> }

Sizes == { <<sign>> \o bits : sign \in {"i", "u"},
                              bits \in {<<"8">>, <<"1","6">>, <<"3","2">>, <<"6","4">>} }

Size == Len(buf)
Slice(i, j) == SubSeq(buf, i + 1, j)
Over(word, chars) == \A k \in DOMAIN word : word[k] \in chars

IsName(word) ==
  /\ word # << >> /\ word[1] \notin Digits
  /\ Over(word, Letters \cup Digits \cup {"_"})

(* The last lexeme of a text is never a literal with a suffix: the code    *)
(* wants a character behind it.                                            *)
IsLiteral(i, j, size) ==
  /\ size \in Sizes => j < Size
  /\ i < j - Len(size)
  /\ Over(Slice(i, j - Len(size)), Digits)
  /\ Slice(j - Len(size), j) = size

(* The text from i to j, one past its end, is a lexeme of that kind.       *)
Lexeme(i, j, t, size) ==
  \/ size = << >> /\ <<Slice(i, j), t>> \in Fixed
  \/ /\ size = << >> /\ t = "TOK_SYM" /\ IsName(Slice(i, j))
     /\ \A k \in Fixed : k[1] # Slice(i, j)
  \/ t = "TOK_INT" /\ IsLiteral(i, j, size)

Kinds == {k[2] : k \in Fixed} \cup {"TOK_SYM", "TOK_INT"}
IsLexeme(i, j) == \E t \in Kinds, size \in Sizes \cup {<< >>} : Lexeme(i, j, t, size)

Blank == {" ", "\n", "\t"}
Breaks(i, j) == {k \in i .. j - 1 : buf[k + 1] = "\n"}

Token(t, from, to, size) ==
  [t |-> t, from |-> from, to |-> to, line |-> 1 + Cardinality(Breaks(0, from)), size |-> size]

(* The kinds after which the end of a line ends a statement.               *)
EndsStatement ==
  {"TOK_INT", "TOK_SYM", "TOK_FALSE", "TOK_TRUE", "TOK_BOOL", "TOK_LPAREN", "TOK_RPAREN",
   "TOK_U8", "TOK_U16", "TOK_U32", "TOK_U64", "TOK_I8", "TOK_I16", "TOK_I32", "TOK_I64"}

(* The token that follows those read; none if the text goes on with a       *)
(* character that begins no lexeme.                                        *)
Coming ==
  LET here == IF out = << >> THEN 0 ELSE out[Len(out)].to
      from == Min({i \in here .. Size : i = Size \/ buf[i + 1] \notin Blank})
      ends == {j \in from + 1 .. Size : IsLexeme(from, j)}
  IN  IF Breaks(here, from) # {} /\ out # << >> /\ out[Len(out)].t \in EndsStatement
      THEN LET first == Min(Breaks(here, from)) + 1
           IN  {Token("TOK_NEWLINE", first, first, << >>)}
      ELSE IF from = Size
      THEN {Token("TOK_EOF", from, from, << >>)}
      ELSE { Token(k[1], from, k[2], k[3]) :
             k \in { l \in Kinds \X ends \X (Sizes \cup {<< >>}) :
                      l[2] = Max(ends) /\ Lexeme(from, l[2], l[1], l[3]) } }

Init == buf \in Inputs /\ out = << >> /\ ret = << >> /\ outcome = "running"

Peek == ret' \in Coming /\ UNCHANGED <<buf, out, outcome>>
Read == ret' \in Coming /\ out' = Append(out, ret') /\ UNCHANGED <<buf, outcome>>
Fail == Coming = {} /\ outcome' = "diag" /\ UNCHANGED <<buf, out, ret>>

Next == outcome = "running" /\ (Peek \/ Read \/ Fail)

Spec == Init /\ [][Next]_vars
=============================================================================
