------------------------------- MODULE Lexer -------------------------------
(***************************************************************************)
(* The lexer of lexer.c: one cursor over the mapped file, one token of     *)
(* lookahead, and newlines that become tokens where a statement can end.   *)
(* Offsets count from 0.  lex.start equals lex.end between two calls.      *)
(***************************************************************************)
EXTENDS Integers, Sequences, FiniteSets

CONSTANTS
  Inputs,    \* the files: sequences of characters
  Letters,   \* characters isalpha accepts
  Digits     \* characters isdigit accepts

Blank == {" ", "\n", "\t"}

VARIABLES
  buf, end, line,  \* lex.buf, with lex.sz its length; lex.end; lex.line
  prev,            \* lex.prev, the kind of the token fetched last
  peek, peekf,     \* lex.peek, << >> before it is set, and lex.peekf
  out,             \* the tokens lexer_next has returned
  ret,             \* what the last call returned, << >> before the first
  outcome          \* "running", or "diag" after an unexpected character

lex == <<end, line, prev>>
vars == <<buf, end, line, prev, peek, peekf, out, ret, outcome>>

sz == Len(buf)
At(i) == buf[i + 1]
Slice(i, j) == SubSeq(buf, i + 1, j)

(* lexer_init; lex.prev is static memory, and 0 is TOK_ADD. *)
lexer_init ==
  /\ buf \in Inputs
  /\ end = 0 /\ line = 1 /\ prev = "TOK_ADD"
  /\ peek = << >> /\ peekf = FALSE
  /\ out = << >> /\ ret = << >> /\ outcome = "running"

(* Where a loop that passes over these characters stops. *)
Past(i, chars) ==
  CHOOSE j \in i .. sz : /\ \A k \in i .. j - 1 : At(k) \in chars
                         /\ j < sz => At(j) \notin chars

EndsStatement ==
  {"TOK_INT", "TOK_SYM", "TOK_FALSE", "TOK_TRUE", "TOK_U8", "TOK_I8", "TOK_U16", "TOK_I16",
   "TOK_U32", "TOK_I32", "TOK_U64", "TOK_I64", "TOK_BOOL", "TOK_LPAREN", "TOK_RPAREN"}

(* Mutant: a closing parenthesis does not end a statement.                 *)
needs_newline_no_rparen == prev \in EndsStatement \ {"TOK_RPAREN"}

needs_newline == prev \in EndsStatement

Breaks(i, j) == {k \in i .. j - 1 : At(k) = "\n"}

(* skip_whitespace finds a newline that ends a statement ...               *)
FoundNewline == needs_newline /\ Breaks(end, Past(end, Blank)) # {}

(* ... and stops behind the first such newline, or behind all blanks.      *)
skip_whitespace ==
  IF FoundNewline
  THEN CHOOSE j \in end + 1 .. sz : At(j - 1) = "\n" /\ Breaks(end, j - 1) = {}
  ELSE Past(end, Blank)

(* make_token, with the line skip_whitespace has counted to, and the       *)
(* suffix that intlit_type stands for.                                     *)
Token(t, from, to, size) ==
  [t |-> t, from |-> from, to |-> to, line |-> line + Cardinality(Breaks(end, from)), size |-> size]

Keywords ==
  { <<"TOK_TRUE", <<"t","r","u","e">> >>, <<"TOK_RETURN", <<"r","e","t","u","r","n">> >>,
    <<"TOK_FALSE", <<"f","a","l","s","e">> >>, <<"TOK_BOOL", <<"b","o","o","l">> >>,
    <<"TOK_MUT", <<"m","u","t">> >>, <<"TOK_LET", <<"l","e","t">> >>,
    <<"TOK_U8", <<"u","8">> >>, <<"TOK_U16", <<"u","1","6">> >>,
    <<"TOK_U32", <<"u","3","2">> >>, <<"TOK_U64", <<"u","6","4">> >>,
    <<"TOK_I8", <<"i","8">> >>, <<"TOK_I16", <<"i","1","6">> >>,
    <<"TOK_I32", <<"i","3","2">> >>, <<"TOK_I64", <<"i","6","4">> >> }

(* The nested switch picks the one keyword that can match, match decides.  *)
pick_symbol_type(word) ==
  IF \E k \in Keywords : k[2] = word
  THEN (CHOOSE k \in Keywords : k[2] = word)[1]
  ELSE "TOK_SYM"

NameStart == Letters \cup {"_"}

make_symbol(from) ==
  LET to == Past(from + 1, NameStart \cup Digits)
  IN  Token(pick_symbol_type(Slice(from, to)), from, to, << >>)

IntSuffixes ==
  { <<"i","8">>, <<"u","8">>, <<"i","1","6">>, <<"u","1","6">>,
    <<"i","3","2">>, <<"u","3","2">>, <<"i","6","4">>, <<"u","6","4">> }

(* Suffixes match only with a character to spare behind them.              *)
next_matches(i, text) == i + Len(text) < sz /\ Slice(i, i + Len(text)) = text

(* At most one suffix matches, none being the beginning of another.        *)
make_int(from) ==
  LET digits == Past(from + 1, Digits)
      fits   == {text \in IntSuffixes : next_matches(digits, text)}
      suffix == IF fits = {} THEN << >> ELSE CHOOSE text \in fits : TRUE
  IN  Token("TOK_INT", from, digits + Len(suffix), suffix)

SingleCharacters ==
  { <<"+", "TOK_ADD">>, <<"-", "TOK_SUB">>, <<"*", "TOK_MUL">>, <<"/", "TOK_DIV">>,
    <<"(", "TOK_LPAREN">>, <<")", "TOK_RPAREN">>, <<"{", "TOK_LCURLY">>, <<"}", "TOK_RCURLY">>,
    <<"[", "TOK_LBRACK">>, <<"]", "TOK_RBRACK">>, <<";", "TOK_NEWLINE">>, <<":", "TOK_COLON">>,
    <<",", "TOK_COMMA">> }

(* A character, the kind with '=' behind it and the kind without.          *)
Comparing ==
  { <<"=", "TOK_DEQ", "TOK_EQ">>, <<">", "TOK_GREQ", "TOK_GR">>,
    <<"<", "TOK_LEEQ", "TOK_LE">>, <<"!", "TOK_NOT", "TOK_NEQ">> }

match_character(from, t1, t2) ==
  IF from + 1 < sz /\ At(from + 1) = "="
  THEN Token(t1, from, from + 2, << >>)
  ELSE Token(t2, from, from + 1, << >>)

ASSUME LexerAssumption ==
  /\ \A text \in Inputs : text \in Seq(STRING)
  /\ Letters \cap Digits = {}
  /\ \A c \in SingleCharacters \cup Comparing : c[1] \notin Letters \cup Digits
  /\ Blank \cap (Letters \cup Digits) = {} /\ "_" \notin Letters \cup Digits
  /\ \A k \in Keywords : /\ k[2][1] \in Letters
                         /\ \A i \in DOMAIN k[2] : k[2][i] \in Letters \cup Digits

(* The token lexer_fetch makes of the character at from, if it makes one.  *)
MakeAt(from, tok) ==
  \/ At(from) \in Digits /\ tok = make_int(from)
  \/ At(from) \in NameStart /\ tok = make_symbol(from)
  \/ \E c \in SingleCharacters : At(from) = c[1] /\ tok = Token(c[2], from, from + 1, << >>)
  \/ \E c \in Comparing : At(from) = c[1] /\ tok = match_character(from, c[2], c[3])

Unexpected(from) ==
  /\ from < sz /\ ~FoundNewline
  /\ At(from) \notin Digits \cup NameStart
  /\ \A c \in SingleCharacters \cup Comparing : At(from) # c[1]

(* lexer_fetch returns tok. *)
lexer_fetch(tok) ==
  LET from == skip_whitespace IN
  /\ \/ FoundNewline /\ tok = Token("TOK_NEWLINE", from, from, << >>)
     \/ ~FoundNewline /\ from = sz /\ tok = Token("TOK_EOF", from, from, << >>)
     \/ ~FoundNewline /\ from < sz /\ MakeAt(from, tok)
  /\ end' = tok.to
  /\ line' = tok.line

(* The parser may read the end of the file again: parse_block skips a       *)
(* token without a look, and the next one ends the process.                *)
EofsRead == 2
MayCall ==
  /\ outcome = "running"
  /\ Cardinality({i \in DOMAIN out : out[i].t = "TOK_EOF"}) < EofsRead

(* Mutant: the token is handed out and stays in the lookahead.             *)
NextPeeked_keeps ==
  /\ MayCall /\ peekf
  /\ ret' = peek /\ out' = Append(out, peek)
  /\ UNCHANGED <<buf, end, line, prev, peek, peekf, outcome>>

(* lexer_next with a token of lookahead ... *)
NextPeeked ==
  /\ MayCall /\ peekf
  /\ peekf' = FALSE
  /\ ret' = peek /\ out' = Append(out, peek)
  /\ UNCHANGED <<buf, end, line, prev, peek, outcome>>

(* ... and without.                                                        *)
NextFetched ==
  /\ MayCall /\ ~peekf
  /\ lexer_fetch(ret')
  /\ prev' = ret'.t /\ out' = Append(out, ret')
  /\ UNCHANGED <<buf, peek, peekf, outcome>>

(* lexer_peek for the second time ... *)
PeekAgain ==
  /\ MayCall /\ peekf
  /\ ret' = peek
  /\ UNCHANGED <<buf, end, line, prev, peek, peekf, out, outcome>>

(* Mutants: only lexer_next sets prev; the token is not kept.              *)
PeekFetched_no_prev ==
  /\ MayCall /\ ~peekf
  /\ lexer_fetch(ret')
  /\ peek' = ret' /\ peekf' = TRUE
  /\ UNCHANGED <<buf, prev, out, outcome>>
PeekFetched_dropped ==
  /\ MayCall /\ ~peekf
  /\ lexer_fetch(ret')
  /\ prev' = ret'.t /\ peekf' = TRUE
  /\ UNCHANGED <<buf, peek, out, outcome>>

(* ... and for the first.                                                  *)
PeekFetched ==
  /\ MayCall /\ ~peekf
  /\ lexer_fetch(ret')
  /\ prev' = ret'.t /\ peek' = ret' /\ peekf' = TRUE
  /\ UNCHANGED <<buf, out, outcome>>

(* Either call, at a character that begins no token: the diagnostic ends   *)
(* the process, so that lexer_fetch's call of itself is never reached.     *)
log_unexpected_char ==
  /\ MayCall /\ ~peekf
  /\ Unexpected(skip_whitespace)
  /\ outcome' = "diag"
  /\ UNCHANGED <<buf, lex, peek, peekf, out, ret>>

lexer_next == NextPeeked \/ NextFetched
lexer_peek == PeekAgain \/ PeekFetched

Next == lexer_next \/ lexer_peek \/ log_unexpected_char

Spec == lexer_init /\ [][Next]_vars

-----------------------------------------------------------------------------
(***************************************************************************)
(* Properties.                                                             *)
(***************************************************************************)

(* Every token fetched so far, in order.                                   *)
Fetched == IF peekf THEN Append(out, peek) ELSE out

Kinds ==
  {"TOK_INT", "TOK_SYM", "TOK_NEWLINE", "TOK_EOF"}
  \cup {k[1] : k \in Keywords} \cup {c[2] : c \in SingleCharacters}
  \cup {c[2] : c \in Comparing} \cup {c[3] : c \in Comparing}

Tokens ==
  [t : Kinds, from : 0 .. sz, to : 0 .. sz, line : Nat \ {0}, size : IntSuffixes \cup {<< >>}]

(* The cursor stays in the file (lexer.c:11-21) and a lookahead that is    *)
(* there is a token.                                                       *)
TypeOK ==
  /\ buf \in Inputs /\ end \in 0 .. sz /\ line \in Nat \ {0} /\ prev \in Kinds
  /\ peekf \in BOOLEAN /\ peek \in Tokens \cup {<< >>}
  /\ peekf => peek \in Tokens
  /\ out \in Seq(Tokens) /\ ret \in Tokens \cup {<< >>}
  /\ outcome \in {"running", "diag"}

(* The tokens tile the text up to the cursor (make_token, lexer.c:39-46):   *)
(* they come in order and do not overlap, what lies between two is blank,  *)
(* and there is no blank in a token.                                       *)
TokensTile ==
  LET toks == Fetched IN
  /\ end = IF toks = << >> THEN 0 ELSE toks[Len(toks)].to
  /\ \A i \in DOMAIN toks :
       LET last == IF i = 1 THEN 0 ELSE toks[i - 1].to IN
       /\ last <= toks[i].from /\ toks[i].from <= toks[i].to
       /\ \A k \in last .. toks[i].from - 1 : At(k) \in Blank
       /\ \A k \in toks[i].from .. toks[i].to - 1 : At(k) \notin Blank

(* Two expressions on different lines are never run together by the        *)
(* lookahead (skip_whitespace, lexer.c:78-97): a name, a literal or a      *)
(* closing parenthesis is followed on its own line, or by one newline      *)
(* token; and an inserted newline never follows another.                   *)
StatementsSeparated ==
  \A i \in 1 .. Len(Fetched) - 1 :
    LET a == Fetched[i]  b == Fetched[i + 1] IN
    /\ a.t \in {"TOK_SYM", "TOK_INT", "TOK_TRUE", "TOK_FALSE", "TOK_RPAREN"} /\ a.line < b.line
         => b.t = "TOK_NEWLINE" /\ b.from = b.to
    /\ b.t = "TOK_NEWLINE" /\ b.from = b.to => a.t # "TOK_NEWLINE"

(* The lexer is a reader of tokens (lexer.h:83-86): when it looked ahead    *)
(* leaves no trace in what it returns.                                     *)
Reader == INSTANCE TokenReader
ImplementsReader == Reader!Spec
=============================================================================
