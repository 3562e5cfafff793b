---------------------------- MODULE Lexer_proofs ----------------------------
(***************************************************************************)
(* For every set of files and every division of the characters into        *)
(* letters, digits and others: the cursor stays in the file, the tokens    *)
(* tile what it has passed, statements on different lines stay apart, and  *)
(* each token is the longest lexeme there, however the parser mixes the    *)
(* two calls.                                                              *)
(***************************************************************************)
EXTENDS Lexer, SequenceTheorems, FiniteSetTheorems, WellFoundedInduction, TLAPS

(* A set of numbers that is not empty has a least one.                     *)
LEMMA LeastNumber ==
  ASSUME NEW S \in SUBSET Nat, S # {}
  PROVE  \E least \in S : \A other \in S : least <= other
<1> DEFINE Less == OpToRel(<, Nat)
<1>1. \A a, b \in Nat : a < b => <<a, b>> \in Less
  BY DEF OpToRel
<1>2. IsWellFoundedOn(Less, Nat)
  BY NatLessThanWellFounded
<1> HIDE DEF Less
<1>3. PICK least \in S : \A other \in S : ~(<<other, least>> \in Less)
  BY <1>2, WFMin
<1>4. \A other \in S : ~(other < least)
  BY <1>1, <1>3
<1> QED
  BY <1>4

(* What is assumed of the files and the characters.                        *)
LEMMA Texts == \A text \in Inputs : text \in Seq(STRING)
BY LexerAssumption

LEMMA BlanksApart == \A c \in Blank : c \notin Letters /\ c \notin Digits
BY LexerAssumption

LEMMA BufIsText ==
  ASSUME TypeOK
  PROVE  buf \in Seq(STRING) /\ sz \in Nat /\ \A i \in 0 .. sz - 1 : At(i) \in STRING
BY Texts, ElementOfSeq, LenProperties DEF TypeOK, sz, At

(* A loop over characters stops in the text, behind all those it passes.   *)
LEMMA PastStops ==
  ASSUME TypeOK, NEW i \in 0 .. sz, NEW chars
  PROVE  /\ Past(i, chars) \in i .. sz
         /\ \A k \in i .. Past(i, chars) - 1 : At(k) \in chars
         /\ Past(i, chars) < sz => At(Past(i, chars)) \notin chars
<1> DEFINE Stop(j) == /\ \A k \in i .. j - 1 : At(k) \in chars
                      /\ j < sz => At(j) \notin chars
           stops == {j \in i .. sz : j < sz => At(j) \notin chars}
<1>1. sz \in Nat
  BY BufIsText
<1>2. stops \in SUBSET Nat /\ sz \in stops
  BY <1>1
<1>3. PICK j \in stops : \A k \in stops : j <= k
  BY <1>2, LeastNumber
<1>4. ASSUME NEW k \in i .. j - 1 PROVE At(k) \in chars
  BY <1>1, <1>3, <1>4
<1>5. j \in i .. sz /\ Stop(j)
  BY <1>3, <1>4
<1>6. Past(i, chars) = CHOOSE n \in i .. sz : Stop(n)
  BY DEF Past
<1> HIDE DEF Stop
<1>7. Past(i, chars) \in i .. sz /\ Stop(Past(i, chars))
  BY <1>5, <1>6
<1> QED
  BY <1>7 DEF Stop

(* skip_whitespace stops in the text and passes only blanks; without a     *)
(* newline to report it stops at the end or at a character that is none.   *)
LEMMA SkipStops ==
  ASSUME TypeOK
  PROVE  /\ skip_whitespace \in end .. sz
         /\ \A k \in end .. skip_whitespace - 1 : At(k) \in Blank
         /\ ~FoundNewline /\ skip_whitespace < sz => At(skip_whitespace) \notin Blank
         /\ FoundNewline => \E b \in Breaks(end, Past(end, Blank)) :
                             /\ \A c \in Breaks(end, Past(end, Blank)) : b <= c
                             /\ skip_whitespace = b + 1
<1>1. end \in 0 .. sz /\ sz \in Nat
  BY BufIsText DEF TypeOK
<1> DEFINE blanks == Past(end, Blank)
<1>2. /\ blanks \in end .. sz /\ \A k \in end .. blanks - 1 : At(k) \in Blank
      /\ blanks < sz => At(blanks) \notin Blank
  BY <1>1, PastStops
<1>3. CASE ~FoundNewline
  BY <1>2, <1>3 DEF skip_whitespace
<1>4. CASE FoundNewline
  <2> DEFINE breaks == Breaks(end, blanks)
             First(j) == At(j - 1) = "\n" /\ Breaks(end, j - 1) = {}
  <2>1. breaks \in SUBSET Nat /\ breaks # {}
    BY <1>1, <1>2, <1>4 DEF FoundNewline, Breaks
  <2>2. PICK b \in breaks : \A c \in breaks : b <= c
    BY <2>1, LeastNumber
  <2>3. b \in end .. blanks - 1 /\ At(b) = "\n"
    BY <2>2 DEF Breaks
  <2>4. b + 1 \in end + 1 .. sz /\ First(b + 1)
    BY <1>1, <1>2, <2>2, <2>3 DEF Breaks
  <2>5. skip_whitespace = CHOOSE j \in end + 1 .. sz : First(j)
    BY <1>4 DEF skip_whitespace
  <2>6. skip_whitespace \in end + 1 .. sz /\ First(skip_whitespace)
    <3> HIDE DEF First
    <3> QED BY <2>4, <2>5
  <2>7. skip_whitespace = b + 1
    <3> DEFINE k == skip_whitespace - 1
    <3>1. k \in end .. sz - 1 /\ At(k) = "\n" /\ Breaks(end, k) = {}
      BY <1>1, <2>6
    <3>2. Breaks(end, b) = {}
      BY <1>1, <1>2, <2>3, <2>4
    <3>3. ~(b < k)
      BY <1>1, <1>2, <2>3, <3>1 DEF Breaks
    <3>4. ~(k < b)
      BY <1>1, <1>2, <2>3, <3>1, <3>2 DEF Breaks
    <3> QED
      BY <1>1, <1>2, <2>3, <2>6, <3>1, <3>3, <3>4
  <2>8. skip_whitespace \in end .. sz /\ \A k \in end .. skip_whitespace - 1 : At(k) \in Blank
    BY <1>1, <1>2, <2>3, <2>7
  <2> QED
    BY <1>4, <2>2, <2>7, <2>8
<1> QED
  BY <1>3, <1>4

(* What make_token returns for a slice behind the cursor. *)
LEMMA TokenTyped ==
  ASSUME TypeOK, NEW t \in Kinds, NEW from \in end .. sz, NEW to \in from .. sz,
         NEW size \in IntSuffixes \cup {<< >>}
  PROVE  /\ Token(t, from, to, size) \in Tokens
         /\ Token(t, from, to, size).from = from /\ Token(t, from, to, size).to = to
<1>1. end \in 0 .. sz /\ sz \in Nat /\ line \in Nat \ {0}
  BY BufIsText DEF TypeOK
<1>2. Cardinality(Breaks(end, from)) \in Nat
  <2>1. IsFiniteSet(end .. from - 1)
    BY <1>1, FS_Interval
  <2>2. Breaks(end, from) \subseteq end .. from - 1
    BY DEF Breaks
  <2> QED
    BY <2>1, <2>2, FS_Subset, FS_CardinalityType
<1> QED
  BY <1>1, <1>2 DEF Token, Tokens

-----------------------------------------------------------------------------
(* A token that continues the tiling at the cursor. *)
Continues(tok) ==
  /\ tok \in Tokens
  /\ end <= tok.from /\ tok.from <= tok.to
  /\ \A k \in end .. tok.from - 1 : At(k) \in Blank
  /\ \A k \in tok.from .. tok.to - 1 : At(k) \notin Blank

(* A character and the run behind it, of characters that are not blank.    *)
LEMMA RunHasNoBlank ==
  ASSUME TypeOK, NEW from \in end .. sz - 1, NEW chars, chars \cap Blank = {},
         At(from) \in chars
  PROVE  /\ Past(from + 1, chars) \in from + 1 .. sz
         /\ \A k \in from .. Past(from + 1, chars) - 1 : At(k) \notin Blank
<1>1. end \in 0 .. sz /\ sz \in Nat /\ from + 1 \in 0 .. sz
  BY BufIsText DEF TypeOK
<1>2. /\ Past(from + 1, chars) \in from + 1 .. sz
      /\ \A k \in from + 1 .. Past(from + 1, chars) - 1 : At(k) \in chars
  BY <1>1, PastStops
<1> QED
  BY <1>1, <1>2

LEMMA SymbolContinues ==
  ASSUME TypeOK, NEW from \in end .. sz - 1, At(from) \in NameStart,
         \A k \in end .. from - 1 : At(k) \in Blank
  PROVE  Continues(make_symbol(from))
<1> DEFINE chars == NameStart \cup Digits
           to == Past(from + 1, chars)
           word == Slice(from, to)
<1>1. "_" \notin Blank
  BY DEF Blank
<1>2. chars \cap Blank = {}
  BY <1>1, BlanksApart DEF NameStart
<1>3. At(from) \in chars
  OBVIOUS
<1>4. pick_symbol_type(word) \in Kinds
  BY DEF pick_symbol_type, Kinds
<1>5. make_symbol(from) = Token(pick_symbol_type(word), from, to, << >>)
  BY DEF make_symbol
<1> HIDE DEF chars, word
<1>6. to \in from + 1 .. sz /\ \A k \in from .. to - 1 : At(k) \notin Blank
  BY <1>2, <1>3, RunHasNoBlank
<1> HIDE DEF to
<1>7. end \in 0 .. sz /\ sz \in Nat /\ from \in end .. sz
  BY BufIsText DEF TypeOK
<1>8. to \in from .. sz
  BY <1>6, <1>7
<1> QED
  BY <1>4, <1>5, <1>6, <1>7, <1>8, TokenTyped DEF Continues

LEMMA SuffixShape ==
  ASSUME NEW suffix \in IntSuffixes
  PROVE  /\ Len(suffix) \in {2, 3}
         /\ \A k \in 1 .. Len(suffix) : suffix[k] \notin Blank
<1> DEFINE chars == {"i", "u", "1", "2", "3", "4", "6", "8"}
<1>1. \/ \E a, b \in chars : suffix = <<a, b>>
      \/ \E a, b, c \in chars : suffix = <<a, b, c>>
  BY DEF IntSuffixes
<1>2. \A a \in chars : a \notin Blank
  BY DEF Blank
<1> HIDE DEF chars
<1> QED
  BY <1>1, <1>2

LEMMA IntContinues ==
  ASSUME TypeOK, NEW from \in end .. sz - 1, At(from) \in Digits,
         \A k \in end .. from - 1 : At(k) \in Blank
  PROVE  Continues(make_int(from))
<1> DEFINE digits == Past(from + 1, Digits)
           fits == {text \in IntSuffixes : next_matches(digits, text)}
           suffix == IF fits = {} THEN << >> ELSE CHOOSE text \in fits : TRUE
           to == digits + Len(suffix)
<1>1. end \in 0 .. sz /\ sz \in Nat /\ buf \in Seq(STRING)
  BY BufIsText DEF TypeOK
<1>2. digits \in from + 1 .. sz /\ \A k \in from + 1 .. digits - 1 : At(k) \in Digits
  BY <1>1, PastStops
<1>3. make_int(from) = Token("TOK_INT", from, to, suffix)
  BY DEF make_int
<1>4. CASE fits = {}
  <2>1. suffix = << >> /\ to = digits
    BY <1>2, <1>4
  <2>2. \A k \in from .. to - 1 : At(k) \notin Blank
    BY <1>1, <1>2, <2>1, BlanksApart
  <2>3. from \in end .. sz /\ to \in from .. sz
    BY <1>1, <1>2, <2>1
  <2> HIDE DEF to, suffix, fits, digits
  <2> QED
    BY <1>1, <1>3, <2>1, <2>2, <2>3, TokenTyped DEF Continues, Kinds
<1>5. CASE fits # {}
  <2>1. suffix \in IntSuffixes /\ next_matches(digits, suffix)
    BY <1>5
  <2> HIDE DEF suffix, fits
  <2>2. Len(suffix) \in {2, 3}
    BY <2>1, SuffixShape
  <2>3. \A k \in 1 .. Len(suffix) : suffix[k] \notin Blank
    BY <2>1, SuffixShape
  <2>4. digits + Len(suffix) < sz /\ Slice(digits, digits + Len(suffix)) = suffix
    BY <2>1 DEF next_matches
  <2> HIDE DEF digits
  <2>5. ASSUME NEW k \in digits .. to - 1 PROVE At(k) = suffix[k - digits + 1]
    <3> DEFINE n == k - digits + 1
    <3>1. n \in 1 .. Len(suffix) /\ k = digits + n - 1
      BY <1>1, <1>2, <2>2
    <3>2. SubSeq(buf, digits + 1, digits + Len(suffix))[n] = buf[digits + 1 + n - 1]
      BY <1>1, <1>2, <2>2, <2>4, <3>1, SubSeqProperties DEF sz
    <3> QED
      BY <1>1, <1>2, <2>4, <3>1, <3>2 DEF Slice, At
  <2>6. \A k \in from .. to - 1 : At(k) \notin Blank
    <3>1. \A k \in from .. digits - 1 : At(k) \in Digits
      BY <1>1, <1>2
    <3>2. \A k \in digits .. to - 1 : k - digits + 1 \in 1 .. Len(suffix)
      BY <1>1, <1>2, <2>2
    <3>3. \A k \in digits .. to - 1 : At(k) \notin Blank
      BY <2>3, <2>5, <3>2
    <3> QED
      BY <1>1, <1>2, <2>2, <3>1, <3>3, BlanksApart
  <2>7. from \in end .. sz /\ to \in from .. sz
    BY <1>1, <1>2, <2>2, <2>4
  <2> HIDE DEF to
  <2> QED
    BY <1>1, <1>3, <2>1, <2>6, <2>7, TokenTyped DEF Continues, Kinds
<1> QED
  BY <1>4, <1>5

LEMMA PunctuationContinues ==
  ASSUME TypeOK, NEW from \in end .. sz - 1, NEW tok,
         \A k \in end .. from - 1 : At(k) \in Blank,
         \/ \E c \in SingleCharacters : At(from) = c[1] /\ tok = Token(c[2], from, from + 1, << >>)
         \/ \E c \in Comparing : At(from) = c[1] /\ tok = match_character(from, c[2], c[3])
  PROVE  Continues(tok)
<1>1. end \in 0 .. sz /\ sz \in Nat /\ from \in end .. sz /\ from + 1 \in from .. sz
  BY BufIsText DEF TypeOK
<1>2. CASE \E c \in SingleCharacters :
             At(from) = c[1] /\ tok = Token(c[2], from, from + 1, << >>)
  <2>1. PICK c \in SingleCharacters :
          At(from) = c[1] /\ tok = Token(c[2], from, from + 1, << >>)
    BY <1>2
  <2>2. c[1] \notin Blank
    <3> DEFINE chars == {"+", "-", "*", "/", "(", ")", "{", "}", "[", "]", ";", ":", ","}
    <3>1. \E ch \in chars, t \in {d[2] : d \in SingleCharacters} : c = <<ch, t>>
      BY DEF SingleCharacters
    <3>2. \A ch \in chars : ch \notin Blank
      BY DEF Blank
    <3> HIDE DEF chars
    <3> QED BY <3>1, <3>2
  <2>3. c[2] \in Kinds
    BY DEF Kinds
  <2> QED
    BY <1>1, <2>1, <2>2, <2>3, TokenTyped DEF Continues
<1>3. CASE \E c \in Comparing :
             At(from) = c[1] /\ tok = match_character(from, c[2], c[3])
  <2>1. PICK c \in Comparing :
          At(from) = c[1] /\ tok = match_character(from, c[2], c[3])
    BY <1>3
  <2>2. c[1] \notin Blank /\ "=" \notin Blank
    <3>1. c[1] \in {"=", ">", "<", "!"}
      BY DEF Comparing
    <3> QED BY <3>1 DEF Blank
  <2>3. c[2] \in Kinds /\ c[3] \in Kinds
    BY DEF Kinds
  <2>4. CASE from + 1 < sz /\ At(from + 1) = "="
    <3>1. tok = Token(c[2], from, from + 2, << >>) /\ from + 2 \in from .. sz
      BY <1>1, <2>1, <2>4 DEF match_character
    <3> QED
      BY <1>1, <2>1, <2>2, <2>3, <2>4, <3>1, TokenTyped DEF Continues
  <2>5. CASE ~(from + 1 < sz /\ At(from + 1) = "=")
    <3>1. tok = Token(c[3], from, from + 1, << >>)
      BY <2>1, <2>5 DEF match_character
    <3> QED
      BY <1>1, <2>1, <2>2, <2>3, <3>1, TokenTyped DEF Continues
  <2> QED
    BY <2>4, <2>5
<1> QED
  BY <1>2, <1>3

LEMMA FetchContinues ==
  ASSUME TypeOK, NEW tok, lexer_fetch(tok)
  PROVE  Continues(tok) /\ end' = tok.to /\ line' = tok.line
<1> DEFINE from == skip_whitespace
<1>1. end \in 0 .. sz /\ sz \in Nat
  BY BufIsText DEF TypeOK
<1>2. /\ from \in end .. sz /\ \A k \in end .. from - 1 : At(k) \in Blank
      /\ ~FoundNewline /\ from < sz => At(from) \notin Blank
  BY SkipStops
<1>3. end' = tok.to /\ line' = tok.line
  BY DEF lexer_fetch
<1>4. Continues(tok)
  <2>1. ASSUME NEW t \in Kinds, tok = Token(t, from, from, << >>) PROVE Continues(tok)
    <3>1. tok \in Tokens /\ tok.from = from /\ tok.to = from
      BY <1>1, <1>2, <2>1, TokenTyped
    <3> QED BY <1>1, <1>2, <3>1 DEF Continues
  <2>2. CASE FoundNewline
    BY <2>1, <2>2 DEF lexer_fetch, Kinds
  <2>3. CASE ~FoundNewline /\ from = sz
    <3>1. "TOK_EOF" \in Kinds
      BY DEF Kinds
    <3>2. tok = Token("TOK_EOF", from, from, << >>)
      BY <1>1, <2>3 DEF lexer_fetch
    <3> QED BY <2>1, <3>1, <3>2
  <2>4. CASE ~FoundNewline /\ from # sz
    <3>1. from \in end .. sz - 1
      BY <1>1, <1>2, <2>4
    <3>2. MakeAt(from, tok)
      BY <2>4 DEF lexer_fetch
    <3> HIDE DEF from
    <3>3. CASE At(from) \in Digits /\ tok = make_int(from)
      BY <1>2, <3>1, <3>3, IntContinues
    <3>4. CASE At(from) \in NameStart /\ tok = make_symbol(from)
      BY <1>2, <3>1, <3>4, SymbolContinues
    <3>5. CASE \/ \E c \in SingleCharacters :
                    At(from) = c[1] /\ tok = Token(c[2], from, from + 1, << >>)
               \/ \E c \in Comparing :
                    At(from) = c[1] /\ tok = match_character(from, c[2], c[3])
      BY <1>2, <3>1, <3>5, PunctuationContinues
    <3> QED
      BY <3>2, <3>3, <3>4, <3>5 DEF MakeAt
  <2> QED
    BY <2>2, <2>3, <2>4
<1> QED
  BY <1>3, <1>4

-----------------------------------------------------------------------------
(* TokensTile, of any tokens and cursor.                                   *)
Tile(toks, cursor) ==
  /\ cursor = IF toks = << >> THEN 0 ELSE toks[Len(toks)].to
  /\ \A i \in 1 .. Len(toks) :
       LET last == IF i = 1 THEN 0 ELSE toks[i - 1].to IN
       /\ last <= toks[i].from /\ toks[i].from <= toks[i].to
       /\ \A k \in last .. toks[i].from - 1 : At(k) \in Blank
       /\ \A k \in toks[i].from .. toks[i].to - 1 : At(k) \notin Blank

LEMMA TileAppend ==
  ASSUME NEW toks \in Seq(Tokens), Tile(toks, end), NEW tok, Continues(tok)
  PROVE  Append(toks, tok) \in Seq(Tokens) /\ Tile(Append(toks, tok), tok.to)
<1> DEFINE more == Append(toks, tok)
           n == Len(toks)
<1>1. tok \in Tokens /\ n \in Nat
  BY LenProperties DEF Continues
<1>2. /\ more \in Seq(Tokens) /\ Len(more) = n + 1 /\ more # << >>
      /\ \A i \in 1 .. n : more[i] = toks[i]
      /\ more[n + 1] = tok
  BY <1>1, AppendProperties
<1>3. toks = << >> <=> n = 0
  BY EmptySeq
<1> HIDE DEF more
<1>4. ASSUME NEW i \in 1 .. n + 1
      PROVE  LET last == IF i = 1 THEN 0 ELSE more[i - 1].to IN
             /\ last <= more[i].from /\ more[i].from <= more[i].to
             /\ \A k \in last .. more[i].from - 1 : At(k) \in Blank
             /\ \A k \in more[i].from .. more[i].to - 1 : At(k) \notin Blank
  <2>1. CASE i \in 1 .. n
    <3>1. more[i] = toks[i] /\ (i # 1 => more[i - 1] = toks[i - 1])
      BY <1>1, <1>2, <2>1
    <3> HIDE DEF n
    <3> QED BY <2>1, <3>1 DEF Tile, n
  <2>2. CASE i = n + 1
    <3>1. more[i] = tok /\ end = IF i = 1 THEN 0 ELSE more[i - 1].to
      BY <1>1, <1>2, <1>3, <2>2 DEF Tile
    <3> QED BY <3>1 DEF Continues
  <2> QED
    BY <1>1, <2>1, <2>2
<1>5. tok.to = more[Len(more)].to
  BY <1>2
<1> QED
  BY <1>2, <1>4, <1>5 DEF Tile, more

(* The inductive invariant: what is read and what is looked ahead tile the *)
(* text together.                                                          *)
IInv == TypeOK /\ Tile(Fetched, end)

LEMMA IInvTiles == IInv => TokensTile
<1> SUFFICES ASSUME IInv PROVE TokensTile
  OBVIOUS
<1>1. Fetched \in Seq(Tokens)
  BY AppendProperties DEF IInv, TypeOK, Fetched
<1>2. DOMAIN Fetched = 1 .. Len(Fetched)
  BY <1>1, LenProperties
<1> QED
  BY <1>2 DEF IInv, Tile, TokensTile

LEMMA InitIInv == lexer_init => IInv
<1> SUFFICES ASSUME lexer_init PROVE IInv
  OBVIOUS
<1> USE DEF lexer_init
<1>1. sz \in Nat
  BY Texts, LenProperties DEF sz
<1>2. TypeOK
  <2>1. "TOK_ADD" \in Kinds
    BY DEF Kinds, SingleCharacters
  <2>2. out \in Seq(Tokens)
    BY EmptySeq
  <2>3. end \in 0 .. sz /\ line \in Nat \ {0}
    BY <1>1
  <2>4. outcome \in {"running", "diag"} /\ peekf \in BOOLEAN /\ ~peekf
    OBVIOUS
  <2>5. peek \in Tokens \cup {<< >>} /\ ret \in Tokens \cup {<< >>}
    OBVIOUS
  <2>6. buf \in Inputs /\ prev \in Kinds
    BY <2>1
  <2> QED BY <2>2, <2>3, <2>4, <2>5, <2>6 DEF TypeOK
<1>3. Fetched = << >>
  BY DEF Fetched
<1>4. Tile(<< >>, end)
  BY EmptySeq DEF Tile
<1> QED
  BY <1>2, <1>3, <1>4 DEF IInv

(* After any fetch, wherever the token goes. *)
LEMMA FetchTyped ==
  ASSUME TypeOK, NEW tok, lexer_fetch(tok), UNCHANGED buf
  PROVE  /\ tok \in Tokens /\ Tokens' = Tokens /\ sz' = sz /\ tok.t \in Kinds
         /\ end' \in 0 .. sz' /\ line' \in Nat \ {0}
<1>1. Continues(tok) /\ end' = tok.to /\ line' = tok.line
  BY FetchContinues
<1>2. tok \in Tokens
  BY <1>1 DEF Continues
<1>3. sz' = sz /\ Tokens' = Tokens
  BY DEF sz, Tokens
<1> QED
  BY <1>1, <1>2, <1>3 DEF Tokens

LEMMA NextFetchedStays == IInv /\ NextFetched => IInv'
<1> SUFFICES ASSUME IInv, NextFetched PROVE IInv'
  OBVIOUS
<1> USE DEF NextFetched
<1>1. PICK tok : tok = ret'
  OBVIOUS
<1>2. Continues(tok) /\ end' = tok.to
  BY <1>1, FetchContinues DEF IInv
<1>3. /\ tok \in Tokens /\ Tokens' = Tokens /\ sz' = sz /\ tok.t \in Kinds
      /\ end' \in 0 .. sz' /\ line' \in Nat \ {0}
  BY <1>1, FetchTyped DEF IInv
<1>4. Fetched = out /\ Fetched' = Append(out, tok) /\ out \in Seq(Tokens)
  BY <1>1 DEF IInv, TypeOK, Fetched
<1>5. Append(out, tok) \in Seq(Tokens) /\ Tile(Append(out, tok), end')
  BY <1>2, <1>4, TileAppend DEF IInv
<1>6. TypeOK'
  BY <1>1, <1>3, <1>5 DEF IInv, TypeOK
<1>7. Tile(Fetched, end)'
  BY <1>4, <1>5 DEF Tile, At
<1> QED
  BY <1>6, <1>7 DEF IInv

LEMMA PeekFetchedStays == IInv /\ PeekFetched => IInv'
<1> SUFFICES ASSUME IInv, PeekFetched PROVE IInv'
  OBVIOUS
<1> USE DEF PeekFetched
<1>1. PICK tok : tok = ret'
  OBVIOUS
<1>2. Continues(tok) /\ end' = tok.to
  BY <1>1, FetchContinues DEF IInv
<1>3. /\ tok \in Tokens /\ Tokens' = Tokens /\ sz' = sz /\ tok.t \in Kinds
      /\ end' \in 0 .. sz' /\ line' \in Nat \ {0}
  BY <1>1, FetchTyped DEF IInv
<1>4. Fetched = out /\ Fetched' = Append(out, tok) /\ out \in Seq(Tokens)
  BY <1>1 DEF IInv, TypeOK, Fetched
<1>5. Append(out, tok) \in Seq(Tokens) /\ Tile(Append(out, tok), end')
  BY <1>2, <1>4, TileAppend DEF IInv
<1>6. TypeOK'
  BY <1>1, <1>3, <1>4 DEF IInv, TypeOK
<1>7. Tile(Fetched, end)'
  BY <1>4, <1>5 DEF Tile, At
<1> QED
  BY <1>6, <1>7 DEF IInv

(* The calls that fetch nothing leave the fetched tokens as they are.      *)
LEMMA LookaheadStays ==
  IInv /\ (NextPeeked \/ PeekAgain \/ log_unexpected_char \/ UNCHANGED vars) => IInv'
<1> SUFFICES ASSUME IInv,
                    NextPeeked \/ PeekAgain \/ log_unexpected_char \/ UNCHANGED vars
             PROVE  IInv'
  OBVIOUS
<1>1. buf' = buf /\ end' = end /\ line' = line /\ prev' = prev /\ peek' = peek
  BY DEF NextPeeked, PeekAgain, log_unexpected_char, vars, lex
<1>2. Tokens' = Tokens /\ sz' = sz
  BY <1>1 DEF Tokens, sz
<1>3. TypeOK' /\ Fetched' = Fetched
  <2>1. CASE NextPeeked
    <3>1. peek \in Tokens /\ out \in Seq(Tokens)
      BY <2>1 DEF IInv, TypeOK, NextPeeked
    <3>2. Append(out, peek) \in Seq(Tokens)
      BY <3>1, AppendProperties
    <3> QED BY <1>1, <1>2, <2>1, <3>1, <3>2 DEF IInv, TypeOK, Fetched, NextPeeked
  <2>2. CASE PeekAgain
    BY <1>1, <1>2, <2>2 DEF IInv, TypeOK, Fetched, PeekAgain
  <2>3. CASE log_unexpected_char
    BY <1>1, <1>2, <2>3 DEF IInv, TypeOK, Fetched, log_unexpected_char
  <2>4. CASE UNCHANGED vars
    BY <1>1, <1>2, <2>4 DEF IInv, TypeOK, Fetched, vars
  <2> QED
    BY <2>1, <2>2, <2>3, <2>4
<1>4. Tile(Fetched, end)'
  BY <1>1, <1>3 DEF IInv, Tile, At
<1> QED
  BY <1>3, <1>4 DEF IInv

LEMMA NextIInv == IInv /\ [Next]_vars => IInv'
BY NextFetchedStays, PeekFetchedStays, LookaheadStays DEF Next, lexer_next, lexer_peek

(* The cursor stays in the file and every token the parser gets is a slice *)
(* of it (lexer_next and lexer_peek, lexer.c:292-313).                     *)
THEOREM LexerTyped == Spec => []TypeOK
<1>1. IInv => TypeOK
  BY DEF IInv
<1> QED
  BY <1>1, InitIInv, NextIInv, PTL DEF Spec

(* No character but blanks is lost between two tokens and none is read     *)
(* twice, whichever way the parser looks ahead (lexer.c:39-46, 78-97).     *)
THEOREM TextTiled == Spec => []TokensTile
BY IInvTiles, InitIInv, NextIInv, PTL DEF Spec

-----------------------------------------------------------------------------
(* Statements on different lines.                                          *)
Ending == {"TOK_SYM", "TOK_INT", "TOK_TRUE", "TOK_FALSE", "TOK_RPAREN"}
Inserted(tok) == tok.t = "TOK_NEWLINE" /\ tok.from = tok.to
Apart(a, b) ==
  /\ a.t \in Ending /\ a.line < b.line => Inserted(b)
  /\ Inserted(b) => a.t # "TOK_NEWLINE"

(* A token made of characters has some, and the line of its first.         *)
LEMMA MadeHasText ==
  ASSUME TypeOK, NEW from \in end .. sz - 1, NEW tok, MakeAt(from, tok)
  PROVE  /\ tok.from = from /\ from < tok.to
         /\ tok.line = line + Cardinality(Breaks(end, from))
<1>1. end \in 0 .. sz /\ sz \in Nat /\ from + 1 \in 0 .. sz /\ from \in Nat
  BY BufIsText DEF TypeOK
<1>2. ASSUME NEW t, NEW to \in from + 1 .. sz + 2, NEW size, tok = Token(t, from, to, size)
      PROVE  /\ tok.from = from /\ from < tok.to
             /\ tok.line = line + Cardinality(Breaks(end, from))
  BY <1>1, <1>2 DEF Token
<1>3. CASE tok = make_int(from)
  <2>1. Past(from + 1, Digits) \in from + 1 .. sz
    BY <1>1, PastStops
  <2>2. PICK suffix : tok = Token("TOK_INT", from, Past(from + 1, Digits) + Len(suffix), suffix)
                      /\ Len(suffix) \in 0 .. 3
    <3> DEFINE digits == Past(from + 1, Digits)
               fits   == {text \in IntSuffixes : next_matches(digits, text)}
               suffix == IF fits = {} THEN << >> ELSE CHOOSE text \in fits : TRUE
    <3>1. tok = Token("TOK_INT", from, digits + Len(suffix), suffix)
      BY <1>3 DEF make_int
    <3>2. suffix = << >> \/ suffix \in IntSuffixes
      OBVIOUS
    <3>3. Len(suffix) \in 0 .. 3
      BY <3>2, SuffixShape
    <3> QED BY <3>1, <3>3
  <2> QED BY <1>1, <2>1, <2>2 DEF Token
<1>4. CASE tok = make_symbol(from)
  <2>1. Past(from + 1, NameStart \cup Digits) \in from + 1 .. sz
    BY <1>1, PastStops
  <2>2. tok = Token(pick_symbol_type(Slice(from, Past(from + 1, NameStart \cup Digits))),
                    from, Past(from + 1, NameStart \cup Digits), << >>)
    BY <1>4 DEF make_symbol
  <2> QED BY <1>1, <2>1, <2>2 DEF Token
<1>5. CASE \E c \in SingleCharacters : tok = Token(c[2], from, from + 1, << >>)
  BY <1>1, <1>2, <1>5
<1>6. CASE \E c \in Comparing : tok = match_character(from, c[2], c[3])
  BY <1>1, <1>2, <1>6 DEF match_character
<1> QED
  BY <1>3, <1>4, <1>5, <1>6 DEF MakeAt

(* What a fetch returns is apart from what was fetched last.               *)
LEMMA FetchApart ==
  ASSUME TypeOK, NEW tok, lexer_fetch(tok)
  PROVE  /\ prev \in Ending /\ line < tok.line => Inserted(tok)
         /\ Inserted(tok) => prev # "TOK_NEWLINE"
<1> DEFINE from == skip_whitespace
<1>1. end \in 0 .. sz /\ sz \in Nat /\ from \in end .. sz /\ line \in Nat
  BY BufIsText, SkipStops DEF TypeOK
<1>2. CASE FoundNewline
  <2>1. tok = Token("TOK_NEWLINE", from, from, << >>)
    BY <1>2 DEF lexer_fetch
  <2>2. Inserted(tok)
    BY <2>1 DEF Inserted, Token
  <2>3. prev # "TOK_NEWLINE"
    BY <1>2 DEF FoundNewline, needs_newline, EndsStatement
  <2> QED BY <2>2, <2>3
<1>3. CASE ~FoundNewline
  <2>1. /\ ~Inserted(tok)
        /\ tok.line = line + Cardinality(Breaks(end, from))
    <3>1. CASE from = sz
      <4>1. tok = Token("TOK_EOF", from, from, << >>)
        BY <1>1, <1>3, <3>1 DEF lexer_fetch
      <4> QED BY <4>1 DEF Inserted, Token
    <3>2. CASE from # sz
      <4>1. MakeAt(from, tok) /\ from \in end .. sz - 1
        BY <1>1, <1>3, <3>2 DEF lexer_fetch
      <4> HIDE DEF from
      <4>2. /\ tok.from = from /\ from < tok.to
            /\ tok.line = line + Cardinality(Breaks(end, from))
        BY <4>1, MadeHasText
      <4> QED BY <1>1, <4>2 DEF Inserted
    <3> QED BY <3>1, <3>2
  <2>2. prev \in Ending => tok.line = line
    <3> SUFFICES ASSUME prev \in Ending PROVE tok.line = line
      OBVIOUS
    <3>1. Breaks(end, from) = {}
      BY <1>3 DEF FoundNewline, needs_newline, EndsStatement, Ending, skip_whitespace
    <3>2. Cardinality(Breaks(end, from)) = 0
      BY <3>1, FS_EmptySet
    <3> QED BY <1>1, <2>1, <3>2
  <2> QED BY <1>1, <2>1, <2>2
<1> QED
  BY <1>2, <1>3

(* lex.prev and lex.line are those of the token fetched last.              *)
LastKept(toks) ==
  toks # << >> => toks[Len(toks)].t = prev /\ toks[Len(toks)].line = line

AllApart(toks) == \A i \in 1 .. Len(toks) - 1 : Apart(toks[i], toks[i + 1])

SInv == IInv /\ LastKept(Fetched) /\ AllApart(Fetched)

LEMMA ApartAppend ==
  ASSUME NEW toks \in Seq(Tokens), LastKept(toks), AllApart(toks), NEW tok \in Tokens,
         prev \in Ending /\ line < tok.line => Inserted(tok),
         Inserted(tok) => prev # "TOK_NEWLINE"
  PROVE  AllApart(Append(toks, tok))
<1> DEFINE more == Append(toks, tok)
           n == Len(toks)
<1>1. n \in Nat
  BY LenProperties
<1>2. /\ more \in Seq(Tokens) /\ Len(more) = n + 1
      /\ \A i \in 1 .. n : more[i] = toks[i]
      /\ more[n + 1] = tok
  BY <1>1, AppendProperties
<1>3. toks = << >> <=> n = 0
  BY EmptySeq
<1> HIDE DEF more
<1>4. ASSUME NEW i \in 1 .. n PROVE Apart(more[i], more[i + 1])
  <2>1. CASE i # n
    <3>1. more[i] = toks[i] /\ more[i + 1] = toks[i + 1] /\ i \in 1 .. n - 1
      BY <1>1, <1>2, <2>1
    <3> QED BY <3>1 DEF AllApart
  <2>2. CASE i = n
    <3>1. more[i] = toks[n] /\ more[i + 1] = tok /\ toks[n].t = prev /\ toks[n].line = line
      BY <1>1, <1>2, <1>3, <2>2 DEF LastKept
    <3> QED BY <3>1 DEF Apart
  <2> QED BY <2>1, <2>2
<1> QED
  BY <1>1, <1>2, <1>4 DEF AllApart, more

LEMMA SeparatedStays == SInv /\ [Next]_vars => SInv'
<1> SUFFICES ASSUME SInv, [Next]_vars PROVE SInv'
  OBVIOUS
<1>1. IInv'
  BY NextIInv DEF SInv
<1>2. CASE UNCHANGED <<prev, line>> /\ Fetched' = Fetched
  BY <1>1, <1>2 DEF SInv, LastKept, AllApart
<1>3. ASSUME NEW tok, lexer_fetch(tok), prev' = tok.t, UNCHANGED buf,
             Fetched' = Append(Fetched, tok)
      PROVE  SInv'
  <2>1. Fetched \in Seq(Tokens)
    BY AppendProperties DEF SInv, IInv, TypeOK, Fetched
  <2>2. tok \in Tokens /\ line' = tok.line
    BY <1>3, FetchTyped, FetchContinues DEF SInv, IInv
  <2>3. AllApart(Append(Fetched, tok))
    BY <1>3, <2>1, <2>2, FetchApart, ApartAppend DEF SInv, IInv
  <2>4. LET more == Append(Fetched, tok) IN more[Len(more)] = tok
    BY <2>1, <2>2, AppendProperties
  <2>5. LastKept(Fetched)'
    BY <1>3, <2>2, <2>4 DEF LastKept
  <2>6. AllApart(Fetched)'
    BY <1>3, <2>3 DEF AllApart
  <2> QED BY <1>1, <2>5, <2>6 DEF SInv
<1>4. CASE NextFetched
  <2>1. Fetched' = Append(Fetched, ret')
    BY <1>4 DEF NextFetched, Fetched
  <2> QED BY <1>3, <1>4, <2>1 DEF NextFetched
<1>5. CASE PeekFetched
  <2>1. Fetched' = Append(Fetched, ret')
    BY <1>5 DEF PeekFetched, Fetched
  <2> QED BY <1>3, <1>5, <2>1 DEF PeekFetched
<1>6. CASE NextPeeked
  BY <1>2, <1>6 DEF NextPeeked, Fetched
<1>7. CASE PeekAgain \/ log_unexpected_char \/ UNCHANGED vars
  BY <1>2, <1>7 DEF PeekAgain, log_unexpected_char, vars, lex, Fetched
<1> QED
  BY <1>4, <1>5, <1>6, <1>7 DEF Next, lexer_next, lexer_peek

(* In every file and whichever way the parser looks ahead (lexer.c:78-97,  *)
(* 292-313): an expression's last token is followed on its own line or by  *)
(* the newline token that ends the statement, and only by one.             *)
THEOREM NewlinesSeparate == Spec => []StatementsSeparated
<1>1. lexer_init => SInv
  <2> SUFFICES ASSUME lexer_init PROVE SInv
    OBVIOUS
  <2>1. Fetched = << >>
    BY DEF lexer_init, Fetched
  <2>2. LastKept(<< >>) /\ AllApart(<< >>)
    BY EmptySeq DEF LastKept, AllApart
  <2> QED BY <2>1, <2>2, InitIInv DEF SInv
<1>2. SInv => StatementsSeparated
  BY DEF SInv, AllApart, Apart, Inserted, Ending, StatementsSeparated
<1> QED
  BY <1>1, <1>2, SeparatedStays, PTL DEF Spec

-----------------------------------------------------------------------------
(***************************************************************************)
(* The lexer is a reader of tokens: what lexer_fetch makes of the text is  *)
(* the longest lexeme there.                                               *)
(***************************************************************************)

(* Counting is the same operator, whichever module it is reached through.  *)
LEMMA ReaderCounts ==
  ASSUME NEW S
  PROVE  Reader!Cardinality(S) = Cardinality(S)
BY DEF Reader!Cardinality, Cardinality

LEMMA ReaderLeast ==
  ASSUME NEW S, S \subseteq Int, NEW m \in S, \A x \in S : m <= x
  PROVE  Reader!Min(S) = m
<1> DEFINE Bound(x) == \A y \in S : x <= y
<1>1. Bound(m)
  OBVIOUS
<1>2. Reader!Min(S) = CHOOSE x \in S : Bound(x)
  BY DEF Reader!Min
<1> HIDE DEF Bound
<1>3. Reader!Min(S) \in S /\ Bound(Reader!Min(S))
  BY <1>1, <1>2
<1>4. PICK n \in S : n = Reader!Min(S) /\ Bound(n)
  BY <1>3
<1>5. m \in Int /\ n \in Int /\ n <= m /\ m <= n
  BY <1>1, <1>4 DEF Bound
<1> QED
  BY <1>4, <1>5

LEMMA ReaderGreatest ==
  ASSUME NEW S, S \subseteq Int, NEW m \in S, \A x \in S : x <= m
  PROVE  Reader!Max(S) = m
<1> DEFINE Bound(x) == \A y \in S : x >= y
<1>1. Bound(m)
  OBVIOUS
<1>2. Reader!Max(S) = CHOOSE x \in S : Bound(x)
  BY DEF Reader!Max
<1> HIDE DEF Bound
<1>3. Reader!Max(S) \in S /\ Bound(Reader!Max(S))
  BY <1>1, <1>2
<1>4. PICK n \in S : n = Reader!Max(S) /\ Bound(n)
  BY <1>3
<1>5. m \in Int /\ n \in Int /\ n >= m /\ m >= n
  BY <1>1, <1>4 DEF Bound
<1> QED
  BY <1>4, <1>5

-----------------------------------------------------------------------------
(* The tables of spellings.                                                *)

LEMMA KeywordsFixed ==
  ASSUME NEW k \in Keywords
  PROVE  <<k[2], k[1]>> \in Reader!Fixed
<1> DEFINE IsFixed(word, t) == <<word, t>> \in Reader!Fixed
<1>1. /\ IsFixed(<<"t","r","u","e">>, "TOK_TRUE")
      /\ IsFixed(<<"r","e","t","u","r","n">>, "TOK_RETURN")
      /\ IsFixed(<<"f","a","l","s","e">>, "TOK_FALSE")
      /\ IsFixed(<<"b","o","o","l">>, "TOK_BOOL")
      /\ IsFixed(<<"m","u","t">>, "TOK_MUT")
      /\ IsFixed(<<"l","e","t">>, "TOK_LET")
      /\ IsFixed(<<"u","8">>, "TOK_U8")
      /\ IsFixed(<<"u","1","6">>, "TOK_U16")
      /\ IsFixed(<<"u","3","2">>, "TOK_U32")
      /\ IsFixed(<<"u","6","4">>, "TOK_U64")
      /\ IsFixed(<<"i","8">>, "TOK_I8")
      /\ IsFixed(<<"i","1","6">>, "TOK_I16")
      /\ IsFixed(<<"i","3","2">>, "TOK_I32")
      /\ IsFixed(<<"i","6","4">>, "TOK_I64")
  BY SMT DEF Reader!Fixed
<1>2. \/ k = <<"TOK_TRUE", <<"t","r","u","e">> >>
      \/ k = <<"TOK_RETURN", <<"r","e","t","u","r","n">> >>
      \/ k = <<"TOK_FALSE", <<"f","a","l","s","e">> >>
      \/ k = <<"TOK_BOOL", <<"b","o","o","l">> >>
      \/ k = <<"TOK_MUT", <<"m","u","t">> >>
      \/ k = <<"TOK_LET", <<"l","e","t">> >>
      \/ k = <<"TOK_U8", <<"u","8">> >>
      \/ k = <<"TOK_U16", <<"u","1","6">> >>
      \/ k = <<"TOK_U32", <<"u","3","2">> >>
      \/ k = <<"TOK_U64", <<"u","6","4">> >>
      \/ k = <<"TOK_I8", <<"i","8">> >>
      \/ k = <<"TOK_I16", <<"i","1","6">> >>
      \/ k = <<"TOK_I32", <<"i","3","2">> >>
      \/ k = <<"TOK_I64", <<"i","6","4">> >>
  BY Zenon DEF Keywords
<1> HIDE DEF IsFixed
<1>3. ASSUME NEW word, NEW t, k = <<t, word>>, IsFixed(word, t)
      PROVE  IsFixed(k[2], k[1])
  BY <1>3
<1>4. IsFixed(k[2], k[1])
  BY <1>1, <1>2, <1>3, Zenon
<1> QED
  BY <1>4 DEF IsFixed

LEMMA SinglesFixed ==
  ASSUME NEW c \in SingleCharacters
  PROVE  << <<c[1]>>, c[2] >> \in Reader!Fixed
<1> DEFINE IsFixed(char, t) == << <<char>>, t>> \in Reader!Fixed
<1>1. /\ IsFixed("+", "TOK_ADD") /\ IsFixed("-", "TOK_SUB") /\ IsFixed("*", "TOK_MUL")
      /\ IsFixed("/", "TOK_DIV") /\ IsFixed("(", "TOK_LPAREN") /\ IsFixed(")", "TOK_RPAREN")
      /\ IsFixed("{", "TOK_LCURLY") /\ IsFixed("}", "TOK_RCURLY") /\ IsFixed("[", "TOK_LBRACK")
      /\ IsFixed("]", "TOK_RBRACK") /\ IsFixed(";", "TOK_NEWLINE") /\ IsFixed(":", "TOK_COLON")
      /\ IsFixed(",", "TOK_COMMA")
  BY SMT DEF Reader!Fixed
<1>2. \/ c = <<"+", "TOK_ADD">> \/ c = <<"-", "TOK_SUB">> \/ c = <<"*", "TOK_MUL">>
      \/ c = <<"/", "TOK_DIV">> \/ c = <<"(", "TOK_LPAREN">> \/ c = <<")", "TOK_RPAREN">>
      \/ c = <<"{", "TOK_LCURLY">> \/ c = <<"}", "TOK_RCURLY">> \/ c = <<"[", "TOK_LBRACK">>
      \/ c = <<"]", "TOK_RBRACK">> \/ c = <<";", "TOK_NEWLINE">> \/ c = <<":", "TOK_COLON">>
      \/ c = <<",", "TOK_COMMA">>
  BY Zenon DEF SingleCharacters
<1> HIDE DEF IsFixed
<1>3. ASSUME NEW char, NEW t, c = <<char, t>>, IsFixed(char, t)
      PROVE  IsFixed(c[1], c[2])
  BY <1>3
<1>4. IsFixed(c[1], c[2])
  BY <1>1, <1>2, <1>3, Zenon
<1> QED
  BY <1>4 DEF IsFixed

LEMMA ComparingFixed ==
  ASSUME NEW c \in Comparing
  PROVE  /\ << <<c[1]>>, c[3] >> \in Reader!Fixed
         /\ << <<c[1], "=">>, c[2] >> \in Reader!Fixed
<1>1. /\ << <<"=">>, "TOK_EQ">> \in Reader!Fixed /\ << <<"=", "=">>, "TOK_DEQ">> \in Reader!Fixed
      /\ << <<">">>, "TOK_GR">> \in Reader!Fixed /\ << <<">", "=">>, "TOK_GREQ">> \in Reader!Fixed
      /\ << <<"<">>, "TOK_LE">> \in Reader!Fixed /\ << <<"<", "=">>, "TOK_LEEQ">> \in Reader!Fixed
      /\ << <<"!">>, "TOK_NEQ">> \in Reader!Fixed /\ << <<"!", "=">>, "TOK_NOT">> \in Reader!Fixed
  BY SMT DEF Reader!Fixed
<1>2. \/ c = <<"=", "TOK_DEQ", "TOK_EQ">> \/ c = <<">", "TOK_GREQ", "TOK_GR">>
      \/ c = <<"<", "TOK_LEEQ", "TOK_LE">> \/ c = <<"!", "TOK_NOT", "TOK_NEQ">>
  BY Zenon DEF Comparing
<1> QED
  BY <1>1, <1>2

(* And there is no other spelling.                                         *)
Spells(k) ==
  \/ \E w \in Keywords : k = <<w[2], w[1]>>
  \/ \E c \in SingleCharacters : k = << <<c[1]>>, c[2] >>
  \/ \E c \in Comparing : k = << <<c[1]>>, c[3] >> \/ k = << <<c[1], "=">>, c[2] >>

LEMMA SpellsKeyword ==
  ASSUME NEW t, NEW word, <<t, word>> \in Keywords
  PROVE  Spells(<<word, t>>)
BY DEF Spells

LEMMA SpellsSingle ==
  ASSUME NEW char, NEW t, <<char, t>> \in SingleCharacters
  PROVE  Spells(<< <<char>>, t>>)
BY DEF Spells

LEMMA SpellsComparing ==
  ASSUME NEW char, NEW t1, NEW t2, <<char, t1, t2>> \in Comparing
  PROVE  Spells(<< <<char>>, t2>>) /\ Spells(<< <<char, "=">>, t1>>)
BY DEF Spells

LEMMA FixedIs ==
  ASSUME NEW k \in Reader!Fixed
  PROVE  Spells(k)
<1>1. /\ <<"TOK_TRUE", <<"t","r","u","e">> >> \in Keywords
      /\ <<"TOK_RETURN", <<"r","e","t","u","r","n">> >> \in Keywords
      /\ <<"TOK_FALSE", <<"f","a","l","s","e">> >> \in Keywords
      /\ <<"TOK_BOOL", <<"b","o","o","l">> >> \in Keywords
      /\ <<"TOK_MUT", <<"m","u","t">> >> \in Keywords
      /\ <<"TOK_LET", <<"l","e","t">> >> \in Keywords /\ <<"TOK_U8", <<"u","8">> >> \in Keywords
      /\ <<"TOK_U16", <<"u","1","6">> >> \in Keywords
      /\ <<"TOK_U32", <<"u","3","2">> >> \in Keywords
      /\ <<"TOK_U64", <<"u","6","4">> >> \in Keywords /\ <<"TOK_I8", <<"i","8">> >> \in Keywords
      /\ <<"TOK_I16", <<"i","1","6">> >> \in Keywords
      /\ <<"TOK_I32", <<"i","3","2">> >> \in Keywords
      /\ <<"TOK_I64", <<"i","6","4">> >> \in Keywords
  BY Zenon DEF Keywords
<1>2. /\ <<"+", "TOK_ADD">> \in SingleCharacters /\ <<"-", "TOK_SUB">> \in SingleCharacters
      /\ <<"*", "TOK_MUL">> \in SingleCharacters /\ <<"/", "TOK_DIV">> \in SingleCharacters
      /\ <<"(", "TOK_LPAREN">> \in SingleCharacters /\ <<")", "TOK_RPAREN">> \in SingleCharacters
      /\ <<"{", "TOK_LCURLY">> \in SingleCharacters /\ <<"}", "TOK_RCURLY">> \in SingleCharacters
      /\ <<"[", "TOK_LBRACK">> \in SingleCharacters /\ <<"]", "TOK_RBRACK">> \in SingleCharacters
      /\ <<";", "TOK_NEWLINE">> \in SingleCharacters /\ <<":", "TOK_COLON">> \in SingleCharacters
      /\ <<",", "TOK_COMMA">> \in SingleCharacters
  BY Zenon DEF SingleCharacters
<1>3. /\ <<"=", "TOK_DEQ", "TOK_EQ">> \in Comparing /\ <<">", "TOK_GREQ", "TOK_GR">> \in Comparing
      /\ <<"<", "TOK_LEEQ", "TOK_LE">> \in Comparing
      /\ <<"!", "TOK_NOT", "TOK_NEQ">> \in Comparing
  BY Zenon DEF Comparing
<1>4. /\ Spells(<< <<"t","r","u","e">>, "TOK_TRUE">>)
      /\ Spells(<< <<"r","e","t","u","r","n">>, "TOK_RETURN">>)
      /\ Spells(<< <<"f","a","l","s","e">>, "TOK_FALSE">>)
      /\ Spells(<< <<"b","o","o","l">>, "TOK_BOOL">>) /\ Spells(<< <<"m","u","t">>, "TOK_MUT">>)
      /\ Spells(<< <<"l","e","t">>, "TOK_LET">>) /\ Spells(<< <<"u","8">>, "TOK_U8">>)
      /\ Spells(<< <<"u","1","6">>, "TOK_U16">>) /\ Spells(<< <<"u","3","2">>, "TOK_U32">>)
      /\ Spells(<< <<"u","6","4">>, "TOK_U64">>) /\ Spells(<< <<"i","8">>, "TOK_I8">>)
      /\ Spells(<< <<"i","1","6">>, "TOK_I16">>) /\ Spells(<< <<"i","3","2">>, "TOK_I32">>)
      /\ Spells(<< <<"i","6","4">>, "TOK_I64">>)
  BY <1>1, SpellsKeyword, Zenon
<1>5. /\ Spells(<< <<"+">>, "TOK_ADD">>) /\ Spells(<< <<"-">>, "TOK_SUB">>)
      /\ Spells(<< <<"*">>, "TOK_MUL">>) /\ Spells(<< <<"/">>, "TOK_DIV">>)
      /\ Spells(<< <<"(">>, "TOK_LPAREN">>) /\ Spells(<< <<")">>, "TOK_RPAREN">>)
      /\ Spells(<< <<"{">>, "TOK_LCURLY">>) /\ Spells(<< <<"}">>, "TOK_RCURLY">>)
      /\ Spells(<< <<"[">>, "TOK_LBRACK">>) /\ Spells(<< <<"]">>, "TOK_RBRACK">>)
      /\ Spells(<< <<";">>, "TOK_NEWLINE">>) /\ Spells(<< <<":">>, "TOK_COLON">>)
      /\ Spells(<< <<",">>, "TOK_COMMA">>)
  BY <1>2, SpellsSingle, Zenon
<1>6. /\ Spells(<< <<"=">>, "TOK_EQ">>) /\ Spells(<< <<"=", "=">>, "TOK_DEQ">>)
      /\ Spells(<< <<">">>, "TOK_GR">>) /\ Spells(<< <<">", "=">>, "TOK_GREQ">>)
      /\ Spells(<< <<"<">>, "TOK_LE">>) /\ Spells(<< <<"<", "=">>, "TOK_LEEQ">>)
      /\ Spells(<< <<"!">>, "TOK_NEQ">>) /\ Spells(<< <<"!", "=">>, "TOK_NOT">>)
  BY <1>3, SpellsComparing, Zenon
<1> QED
  BY <1>4, <1>5, <1>6, Zenon DEF Reader!Fixed

LEMMA PairJoined ==
  ASSUME NEW a, NEW b
  PROVE  <<a>> \o <<b>> = <<a, b>>
<1>1. PICK s : s = <<a>> \o <<b>>
  OBVIOUS
<1>2. PICK t : t = <<a, b>>
  OBVIOUS
<1>3. s \in Seq({a, b}) /\ Len(s) = 2 /\ s[1] = a /\ s[2] = b
  BY <1>1
<1>4. t \in Seq({a, b}) /\ Len(t) = 2 /\ t[1] = a /\ t[2] = b
  BY <1>2
<1>5. \A i \in 1 .. Len(s) : s[i] = t[i]
  BY <1>3, <1>4
<1>6. s = t
  BY <1>3, <1>4, <1>5, SeqEqual, Zenon
<1> QED
  BY <1>1, <1>2, <1>6

LEMMA TripleJoined ==
  ASSUME NEW a, NEW b, NEW c
  PROVE  <<a>> \o <<b, c>> = <<a, b, c>>
<1>1. PICK s : s = <<a>> \o <<b, c>>
  OBVIOUS
<1>2. PICK t : t = <<a, b, c>>
  OBVIOUS
<1>3. s \in Seq({a, b, c}) /\ Len(s) = 3 /\ s[1] = a /\ s[2] = b /\ s[3] = c
  BY <1>1
<1>4. t \in Seq({a, b, c}) /\ Len(t) = 3 /\ t[1] = a /\ t[2] = b /\ t[3] = c
  BY <1>2
<1>5. \A i \in 1 .. Len(s) : s[i] = t[i]
  BY <1>3, <1>4
<1>6. s = t
  BY <1>3, <1>4, <1>5, SeqEqual, Zenon
<1> QED
  BY <1>1, <1>2, <1>6

LEMMA SuffixesAreSizes == IntSuffixes = Reader!Sizes
<1> DEFINE widths == {<<"8">>, <<"1","6">>, <<"3","2">>, <<"6","4">>}
<1>1. /\ <<"i">> \o <<"8">> = <<"i","8">> /\ <<"i">> \o <<"1","6">> = <<"i","1","6">>
      /\ <<"i">> \o <<"3","2">> = <<"i","3","2">> /\ <<"i">> \o <<"6","4">> = <<"i","6","4">>
      /\ <<"u">> \o <<"8">> = <<"u","8">> /\ <<"u">> \o <<"1","6">> = <<"u","1","6">>
      /\ <<"u">> \o <<"3","2">> = <<"u","3","2">> /\ <<"u">> \o <<"6","4">> = <<"u","6","4">>
  BY PairJoined, TripleJoined, Zenon
<1>2. ASSUME NEW bits \in widths
      PROVE  <<"i">> \o bits \in IntSuffixes /\ <<"u">> \o bits \in IntSuffixes
  <2>1. bits = <<"8">> \/ bits = <<"1","6">> \/ bits = <<"3","2">> \/ bits = <<"6","4">>
    OBVIOUS
  <2>2. /\ <<"i","8">> \in IntSuffixes /\ <<"i","1","6">> \in IntSuffixes
        /\ <<"i","3","2">> \in IntSuffixes /\ <<"i","6","4">> \in IntSuffixes
        /\ <<"u","8">> \in IntSuffixes /\ <<"u","1","6">> \in IntSuffixes
        /\ <<"u","3","2">> \in IntSuffixes /\ <<"u","6","4">> \in IntSuffixes
    BY Zenon DEF IntSuffixes
  <2> QED BY <1>1, <2>1, <2>2, Zenon
<1>3. ASSUME NEW s \in Reader!Sizes PROVE s \in IntSuffixes
  <2>1. PICK sign \in {"i", "u"}, bits \in widths : s = <<sign>> \o bits
    BY DEF Reader!Sizes
  <2>2. sign = "i" \/ sign = "u"
    OBVIOUS
  <2> QED BY <1>2, <2>1, <2>2, Zenon
<1>4. ASSUME NEW sign \in {"i", "u"}, NEW bits \in widths
      PROVE  <<sign>> \o bits \in Reader!Sizes
  <2>1. Reader!Sizes = {<<s>> \o d : s \in {"i", "u"}, d \in widths}
    BY DEF Reader!Sizes
  <2> HIDE DEF widths
  <2>2. <<sign>> \o bits \in {<<s>> \o d : s \in {"i", "u"}, d \in widths}
    OBVIOUS
  <2> QED BY <2>1, <2>2
<1>5. ASSUME NEW s \in IntSuffixes PROVE s \in Reader!Sizes
  <2>1. /\ <<"i">> \o <<"8">> \in Reader!Sizes /\ <<"i">> \o <<"1","6">> \in Reader!Sizes
        /\ <<"i">> \o <<"3","2">> \in Reader!Sizes /\ <<"i">> \o <<"6","4">> \in Reader!Sizes
        /\ <<"u">> \o <<"8">> \in Reader!Sizes /\ <<"u">> \o <<"1","6">> \in Reader!Sizes
        /\ <<"u">> \o <<"3","2">> \in Reader!Sizes /\ <<"u">> \o <<"6","4">> \in Reader!Sizes
    BY <1>4
  <2>2. \/ s = <<"i","8">> \/ s = <<"i","1","6">> \/ s = <<"i","3","2">> \/ s = <<"i","6","4">>
        \/ s = <<"u","8">> \/ s = <<"u","1","6">> \/ s = <<"u","3","2">> \/ s = <<"u","6","4">>
    BY Zenon DEF IntSuffixes
  <2> QED BY <1>1, <2>1, <2>2, Zenon
<1> QED
  BY <1>3, <1>5

-----------------------------------------------------------------------------
(* Slices of the text.                                                     *)

LEMMA SliceIs ==
  ASSUME TypeOK, NEW i \in 0 .. sz, NEW j \in i .. sz
  PROVE  /\ Slice(i, j) \in Seq(STRING) /\ Len(Slice(i, j)) = j - i
         /\ \A k \in i .. j - 1 : Slice(i, j)[k - i + 1] = At(k)
         /\ \A k \in 1 .. j - i : Slice(i, j)[k] = At(i + k - 1)
<1>1. sz \in Nat /\ buf \in Seq(STRING) /\ sz = Len(buf)
  BY BufIsText DEF sz
<1>2. i + 1 \in Int /\ j \in Int /\ \A k \in i + 1 .. j : buf[k] \in STRING
  BY <1>1, ElementOfSeq
<1>3. /\ SubSeq(buf, i + 1, j) \in Seq(STRING)
      /\ Len(SubSeq(buf, i + 1, j)) = IF i + 1 <= j THEN j - (i + 1) + 1 ELSE 0
      /\ \A k \in 1 .. j - (i + 1) + 1 : SubSeq(buf, i + 1, j)[k] = buf[i + 1 + k - 1]
  BY <1>2, SubSeqProperties
<1>4. Slice(i, j) = SubSeq(buf, i + 1, j)
  BY DEF Slice
<1>5. Slice(i, j) \in Seq(STRING) /\ Len(Slice(i, j)) = j - i
  BY <1>1, <1>3, <1>4
<1>6. ASSUME NEW k \in 1 .. j - i PROVE Slice(i, j)[k] = At(i + k - 1)
  <2>1. k \in 1 .. j - (i + 1) + 1 /\ i + 1 + k - 1 = i + k - 1 + 1
    BY <1>1
  <2> QED BY <1>3, <1>4, <2>1 DEF At
<1>7. ASSUME NEW k \in i .. j - 1 PROVE Slice(i, j)[k - i + 1] = At(k)
  <2>1. k - i + 1 \in 1 .. j - i /\ i + (k - i + 1) - 1 = k
    BY <1>1
  <2> QED BY <1>6, <2>1
<1> QED
  BY <1>5, <1>6, <1>7

LEMMA ReaderSlice ==
  /\ Reader!Size = sz
  /\ \A i, j : Reader!Slice(i, j) = Slice(i, j)
  /\ \A i, j : Reader!Breaks(i, j) = Breaks(i, j)
BY DEF Reader!Size, sz, Reader!Slice, Slice, Reader!Breaks, Breaks, At

LEMMA OverIs ==
  ASSUME TypeOK, NEW i \in 0 .. sz, NEW j \in i .. sz, NEW chars
  PROVE  Reader!Over(Slice(i, j), chars) <=> \A k \in i .. j - 1 : At(k) \in chars
<1>1. DOMAIN Slice(i, j) = 1 .. j - i /\ sz \in Nat
  BY SliceIs, LenProperties, BufIsText
<1>2. ASSUME \A k \in i .. j - 1 : At(k) \in chars, NEW k \in 1 .. j - i
      PROVE  Slice(i, j)[k] \in chars
  <2>1. i + k - 1 \in i .. j - 1
    BY <1>1
  <2> QED BY <1>2, <2>1, SliceIs
<1>3. ASSUME \A k \in 1 .. j - i : Slice(i, j)[k] \in chars, NEW k \in i .. j - 1
      PROVE  At(k) \in chars
  <2>1. k - i + 1 \in 1 .. j - i
    BY <1>1
  <2> QED BY <1>3, <2>1, SliceIs
<1> QED
  BY <1>1, <1>2, <1>3 DEF Reader!Over

(* A slice that is not empty, against a word.                              *)
LEMMA SliceSpells ==
  ASSUME TypeOK, NEW i \in 0 .. sz, NEW j \in i .. sz, NEW word, Slice(i, j) = word
  PROVE  /\ Len(word) = j - i /\ DOMAIN word = 1 .. j - i
         /\ \A k \in i .. j - 1 : At(k) = word[k - i + 1]
<1>1. /\ Len(Slice(i, j)) = j - i /\ DOMAIN Slice(i, j) = 1 .. j - i
      /\ \A k \in i .. j - 1 : Slice(i, j)[k - i + 1] = At(k)
  BY SliceIs, LenProperties
<1> QED
  BY <1>1

-----------------------------------------------------------------------------
(* Where a lexeme can end, by the character it begins with.                *)

LEMMA KeywordChars ==
  ASSUME NEW k \in Keywords
  PROVE  k[2][1] \in Letters /\ \A i \in DOMAIN k[2] : k[2][i] \in Letters \cup Digits
BY LexerAssumption

LEMMA SingleChars ==
  /\ \A c \in SingleCharacters : c[1] # "_" /\ c[1] # "="
  /\ \A c \in SingleCharacters, d \in Comparing : c[1] # d[1]
<1> DEFINE singles == {"+", "-", "*", "/", "(", ")", "{", "}", "[", "]", ";", ":", ","}
<1>1. ASSUME NEW c \in SingleCharacters PROVE c[1] \in singles
  <2>1. \E ch \in singles, t \in {d[2] : d \in SingleCharacters} : c = <<ch, t>>
    BY DEF SingleCharacters
  <2> HIDE DEF singles
  <2> QED BY <2>1
<1>2. ASSUME NEW d \in Comparing PROVE d[1] \in {"=", ">", "<", "!"}
  BY DEF Comparing
<1>3. ASSUME NEW s \in singles
      PROVE  s # "_" /\ s # "=" /\ \A d \in {"=", ">", "<", "!"} : s # d
  OBVIOUS
<1> HIDE DEF singles
<1> QED
  BY <1>1, <1>2, <1>3

LEMMA ComparingOnce ==
  ASSUME NEW c \in Comparing, NEW d \in Comparing, c[1] = d[1]
  PROVE  c = d
BY DEF Comparing

LEMMA CharClasses ==
  /\ \A c \in NameStart : c \notin Digits
  /\ \A c \in SingleCharacters : c[1] \notin NameStart /\ c[1] \notin Digits
  /\ \A c \in Comparing : c[1] \notin NameStart /\ c[1] \notin Digits
  /\ "=" \notin NameStart /\ "=" \notin Digits
<1>1. /\ \A c \in Letters : c \notin Digits
      /\ "_" \notin Digits
      /\ \A c \in SingleCharacters \cup Comparing : c[1] \notin Letters \cup Digits
  BY LexerAssumption
<1>2. \A c \in Comparing : c[1] # "_"
  <2>1. ASSUME NEW d \in Comparing PROVE d[1] \in {"=", ">", "<", "!"}
    BY DEF Comparing
  <2> QED BY <2>1
<1>3. \E c \in Comparing : c[1] = "="
  <2>1. <<"=", "TOK_DEQ", "TOK_EQ">> \in Comparing
    BY DEF Comparing
  <2> QED BY <2>1
<1> QED
  BY <1>1, <1>2, <1>3, SingleChars DEF NameStart

(* The four ways.                                                          *)
Named(from, j) ==
  At(from) \in NameStart /\ \A k \in from .. j - 1 : At(k) \in NameStart \cup Digits
Numbered(from, j, size) == At(from) \in Digits /\ Reader!IsLiteral(from, j, size)
Single(from, j) == j = from + 1 /\ \E c \in SingleCharacters : At(from) = c[1]
Compared(from, j) ==
  /\ \E c \in Comparing : At(from) = c[1]
  /\ j = from + 1 \/ (j = from + 2 /\ At(from + 1) = "=")

LEMMA LiteralBegins ==
  ASSUME TypeOK, NEW from \in 0 .. sz, NEW j \in from + 1 .. sz,
         NEW size \in Reader!Sizes \cup {<< >>}, Reader!IsLiteral(from, j, size)
  PROVE  /\ Len(size) \in {0, 2, 3} /\ from < j - Len(size)
         /\ \A k \in from .. j - Len(size) - 1 : At(k) \in Digits
         /\ At(from) \in Digits
         /\ Slice(j - Len(size), j) = size
<1>1. Len(size) \in {0, 2, 3}
  <2>1. CASE size \in Reader!Sizes
    BY <2>1, SuffixesAreSizes, SuffixShape
  <2>2. CASE size = << >>
    BY <2>2
  <2> QED BY <2>1, <2>2
<1>2. sz \in Nat /\ from < j - Len(size) /\ j - Len(size) \in from .. sz
  BY <1>1, BufIsText DEF Reader!IsLiteral
<1>3. Reader!Over(Slice(from, j - Len(size)), Digits)
  BY ReaderSlice DEF Reader!IsLiteral
<1>4. \A k \in from .. j - Len(size) - 1 : At(k) \in Digits
  BY <1>2, <1>3, OverIs
<1>5. Slice(j - Len(size), j) = size
  BY ReaderSlice DEF Reader!IsLiteral
<1> QED
  BY <1>1, <1>2, <1>4, <1>5

LEMMA NameBegins ==
  ASSUME TypeOK, NEW from \in 0 .. sz, NEW j \in from + 1 .. sz,
         Reader!IsName(Slice(from, j))
  PROVE  Named(from, j)
<1>1. sz \in Nat /\ j \in from .. sz /\ from \in from .. j - 1
  BY BufIsText
<1>2. Reader!Over(Slice(from, j), Letters \cup Digits \cup {"_"})
  BY DEF Reader!IsName
<1>3. \A k \in from .. j - 1 : At(k) \in Letters \cup Digits \cup {"_"}
  BY <1>1, <1>2, OverIs
<1>4. At(from) \notin Digits
  <2>1. from - from + 1 = 1 /\ from \in from .. j - 1
    BY <1>1
  <2>2. Slice(from, j)[1] = At(from)
    BY <1>1, <2>1, SliceIs
  <2> QED BY <2>2 DEF Reader!IsName
<1> QED
  BY <1>1, <1>3, <1>4 DEF Named, NameStart

LEMMA FixedBegins ==
  ASSUME TypeOK, NEW from \in 0 .. sz, NEW j \in from + 1 .. sz, NEW t,
         <<Slice(from, j), t>> \in Reader!Fixed
  PROVE  \/ Named(from, j) /\ \E w \in Keywords : w[2] = Slice(from, j)
         \/ Single(from, j) \/ Compared(from, j)
<1>1. sz \in Nat /\ j \in from .. sz /\ from \in from .. j - 1
  BY BufIsText
<1>2. Spells(<<Slice(from, j), t>>)
  BY FixedIs
<1>3. CASE \E w \in Keywords : <<Slice(from, j), t>> = <<w[2], w[1]>>
  <2>1. PICK w \in Keywords : Slice(from, j) = w[2]
    BY <1>3
  <2>2. DOMAIN w[2] = 1 .. j - from /\ \A k \in from .. j - 1 : At(k) = w[2][k - from + 1]
    BY <1>1, <2>1, SliceSpells
  <2>3. At(from) \in Letters
    BY <1>1, <2>2, KeywordChars
  <2>4. \A k \in from .. j - 1 : k - from + 1 \in 1 .. j - from
    BY <1>1
  <2>5. \A k \in from .. j - 1 : At(k) \in Letters \cup Digits
    BY <2>2, <2>4, KeywordChars
  <2> QED BY <2>1, <2>3, <2>5 DEF Named, NameStart
<1>4. CASE \E c \in SingleCharacters : <<Slice(from, j), t>> = << <<c[1]>>, c[2] >>
  <2>1. PICK c \in SingleCharacters : Slice(from, j) = <<c[1]>>
    BY <1>4
  <2>2. PICK word : word = <<c[1]>>
    OBVIOUS
  <2>3. Len(word) = 1 /\ word[1] = c[1] /\ Slice(from, j) = word
    BY <2>1, <2>2
  <2>4. 1 = j - from /\ \A k \in from .. j - 1 : At(k) = word[k - from + 1]
    BY <1>1, <2>3, SliceSpells
  <2>5. At(from) = c[1]
    BY <1>1, <2>3, <2>4
  <2> QED BY <1>1, <2>4, <2>5 DEF Single
<1>5. CASE \E c \in Comparing : \/ <<Slice(from, j), t>> = << <<c[1]>>, c[3] >>
                               \/ <<Slice(from, j), t>> = << <<c[1], "=">>, c[2] >>
  <2>1. PICK c \in Comparing : Slice(from, j) = <<c[1]>> \/ Slice(from, j) = <<c[1], "=">>
    BY <1>5
  <2>2. CASE Slice(from, j) = <<c[1]>>
    <3>1. PICK word : word = <<c[1]>>
      OBVIOUS
    <3>2. Len(word) = 1 /\ word[1] = c[1] /\ Slice(from, j) = word
      BY <2>2, <3>1
    <3>3. 1 = j - from /\ \A k \in from .. j - 1 : At(k) = word[k - from + 1]
      BY <1>1, <3>2, SliceSpells
    <3>4. At(from) = c[1]
      BY <1>1, <3>2, <3>3
    <3> QED BY <1>1, <3>3, <3>4 DEF Compared
  <2>3. CASE Slice(from, j) = <<c[1], "=">>
    <3>1. PICK word : word = <<c[1], "=">>
      OBVIOUS
    <3>2. Len(word) = 2 /\ word[1] = c[1] /\ word[2] = "=" /\ Slice(from, j) = word
      BY <2>3, <3>1
    <3>3. 2 = j - from /\ \A k \in from .. j - 1 : At(k) = word[k - from + 1]
      BY <1>1, <3>2, SliceSpells
    <3>4. At(from) = c[1] /\ At(from + 1) = "="
      <4>1. from + 1 \in from .. j - 1 /\ from + 1 - from + 1 = 2 /\ from - from + 1 = 1
        BY <1>1, <3>3
      <4> QED BY <1>1, <3>2, <3>3, <4>1
    <3> QED BY <1>1, <3>3, <3>4 DEF Compared
  <2> QED BY <2>1, <2>2, <2>3
<1> QED
  BY <1>2, <1>3, <1>4, <1>5 DEF Spells

LEMMA LexemeBegins ==
  ASSUME TypeOK, NEW from \in 0 .. sz, NEW j \in from + 1 .. sz, NEW t,
         NEW size \in Reader!Sizes \cup {<< >>}, Reader!Lexeme(from, j, t, size)
  PROVE  Named(from, j) \/ Numbered(from, j, size) \/ Single(from, j) \/ Compared(from, j)
<1>1. CASE <<Slice(from, j), t>> \in Reader!Fixed
  BY <1>1, FixedBegins
<1>2. CASE Reader!IsName(Slice(from, j))
  BY <1>2, NameBegins
<1>3. CASE Reader!IsLiteral(from, j, size)
  BY <1>3, LiteralBegins DEF Numbered
<1> QED
  BY <1>1, <1>2, <1>3, ReaderSlice DEF Reader!Lexeme

-----------------------------------------------------------------------------
(* What lexer_fetch makes is a lexeme, and none that begins there is       *)
(* longer.                                                                 *)
Longest(from, tok) ==
  /\ tok.from = from /\ tok.to \in from + 1 .. sz
  /\ tok.t \in Reader!Kinds /\ tok.size \in Reader!Sizes \cup {<< >>}
  /\ Reader!Lexeme(from, tok.to, tok.t, tok.size)
  /\ \A j \in from + 1 .. sz, t \in Reader!Kinds, size \in Reader!Sizes \cup {<< >>} :
       Reader!Lexeme(from, j, t, size) => j <= tok.to

LEMMA FixedKinds ==
  ASSUME NEW word, NEW t, <<word, t>> \in Reader!Fixed
  PROVE  t \in Reader!Kinds
<1>1. <<word, t>>[2] = t
  OBVIOUS
<1> QED
  BY <1>1 DEF Reader!Kinds

LEMMA FixedPairs ==
  ASSUME NEW k \in Reader!Fixed
  PROVE  k = <<k[1], k[2]>>
BY FixedIs DEF Spells

LEMMA SliceOne ==
  ASSUME TypeOK, NEW i \in 0 .. sz - 1
  PROVE  Slice(i, i + 1) = <<At(i)>>
<1>1. sz \in Nat /\ i \in 0 .. sz /\ i + 1 \in i .. sz /\ i + 1 - i = 1
  BY BufIsText
<1>2. PICK s : s = Slice(i, i + 1)
  OBVIOUS
<1>3. PICK t : t = <<At(i)>>
  OBVIOUS
<1>4. s \in Seq(STRING) /\ Len(s) = 1 /\ s[1] = At(i + 1 - 1)
  <2>1. PICK j \in i .. sz : j = i + 1
    BY <1>1
  <2>2. /\ Slice(i, j) \in Seq(STRING) /\ Len(Slice(i, j)) = j - i
        /\ \A k \in 1 .. j - i : Slice(i, j)[k] = At(i + k - 1)
    BY <1>1, SliceIs
  <2>3. s = Slice(i, j)
    BY <1>2, <2>1
  <2>4. 1 \in 1 .. j - i /\ j - i = 1
    BY <1>1, <2>1
  <2> QED BY <2>2, <2>3, <2>4
<1>5. At(i) \in STRING /\ i + 1 - 1 = i
  BY <1>1, BufIsText
<1>6. t \in Seq(STRING) /\ Len(t) = 1 /\ t[1] = At(i)
  BY <1>3, <1>5
<1>7. \A k \in 1 .. Len(s) : s[k] = t[k]
  BY <1>4, <1>5, <1>6
<1>8. s = t
  BY <1>4, <1>6, <1>7, SeqEqual, Zenon
<1> QED
  BY <1>2, <1>3, <1>8

LEMMA SliceTwo ==
  ASSUME TypeOK, NEW i \in 0 .. sz - 2
  PROVE  Slice(i, i + 2) = <<At(i), At(i + 1)>>
<1>1. sz \in Nat /\ i \in 0 .. sz /\ i + 2 \in i .. sz /\ i + 2 - i = 2
  BY BufIsText
<1>2. PICK s : s = Slice(i, i + 2)
  OBVIOUS
<1>3. PICK t : t = <<At(i), At(i + 1)>>
  OBVIOUS
<1>4. s \in Seq(STRING) /\ Len(s) = 2 /\ s[1] = At(i + 1 - 1) /\ s[2] = At(i + 2 - 1)
  <2>1. PICK j \in i .. sz : j = i + 2
    BY <1>1
  <2>2. /\ Slice(i, j) \in Seq(STRING) /\ Len(Slice(i, j)) = j - i
        /\ \A k \in 1 .. j - i : Slice(i, j)[k] = At(i + k - 1)
    BY <1>1, SliceIs
  <2>3. s = Slice(i, j)
    BY <1>2, <2>1
  <2>4. 1 \in 1 .. j - i /\ 2 \in 1 .. j - i /\ j - i = 2
    BY <1>1, <2>1
  <2> QED BY <2>2, <2>3, <2>4
<1>5. At(i) \in STRING /\ i + 1 - 1 = i /\ At(i + 1) \in STRING /\ i + 2 - 1 = i + 1
  BY <1>1, BufIsText
<1>6. t \in Seq(STRING) /\ Len(t) = 2 /\ t[1] = At(i) /\ t[2] = At(i + 1)
  BY <1>3, <1>5
<1>7. \A k \in 1 .. Len(s) : s[k] = t[k]
  BY <1>4, <1>5, <1>6
<1>8. s = t
  BY <1>4, <1>6, <1>7, SeqEqual, Zenon
<1> QED
  BY <1>2, <1>3, <1>8

LEMMA SingleLongest ==
  ASSUME TypeOK, NEW from \in 0 .. sz - 1, NEW c \in SingleCharacters, At(from) = c[1]
  PROVE  Longest(from, Token(c[2], from, from + 1, << >>))
<1>1. sz \in Nat /\ from \in 0 .. sz /\ from + 1 \in from + 1 .. sz
  BY BufIsText
<1>2. PICK tok : tok = Token(c[2], from, from + 1, << >>)
  OBVIOUS
<1>3. tok.t = c[2] /\ tok.from = from /\ tok.to = from + 1 /\ tok.size = << >>
  BY <1>2 DEF Token
<1>4. <<Slice(from, from + 1), c[2]>> \in Reader!Fixed
  BY SinglesFixed, SliceOne
<1>5. Reader!Lexeme(from, from + 1, c[2], << >>) /\ c[2] \in Reader!Kinds
  BY <1>4, FixedKinds, ReaderSlice DEF Reader!Lexeme
<1>6. ASSUME NEW j \in from + 1 .. sz, NEW t, NEW size \in Reader!Sizes \cup {<< >>},
             Reader!Lexeme(from, j, t, size)
      PROVE  j <= from + 1
  <2>1. Named(from, j) \/ Numbered(from, j, size) \/ Single(from, j) \/ Compared(from, j)
    BY <1>1, <1>6, LexemeBegins
  <2>2. ~Named(from, j) /\ ~Numbered(from, j, size)
    BY CharClasses DEF Named, Numbered
  <2>3. ~Compared(from, j)
    BY SingleChars DEF Compared
  <2> QED BY <1>1, <2>1, <2>2, <2>3 DEF Single
<1>7. Longest(from, tok)
  BY <1>1, <1>3, <1>5, <1>6 DEF Longest
<1> QED
  BY <1>2, <1>7

LEMMA ComparedLongest ==
  ASSUME TypeOK, NEW from \in 0 .. sz - 1, NEW c \in Comparing, At(from) = c[1]
  PROVE  Longest(from, match_character(from, c[2], c[3]))
<1>1. sz \in Nat /\ from \in 0 .. sz /\ from + 1 \in from + 1 .. sz
  BY BufIsText
<1>2. PICK tok : tok = match_character(from, c[2], c[3])
  OBVIOUS
<1>3. ASSUME NEW j \in from + 1 .. sz, NEW t, NEW size \in Reader!Sizes \cup {<< >>},
             Reader!Lexeme(from, j, t, size)
      PROVE  j = from + 1 \/ (j = from + 2 /\ At(from + 1) = "=")
  <2>1. Named(from, j) \/ Numbered(from, j, size) \/ Single(from, j) \/ Compared(from, j)
    BY <1>1, <1>3, LexemeBegins
  <2>2. ~Named(from, j) /\ ~Numbered(from, j, size)
    BY CharClasses DEF Named, Numbered
  <2> QED BY <1>1, <2>1, <2>2 DEF Single, Compared
<1>4. CASE from + 1 < sz /\ At(from + 1) = "="
  <2>1. tok.t = c[2] /\ tok.from = from /\ tok.to = from + 2 /\ tok.size = << >>
    BY <1>2, <1>4 DEF Token, match_character
  <2>2. <<Slice(from, from + 2), c[2]>> \in Reader!Fixed /\ from + 2 \in from + 1 .. sz
    <3>1. from \in 0 .. sz - 2 /\ from + 2 \in from + 1 .. sz
      BY <1>1, <1>4
    <3>2. Slice(from, from + 2) = <<c[1], "=">>
      BY <1>4, <3>1, SliceTwo
    <3> QED BY <3>1, <3>2, ComparingFixed
  <2>3. Reader!Lexeme(from, from + 2, c[2], << >>) /\ c[2] \in Reader!Kinds
    BY <2>2, FixedKinds, ReaderSlice DEF Reader!Lexeme
  <2>4. ASSUME NEW j \in from + 1 .. sz, NEW t, NEW size \in Reader!Sizes \cup {<< >>},
               Reader!Lexeme(from, j, t, size)
        PROVE  j <= from + 2
    BY <1>1, <1>3, <2>4
  <2>5. Longest(from, tok)
    BY <2>1, <2>2, <2>3, <2>4 DEF Longest
  <2> QED BY <1>2, <2>5
<1>5. CASE ~(from + 1 < sz /\ At(from + 1) = "=")
  <2>1. tok.t = c[3] /\ tok.from = from /\ tok.to = from + 1 /\ tok.size = << >>
    BY <1>2, <1>5 DEF Token, match_character
  <2>2. <<Slice(from, from + 1), c[3]>> \in Reader!Fixed
    BY ComparingFixed, SliceOne
  <2>3. Reader!Lexeme(from, from + 1, c[3], << >>) /\ c[3] \in Reader!Kinds
    BY <2>2, FixedKinds, ReaderSlice DEF Reader!Lexeme
  <2>4. ASSUME NEW j \in from + 1 .. sz, NEW t, NEW size \in Reader!Sizes \cup {<< >>},
               Reader!Lexeme(from, j, t, size)
        PROVE  j <= from + 1
    BY <1>1, <1>3, <1>5, <2>4
  <2>5. Longest(from, tok)
    BY <1>1, <2>1, <2>3, <2>4 DEF Longest
  <2> QED BY <1>2, <2>5
<1> QED
  BY <1>4, <1>5

LEMMA SymbolLongest ==
  ASSUME TypeOK, NEW from \in 0 .. sz - 1, At(from) \in NameStart
  PROVE  Longest(from, make_symbol(from))
<1> DEFINE chars == NameStart \cup Digits
<1>1. sz \in Nat /\ from \in 0 .. sz /\ from + 1 \in 0 .. sz
  BY BufIsText
<1>2. PICK to : to = Past(from + 1, chars)
  OBVIOUS
<1>3. /\ to \in from + 1 .. sz
      /\ \A k \in from + 1 .. to - 1 : At(k) \in chars
      /\ to < sz => At(to) \notin chars
  BY <1>1, <1>2, PastStops
<1>4. PICK word : word = Slice(from, to)
  OBVIOUS
<1>5. make_symbol(from) = Token(pick_symbol_type(word), from, to, << >>)
  BY <1>2, <1>4 DEF make_symbol
<1>6. PICK tok : tok = make_symbol(from)
  OBVIOUS
<1>7. /\ tok.t = pick_symbol_type(word) /\ tok.from = from /\ tok.to = to
      /\ tok.size = << >>
  BY <1>5, <1>6 DEF Token
<1> HIDE DEF chars
<1>8. Reader!Lexeme(from, to, tok.t, << >>) /\ tok.t \in Reader!Kinds
  <2>1. CASE \E k \in Keywords : k[2] = word
    <3>1. PICK k \in Keywords : k[2] = word /\ pick_symbol_type(word) = k[1]
      <4>1. pick_symbol_type(word) = (CHOOSE k \in Keywords : k[2] = word)[1]
        BY <2>1 DEF pick_symbol_type
      <4>2. PICK k \in Keywords : k = CHOOSE l \in Keywords : l[2] = word
        BY <2>1
      <4> QED BY <2>1, <4>1, <4>2
    <3>2. <<word, tok.t>> \in Reader!Fixed
      BY <1>7, <3>1, KeywordsFixed
    <3> QED BY <1>4, <3>2, FixedKinds, ReaderSlice DEF Reader!Lexeme
  <2>2. CASE ~\E k \in Keywords : k[2] = word
    <3>1. tok.t = "TOK_SYM"
      BY <1>7, <2>2 DEF pick_symbol_type
    <3>2. \A k \in from .. to - 1 : At(k) \in Letters \cup Digits \cup {"_"}
      <4>1. \A k \in from .. to - 1 : k = from \/ k \in from + 1 .. to - 1
        BY <1>1, <1>3
      <4>2. At(from) \in chars /\ chars = Letters \cup Digits \cup {"_"}
        BY DEF NameStart, chars
      <4> QED BY <1>3, <4>1, <4>2
    <3>3. Reader!Over(word, Letters \cup Digits \cup {"_"})
      <4>1. to \in from .. sz
        BY <1>1, <1>3
      <4> QED BY <1>1, <1>4, <3>2, <4>1, OverIs
    <3>4. word # << >> /\ word[1] = At(from)
      <4>1. from \in from .. to - 1 /\ from - from + 1 = 1 /\ to \in from .. sz /\ to - from # 0
        BY <1>1, <1>3
      <4>2. /\ Len(Slice(from, to)) = to - from
            /\ \A k \in from .. to - 1 : Slice(from, to)[k - from + 1] = At(k)
        BY <1>1, <4>1, SliceIs
      <4>3. Len(word) # 0 /\ word[1] = At(from)
        BY <1>4, <4>1, <4>2
      <4> QED BY <4>3
    <3>5. Reader!IsName(word)
      BY <3>3, <3>4, CharClasses DEF Reader!IsName
    <3>6. ASSUME NEW k \in Reader!Fixed, k[1] = word PROVE FALSE
      <4>1. <<Slice(from, to), k[2]>> \in Reader!Fixed
        BY <1>4, <3>6, FixedPairs
      <4>2. Single(from, to) \/ Compared(from, to)
        BY <1>1, <1>3, <1>4, <2>2, <4>1, FixedBegins
      <4> QED BY <4>2, CharClasses DEF Single, Compared
    <3>7. Reader!Lexeme(from, to, "TOK_SYM", << >>)
      BY <1>4, <3>5, <3>6, ReaderSlice DEF Reader!Lexeme
    <3> QED BY <3>1, <3>7 DEF Reader!Kinds
  <2> QED BY <2>1, <2>2
<1>9. ASSUME NEW j \in from + 1 .. sz, NEW t, NEW size \in Reader!Sizes \cup {<< >>},
             Reader!Lexeme(from, j, t, size)
      PROVE  j <= to
  <2>1. Named(from, j) \/ Numbered(from, j, size) \/ Single(from, j) \/ Compared(from, j)
    BY <1>1, <1>9, LexemeBegins
  <2>2. Named(from, j)
    BY <2>1, CharClasses DEF Numbered, Single, Compared
  <2>3. to < j => to \in from .. j - 1 /\ to < sz
    BY <1>1, <1>3
  <2> QED BY <1>1, <1>3, <2>2, <2>3 DEF Named, chars
<1>10. Longest(from, tok)
  BY <1>3, <1>7, <1>8, <1>9 DEF Longest
<1> QED
  BY <1>6, <1>10

(* At most one suffix fits.                                                *)
LEMMA SuffixBegins ==
  ASSUME NEW s \in IntSuffixes, NEW r \in IntSuffixes, s[1] = r[1], s[2] = r[2]
  PROVE  s = r
BY DEF IntSuffixes

LEMMA SuffixFirst ==
  ASSUME NEW s \in IntSuffixes
  PROVE  s[1] \notin Digits
<1>1. "i" \in Letters /\ "u" \in Letters
  <2>1. <<"TOK_U8", <<"u","8">> >> \in Keywords /\ <<"TOK_I8", <<"i","8">> >> \in Keywords
    BY Zenon DEF Keywords
  <2> QED BY <2>1, KeywordChars
<1>2. s[1] = "i" \/ s[1] = "u"
  BY DEF IntSuffixes
<1> QED
  BY <1>1, <1>2, CharClasses DEF NameStart

LEMMA OneSuffix ==
  ASSUME TypeOK, NEW n \in 0 .. sz, NEW s \in IntSuffixes, NEW r \in IntSuffixes,
         next_matches(n, s), next_matches(n, r)
  PROVE  s = r
<1>1. sz \in Nat /\ Len(s) \in {2, 3} /\ Len(r) \in {2, 3}
  BY BufIsText, SuffixShape
<1>2. ASSUME NEW text \in IntSuffixes, next_matches(n, text)
      PROVE  text[1] = At(n) /\ text[2] = At(n + 1)
  <2>1. Len(text) \in {2, 3}
    BY SuffixShape
  <2>2. PICK j \in n .. sz : j = n + Len(text) /\ Slice(n, j) = text
    BY <1>1, <1>2, <2>1 DEF next_matches
  <2>3. \A k \in n .. j - 1 : At(k) = text[k - n + 1]
    BY <2>2, SliceSpells
  <2>4. n \in n .. j - 1 /\ n + 1 \in n .. j - 1 /\ n - n + 1 = 1 /\ n + 1 - n + 1 = 2
    BY <1>1, <2>1, <2>2
  <2> QED BY <2>3, <2>4
<1>5. s[1] = r[1] /\ s[2] = r[2]
  BY <1>2
<1> QED
  BY <1>5, SuffixBegins

LEMMA SliceNone ==
  ASSUME TypeOK, NEW i \in 0 .. sz
  PROVE  Slice(i, i) = << >>
<1>1. sz \in Nat /\ i \in i .. sz /\ i - i = 0
  BY BufIsText
<1>2. Slice(i, i) \in Seq(STRING) /\ Len(Slice(i, i)) = i - i
  BY <1>1, SliceIs
<1> QED
  BY <1>1, <1>2, EmptySeq

LEMMA IntLongest ==
  ASSUME TypeOK, NEW from \in 0 .. sz - 1, At(from) \in Digits
  PROVE  Longest(from, make_int(from))
<1> DEFINE fits(n) == {text \in IntSuffixes : next_matches(n, text)}
<1>1. sz \in Nat /\ from \in 0 .. sz /\ from + 1 \in 0 .. sz
  BY BufIsText
<1>2. PICK digits : digits = Past(from + 1, Digits)
  OBVIOUS
<1>3. /\ digits \in from + 1 .. sz /\ digits \in from .. sz /\ digits \in 0 .. sz
      /\ \A k \in from + 1 .. digits - 1 : At(k) \in Digits
      /\ digits < sz => At(digits) \notin Digits
  BY <1>1, <1>2, PastStops
<1>4. \A k \in from .. digits - 1 : At(k) \in Digits
  BY <1>1, <1>3
<1>5. PICK suffix :
         /\ suffix = IF fits(digits) = {} THEN << >> ELSE CHOOSE text \in fits(digits) : TRUE
         /\ make_int(from) = Token("TOK_INT", from, digits + Len(suffix), suffix)
  BY <1>2 DEF make_int
<1>6. \/ suffix = << >> /\ fits(digits) = {}
      \/ suffix \in IntSuffixes /\ next_matches(digits, suffix)
  BY <1>5
<1> HIDE DEF fits
<1>7. /\ suffix = << >> => Len(suffix) = 0
      /\ suffix \in IntSuffixes => Len(suffix) \in {2, 3}
  BY SuffixShape
<1>8. PICK to : to = digits + Len(suffix)
  OBVIOUS
<1>9. /\ to \in from + 1 .. sz /\ to - Len(suffix) = digits
      /\ suffix \in IntSuffixes => to < sz /\ Slice(digits, to) = suffix
  <2>1. CASE suffix \in IntSuffixes
    <3>1. digits + Len(suffix) < sz /\ Slice(digits, digits + Len(suffix)) = suffix
      <4>1. suffix # << >>
        BY <1>7, <2>1
      <4> QED BY <1>6, <4>1 DEF next_matches
    <3> QED BY <1>1, <1>3, <1>7, <1>8, <2>1, <3>1
  <2>2. CASE suffix \notin IntSuffixes
    <3>1. Len(suffix) = 0
      BY <1>6, <1>7, <2>2
    <3> QED BY <1>1, <1>3, <1>8, <2>2, <3>1
  <2> QED BY <2>1, <2>2
<1>10. Slice(digits, to) = suffix
  <2>1. CASE suffix = << >>
    <3>1. to = digits
      BY <1>3, <1>7, <1>8, <2>1
    <3> QED BY <1>3, <2>1, <3>1, SliceNone
  <2> QED BY <1>6, <1>9, <2>1
<1>11. Reader!IsLiteral(from, to, suffix)
  <2>1. Reader!Over(Slice(from, digits), Digits)
    BY <1>1, <1>3, <1>4, OverIs
  <2>2. suffix \in Reader!Sizes => to < sz
    BY <1>9, SuffixesAreSizes
  <2> QED BY <1>3, <1>9, <1>10, <2>1, <2>2, ReaderSlice DEF Reader!IsLiteral
<1>12. PICK tok : tok = make_int(from)
  OBVIOUS
<1>13. tok.t = "TOK_INT" /\ tok.from = from /\ tok.to = to /\ tok.size = suffix
  BY <1>5, <1>8, <1>12 DEF Token
<1>14. ASSUME NEW j \in from + 1 .. sz, NEW t, NEW size \in Reader!Sizes \cup {<< >>},
              Reader!Lexeme(from, j, t, size)
       PROVE  j <= to
  <2>1. Reader!IsLiteral(from, j, size)
    <3>1. Named(from, j) \/ Numbered(from, j, size) \/ Single(from, j) \/ Compared(from, j)
      BY <1>1, <1>14, LexemeBegins
    <3> QED BY <3>1, CharClasses DEF Named, Numbered, Single, Compared
  <2>2. PICK n : n = j - Len(size)
    OBVIOUS
  <2>3. /\ Len(size) \in {0, 2, 3} /\ from < n /\ n = j - Len(size)
        /\ \A k \in from .. n - 1 : At(k) \in Digits
        /\ Slice(n, j) = size
    BY <1>1, <2>1, <2>2, LiteralBegins
  <2>4. n \in Nat /\ n <= digits /\ j \in n .. sz /\ n \in 0 .. sz
    BY <1>1, <1>3, <2>3
  <2>5. CASE size = << >>
    <3>1. Len(size) = 0
      BY <2>5
    <3> QED BY <1>3, <1>7, <1>8, <2>3, <2>4, <3>1
  <2>6. CASE size \in IntSuffixes
    <3>1. Len(size) \in {2, 3} /\ size[1] \notin Digits
      BY <2>6, SuffixShape, SuffixFirst
    <3>2. n \in n .. j - 1 /\ n - n + 1 = 1 /\ n + Len(size) = j
      BY <1>1, <2>3, <2>4, <3>1
    <3>3. At(n) = size[1]
      <4>1. \A k \in n .. j - 1 : At(k) = size[k - n + 1]
        <5>1. Slice(n, j) = size /\ n \in 0 .. sz /\ j \in n .. sz
          BY <2>3, <2>4
        <5> QED BY <5>1, SliceSpells
      <4>2. At(n) = size[n - n + 1]
        BY <3>2, <4>1
      <4> QED BY <3>2, <4>2
    <3>4. n = digits
      <4>1. n < digits => n \in from .. digits - 1
        BY <1>1, <1>3, <2>3, <2>4
      <4>2. ~(n < digits)
        BY <1>4, <3>1, <3>3, <4>1
      <4> QED BY <1>3, <2>4, <4>2
    <3>5. j < sz
      BY <2>1, <2>6, SuffixesAreSizes, ReaderSlice DEF Reader!IsLiteral
    <3>6. next_matches(digits, size)
      BY <2>3, <3>2, <3>4, <3>5 DEF next_matches
    <3>7. size = suffix
      <4>1. fits(digits) # {}
        BY <2>6, <3>6 DEF fits
      <4> QED BY <1>3, <1>6, <2>6, <3>6, <4>1, OneSuffix
    <3> QED BY <1>8, <1>9, <3>2, <3>4, <3>7
  <2> QED BY <2>5, <2>6, SuffixesAreSizes
<1>15. Reader!Lexeme(from, to, "TOK_INT", suffix)
  BY <1>11 DEF Reader!Lexeme
<1>16. suffix \in Reader!Sizes \cup {<< >>} /\ "TOK_INT" \in Reader!Kinds
  BY <1>6, SuffixesAreSizes DEF Reader!Kinds
<1>17. Longest(from, tok)
  BY <1>9, <1>13, <1>14, <1>15, <1>16 DEF Longest
<1> QED
  BY <1>12, <1>17

(* Whatever lexer_fetch makes at a character is the longest lexeme there.  *)
LEMMA MadeLongest ==
  ASSUME TypeOK, NEW from \in 0 .. sz - 1, NEW tok, MakeAt(from, tok)
  PROVE  Longest(from, tok)
BY IntLongest, SymbolLongest, SingleLongest, ComparedLongest DEF MakeAt

(* And it makes a token of every character that begins a lexeme.           *)
LEMMA UnexpectedBeginsNone ==
  ASSUME TypeOK, NEW from \in 0 .. sz, Unexpected(from), NEW j \in from + 1 .. sz, NEW t,
         NEW size \in Reader!Sizes \cup {<< >>}
  PROVE  ~Reader!Lexeme(from, j, t, size)
BY LexemeBegins DEF Unexpected, Named, Numbered, Single, Compared

-----------------------------------------------------------------------------
(* What comes next is a function of the text and the token before: the     *)
(* cursor is where that token ends, and lex.line counts the newlines       *)
(* before it.                                                              *)
LineCounts == line = 1 + Cardinality(Breaks(0, end))

LEMMA BreaksJoined ==
  ASSUME TypeOK, NEW from \in end .. sz
  PROVE  /\ Cardinality(Breaks(0, end)) \in Nat
         /\ Cardinality(Breaks(0, from))
              = Cardinality(Breaks(0, end)) + Cardinality(Breaks(end, from))
<1>1. end \in 0 .. sz /\ sz \in Nat
  BY BufIsText DEF TypeOK
<1>2. PICK before, behind : before = Breaks(0, end) /\ behind = Breaks(end, from)
  OBVIOUS
<1>3. before \subseteq 0 .. end - 1 /\ behind \subseteq end .. from - 1
  BY <1>2 DEF Breaks
<1>4. IsFiniteSet(before) /\ IsFiniteSet(behind)
  <2>1. IsFiniteSet(0 .. end - 1) /\ IsFiniteSet(end .. from - 1)
    BY <1>1, FS_Interval
  <2> QED BY <1>3, <2>1, FS_Subset
<1>5. before \cap behind = {}
  BY <1>1, <1>3
<1>6. Breaks(0, from) = before \cup behind
  BY <1>1, <1>2 DEF Breaks
<1>7. Cardinality(before) \in Nat /\ Cardinality(behind) \in Nat
  BY <1>4, FS_CardinalityType
<1>8. Cardinality(before \cup behind) = Cardinality(before) + Cardinality(behind)
  <2>1. Cardinality(before \cup behind)
          = Cardinality(before) + Cardinality(behind) - Cardinality(before \cap behind)
    BY <1>4, FS_Union
  <2>2. Cardinality(before \cap behind) = 0
    BY <1>5, FS_EmptySet
  <2> QED BY <1>7, <2>1, <2>2
<1> QED
  BY <1>2, <1>6, <1>7, <1>8

LEMMA TokenIsReaders ==
  ASSUME TypeOK, LineCounts, NEW from \in end .. sz, NEW t, NEW to, NEW size
  PROVE  Token(t, from, to, size) = Reader!Token(t, from, to, size)
<1>1. Reader!Cardinality(Reader!Breaks(0, from)) = Cardinality(Breaks(0, from))
  BY ReaderCounts, ReaderSlice
<1>2. Cardinality(Breaks(end, from)) \in Nat
  <2>1. end \in 0 .. sz /\ sz \in Nat
    BY BufIsText DEF TypeOK
  <2>2. Breaks(end, from) \subseteq end .. from - 1 /\ IsFiniteSet(end .. from - 1)
    BY <2>1, FS_Interval DEF Breaks
  <2> QED BY <2>2, FS_Subset, FS_CardinalityType
<1>3. line + Cardinality(Breaks(end, from)) = 1 + Reader!Cardinality(Reader!Breaks(0, from))
  BY <1>1, <1>2, BreaksJoined DEF LineCounts
<1> QED
  BY <1>3 DEF Token, Reader!Token

LEMMA ReaderFrom ==
  ASSUME TypeOK, NEW here \in 0 .. sz
  PROVE  Reader!Min({i \in here .. sz : i = sz \/ buf[i + 1] \notin Reader!Blank})
           = Past(here, Blank)
<1>1. sz \in Nat
  BY BufIsText
<1>2. PICK from : from = Past(here, Blank)
  OBVIOUS
<1>3. /\ from \in here .. sz /\ \A k \in here .. from - 1 : At(k) \in Blank
      /\ from < sz => At(from) \notin Blank
  BY <1>2, PastStops
<1>4. PICK S : S = {i \in here .. sz : i = sz \/ buf[i + 1] \notin Reader!Blank}
  OBVIOUS
<1>5. Reader!Blank = Blank
  BY DEF Reader!Blank, Blank
<1>6. S \subseteq Int /\ from \in S
  BY <1>1, <1>3, <1>4, <1>5 DEF At
<1>7. ASSUME NEW i \in S PROVE from <= i
  <2>1. i \in here .. sz /\ (i = sz \/ At(i) \notin Blank)
    BY <1>4, <1>5 DEF At
  <2> QED BY <1>1, <1>3, <2>1
<1>8. Reader!Min(S) = from
  BY <1>6, <1>7, ReaderLeast
<1> QED
  BY <1>2, <1>4, <1>8

LEMMA ReaderEnds == Reader!EndsStatement = EndsStatement
<1>1. ASSUME NEW t \in EndsStatement PROVE t \in Reader!EndsStatement
  BY Zenon DEF EndsStatement, Reader!EndsStatement
<1>2. ASSUME NEW t \in Reader!EndsStatement PROVE t \in EndsStatement
  BY Zenon DEF EndsStatement, Reader!EndsStatement
<1> QED
  BY <1>1, <1>2

LEMMA MadeIsToken ==
  ASSUME NEW from, NEW tok, MakeAt(from, tok)
  PROVE  \E t, to, size : tok = Token(t, from, to, size)
BY DEF MakeAt, make_int, make_symbol, match_character

(* What the reader may say next, in the lexer's terms.                     *)
LexemesAt(from) ==
  LET ends == {j \in from + 1 .. sz : Reader!IsLexeme(from, j)}
  IN  { Reader!Token(k[1], from, k[2], k[3]) :
        k \in { l \in Reader!Kinds \X ends \X (Reader!Sizes \cup {<< >>}) :
                 l[2] = Reader!Max(ends) /\ Reader!Lexeme(from, l[2], l[1], l[3]) } }

ComingFrom(here, from) ==
  IF Breaks(here, from) # {} /\ out # << >> /\ out[Len(out)].t \in Reader!EndsStatement
  THEN LET first == Reader!Min(Breaks(here, from)) + 1
       IN  {Reader!Token("TOK_NEWLINE", first, first, << >>)}
  ELSE IF from = sz
  THEN {Reader!Token("TOK_EOF", from, from, << >>)}
  ELSE LexemesAt(from)

LastTo == IF out = << >> THEN 0 ELSE out[Len(out)].to
FirstText(here) == Reader!Min({i \in here .. sz : i = sz \/ buf[i + 1] \notin Reader!Blank})

LEMMA ComingSplit == Reader!Coming = ComingFrom(LastTo, FirstText(LastTo))
BY DEF Reader!Coming, ComingFrom, LexemesAt, Reader!Size, sz, Reader!Breaks, Breaks, At,
       LastTo, FirstText

(* The cursor and lex.prev come from the last token read.                  *)
CursorBehind ==
  /\ end = LastTo
  /\ needs_newline <=> out # << >> /\ out[Len(out)].t \in EndsStatement

LEMMA ComingIs ==
  ASSUME TypeOK, CursorBehind
  PROVE  Reader!Coming =
           IF FoundNewline
           THEN {Reader!Token("TOK_NEWLINE", skip_whitespace, skip_whitespace, << >>)}
           ELSE IF skip_whitespace = sz
           THEN {Reader!Token("TOK_EOF", skip_whitespace, skip_whitespace, << >>)}
           ELSE LexemesAt(skip_whitespace)
<1>1. end \in 0 .. sz /\ sz \in Nat
  BY BufIsText DEF TypeOK
<1>2. PICK from : from = Past(end, Blank)
  OBVIOUS
<1>3. FirstText(end) = from
  BY <1>1, <1>2, ReaderFrom DEF FirstText
<1>4. Reader!Coming = ComingFrom(end, from)
  BY <1>3, ComingSplit DEF CursorBehind
<1>5. FoundNewline <=>
        Breaks(end, from) # {} /\ out # << >> /\ out[Len(out)].t \in EndsStatement
  BY <1>2 DEF FoundNewline, CursorBehind
<1>6. CASE FoundNewline
  <2>1. PICK b \in Breaks(end, from) : /\ \A c \in Breaks(end, from) : b <= c
                                       /\ skip_whitespace = b + 1
    BY <1>2, <1>6, SkipStops
  <2>2. Breaks(end, from) \subseteq Int
    BY <1>1 DEF Breaks
  <2>3. Reader!Min(Breaks(end, from)) = b
    BY <2>1, <2>2, ReaderLeast
  <2> QED BY <1>4, <1>5, <1>6, <2>1, <2>3, ReaderEnds DEF ComingFrom
<1>7. CASE ~FoundNewline
  <2>1. skip_whitespace = from
    BY <1>2, <1>7 DEF skip_whitespace
  <2> QED BY <1>4, <1>5, <1>7, <2>1, ReaderEnds DEF ComingFrom
<1> QED
  BY <1>6, <1>7

(* The longest lexeme is among those the reader may say, and nothing else  *)
(* where none begins.                                                      *)
LEMMA LongestIsThere ==
  ASSUME TypeOK, NEW from \in 0 .. sz, NEW tok, Longest(from, tok)
  PROVE  Reader!Token(tok.t, from, tok.to, tok.size) \in LexemesAt(from)
<1> DEFINE ends == {j \in from + 1 .. sz : Reader!IsLexeme(from, j)}
<1>1. sz \in Nat
  BY BufIsText
<1>2. /\ tok.to \in from + 1 .. sz
      /\ tok.t \in Reader!Kinds /\ tok.size \in Reader!Sizes \cup {<< >>}
      /\ Reader!Lexeme(from, tok.to, tok.t, tok.size)
  BY DEF Longest
<1>3. tok.to \in ends
  BY <1>2 DEF Reader!IsLexeme
<1>4. ends \subseteq Int /\ \A j \in ends : j <= tok.to
  <2>1. ends \subseteq from + 1 .. sz
    OBVIOUS
  <2>2. ASSUME NEW j \in ends PROVE j <= tok.to
    <3>1. PICK t \in Reader!Kinds, size \in Reader!Sizes \cup {<< >>} :
            Reader!Lexeme(from, j, t, size)
      BY <2>2 DEF Reader!IsLexeme
    <3> QED BY <2>1, <3>1 DEF Longest
  <2> QED BY <1>1, <2>1, <2>2
<1>5. LexemesAt(from) =
        { Reader!Token(k[1], from, k[2], k[3]) :
          k \in { l \in Reader!Kinds \X ends \X (Reader!Sizes \cup {<< >>}) :
                   l[2] = Reader!Max(ends) /\ Reader!Lexeme(from, l[2], l[1], l[3]) } }
  BY DEF LexemesAt
<1> HIDE DEF ends
<1>6. Reader!Max(ends) = tok.to
  BY <1>3, <1>4, ReaderGreatest
<1>7. PICK k : k = <<tok.t, tok.to, tok.size>>
  OBVIOUS
<1>8. k[1] = tok.t /\ k[2] = tok.to /\ k[3] = tok.size
  BY <1>7
<1>9. k \in { l \in Reader!Kinds \X ends \X (Reader!Sizes \cup {<< >>}) :
               l[2] = Reader!Max(ends) /\ Reader!Lexeme(from, l[2], l[1], l[3]) }
  <2>1. k \in Reader!Kinds \X ends \X (Reader!Sizes \cup {<< >>})
    BY <1>2, <1>3, <1>7
  <2>2. k[2] = Reader!Max(ends) /\ Reader!Lexeme(from, k[2], k[1], k[3])
    BY <1>2, <1>6, <1>8
  <2> QED BY <2>1, <2>2
<1> QED
  BY <1>5, <1>8, <1>9

LEMMA NoneThere ==
  ASSUME TypeOK, NEW from \in 0 .. sz, Unexpected(from)
  PROVE  LexemesAt(from) = {}
<1>1. ASSUME NEW j \in from + 1 .. sz PROVE ~Reader!IsLexeme(from, j)
  BY UnexpectedBeginsNone DEF Reader!IsLexeme
<1>2. {j \in from + 1 .. sz : Reader!IsLexeme(from, j)} = {}
  BY <1>1
<1> QED
  BY <1>2 DEF LexemesAt

-----------------------------------------------------------------------------
(* What comes next does not change until the token is read.                *)
LEMMA LexemeFixed ==
  ASSUME UNCHANGED buf
  PROVE  /\ Reader!Size' = Reader!Size
         /\ \A i, j, t, size : Reader!Lexeme(i, j, t, size)' <=> Reader!Lexeme(i, j, t, size)
         /\ \A i, j : Reader!IsLexeme(i, j)' <=> Reader!IsLexeme(i, j)
<1>1. Reader!Size' = Reader!Size
  BY DEF Reader!Size
<1>2. \A i, j : Reader!Slice(i, j)' = Reader!Slice(i, j)
  BY DEF Reader!Slice
<1>3. ASSUME NEW i, NEW j, NEW size
      PROVE  Reader!IsLiteral(i, j, size)' <=> Reader!IsLiteral(i, j, size)
  BY <1>1, <1>2 DEF Reader!IsLiteral
<1>4. ASSUME NEW i, NEW j, NEW t, NEW size
      PROVE  Reader!Lexeme(i, j, t, size)' <=> Reader!Lexeme(i, j, t, size)
  <2>1. Reader!Slice(i, j)' = Reader!Slice(i, j)
    BY <1>2
  <2>2. Reader!IsName(Reader!Slice(i, j))' <=> Reader!IsName(Reader!Slice(i, j))
    BY <2>1
  <2>3. (<<Reader!Slice(i, j), t>> \in Reader!Fixed)'
          <=> <<Reader!Slice(i, j), t>> \in Reader!Fixed
    BY <2>1
  <2>4. (\A k \in Reader!Fixed : k[1] # Reader!Slice(i, j))'
          <=> \A k \in Reader!Fixed : k[1] # Reader!Slice(i, j)
    BY <2>1
  <2> QED BY <1>3, <2>2, <2>3, <2>4 DEF Reader!Lexeme
<1>5. \A i, j : Reader!IsLexeme(i, j)' <=> Reader!IsLexeme(i, j)
  BY <1>4, Zenon DEF Reader!IsLexeme
<1> QED
  BY <1>1, <1>4, <1>5

LEMMA BreaksFixed ==
  ASSUME UNCHANGED buf
  PROVE  /\ \A i, j : Reader!Breaks(i, j)' = Reader!Breaks(i, j)
         /\ \A t, from, to, size :
              Reader!Token(t, from, to, size)' = Reader!Token(t, from, to, size)
<1>1. ASSUME NEW i, NEW j PROVE Reader!Breaks(i, j)' = Reader!Breaks(i, j)
  BY DEF Reader!Breaks
<1>2. ASSUME NEW t, NEW from, NEW to, NEW size
      PROVE  Reader!Token(t, from, to, size)' = Reader!Token(t, from, to, size)
  BY <1>1 DEF Reader!Token
<1> QED
  BY <1>1, <1>2

LEMMA LexemesFixed ==
  ASSUME UNCHANGED buf, NEW from
  PROVE  LexemesAt(from)' = LexemesAt(from)
<1>1. PICK ends : ends = {j \in from + 1 .. sz : Reader!IsLexeme(from, j)}
  OBVIOUS
<1>2. sz' = sz
  BY DEF sz
<1>3. {j \in from + 1 .. sz : Reader!IsLexeme(from, j)}' = ends
  BY <1>1, <1>2, LexemeFixed
<1>4. PICK ls : ls = { l \in Reader!Kinds \X ends \X (Reader!Sizes \cup {<< >>}) :
                        l[2] = Reader!Max(ends) /\ Reader!Lexeme(from, l[2], l[1], l[3]) }
  OBVIOUS
<1>5. { l \in Reader!Kinds \X ends \X (Reader!Sizes \cup {<< >>}) :
         l[2] = Reader!Max(ends) /\ Reader!Lexeme(from, l[2], l[1], l[3])' } = ls
  BY <1>4, LexemeFixed
<1>6. {Reader!Token(k[1], from, k[2], k[3])' : k \in ls}
        = {Reader!Token(k[1], from, k[2], k[3]) : k \in ls}
  BY BreaksFixed
<1> QED
  BY <1>1, <1>3, <1>4, <1>5, <1>6 DEF LexemesAt

LEMMA ComingFixed ==
  ASSUME UNCHANGED <<buf, out>>
  PROVE  Reader!Coming' = Reader!Coming
<1>1. PICK here : here = LastTo /\ here = LastTo'
  BY DEF LastTo
<1>2. sz' = sz
  BY DEF sz
<1>3. PICK from : from = FirstText(here) /\ from = FirstText(here)'
  <2>1. {i \in here .. sz : i = sz \/ buf[i + 1] \notin Reader!Blank}'
          = {i \in here .. sz : i = sz \/ buf[i + 1] \notin Reader!Blank}
    BY <1>2
  <2> QED BY <2>1 DEF FirstText
<1>4. Reader!Coming = ComingFrom(here, from)
  BY <1>1, <1>3, ComingSplit
<1>5. Reader!Coming' = ComingFrom(here, from)'
  <2>1. (Reader!Coming = ComingFrom(LastTo, FirstText(LastTo)))'
    BY ComingSplit, PTL
  <2> QED BY <1>1, <1>3, <2>1
<1>6. PICK breaks : breaks = Breaks(here, from) /\ breaks = Breaks(here, from)'
  BY BreaksFixed, ReaderSlice DEF Breaks, At
<1>7. PICK first : first = Reader!Min(breaks) + 1
  OBVIOUS
<1>8. /\ Reader!Token("TOK_NEWLINE", first, first, << >>)'
           = Reader!Token("TOK_NEWLINE", first, first, << >>)
      /\ Reader!Token("TOK_EOF", from, from, << >>)' = Reader!Token("TOK_EOF", from, from, << >>)
      /\ LexemesAt(from)' = LexemesAt(from)
  BY BreaksFixed, LexemesFixed
<1>9. ComingFrom(here, from)' = ComingFrom(here, from)
  BY <1>2, <1>6, <1>7, <1>8 DEF ComingFrom
<1> QED
  BY <1>4, <1>5, <1>9

-----------------------------------------------------------------------------
(* A fetch is what the reader says next.                                   *)
LEMMA FetchIsComing ==
  ASSUME TypeOK, LineCounts, CursorBehind, NEW tok, lexer_fetch(tok)
  PROVE  tok \in Reader!Coming /\ tok = Token(tok.t, tok.from, tok.to, tok.size)
<1>1. end \in 0 .. sz /\ sz \in Nat
  BY BufIsText DEF TypeOK
<1>2. PICK from : from = skip_whitespace
  OBVIOUS
<1>3. from \in end .. sz /\ from \in 0 .. sz
  BY <1>1, <1>2, SkipStops
<1>4. \E t, to, size : tok = Token(t, from, to, size)
  BY <1>2, MadeIsToken DEF lexer_fetch
<1>5. PICK t, to, size : tok = Token(t, from, to, size)
  BY <1>4
<1>6. tok.t = t /\ tok.from = from /\ tok.to = to /\ tok.size = size
  BY <1>5 DEF Token
<1>7. tok = Reader!Token(t, from, to, size)
  BY <1>3, <1>5, TokenIsReaders
<1>8. CASE FoundNewline
  <2>1. tok = Token("TOK_NEWLINE", from, from, << >>)
    BY <1>2, <1>8 DEF lexer_fetch
  <2>2. tok = Reader!Token("TOK_NEWLINE", from, from, << >>)
    BY <1>3, <2>1, TokenIsReaders
  <2> QED BY <1>2, <1>5, <1>6, <1>8, <2>2, ComingIs
<1>9. CASE ~FoundNewline /\ from = sz
  <2>1. tok = Token("TOK_EOF", from, from, << >>)
    BY <1>1, <1>2, <1>9 DEF lexer_fetch
  <2>2. tok = Reader!Token("TOK_EOF", from, from, << >>)
    BY <1>3, <2>1, TokenIsReaders
  <2> QED BY <1>2, <1>5, <1>6, <1>9, <2>2, ComingIs
<1>10. CASE ~FoundNewline /\ from # sz
  <2>1. MakeAt(from, tok) /\ from \in 0 .. sz - 1
    BY <1>1, <1>2, <1>3, <1>10 DEF lexer_fetch
  <2>2. Longest(from, tok)
    BY <2>1, MadeLongest
  <2>3. tok \in LexemesAt(from)
    BY <1>3, <1>6, <1>7, <2>2, LongestIsThere
  <2> QED BY <1>2, <1>5, <1>6, <1>10, <2>3, ComingIs
<1> QED
  BY <1>8, <1>9, <1>10

LEMMA UnexpectedIsFail ==
  ASSUME TypeOK, CursorBehind, Unexpected(skip_whitespace)
  PROVE  Reader!Coming = {}
<1>1. end \in 0 .. sz /\ sz \in Nat
  BY BufIsText DEF TypeOK
<1>2. PICK from : from = skip_whitespace
  OBVIOUS
<1>3. from \in 0 .. sz
  BY <1>1, <1>2, SkipStops
<1>4. from # sz /\ ~FoundNewline
  BY <1>1, <1>2, <1>3 DEF Unexpected
<1>5. LexemesAt(from) = {}
  BY <1>2, <1>3, NoneThere
<1> QED
  BY <1>2, <1>4, <1>5, ComingIs

(* What a fetch leaves counts the newlines before the new cursor, there    *)
(* being none in a token.                                                  *)
LEMMA FetchCounts ==
  ASSUME TypeOK, LineCounts, CursorBehind, NEW tok, lexer_fetch(tok), UNCHANGED buf
  PROVE  LineCounts'
<1>1. Continues(tok) /\ end' = tok.to /\ line' = tok.line
  BY FetchContinues
<1>2. end \in 0 .. sz /\ sz \in Nat /\ tok \in Tokens
  BY <1>1, BufIsText DEF TypeOK, Continues
<1>3. PICK from, to : from = tok.from /\ to = tok.to
  OBVIOUS
<1>4. from \in end .. sz /\ to \in from .. sz
  BY <1>1, <1>2, <1>3 DEF Continues, Tokens
<1>5. line' = line + Cardinality(Breaks(end, from))
  BY <1>1, <1>3, FetchIsComing DEF Token
<1>6. Cardinality(Breaks(end, from)) \in Nat
  <2>1. Breaks(end, from) \subseteq end .. from - 1 /\ IsFiniteSet(end .. from - 1)
    BY <1>2, <1>4, FS_Interval DEF Breaks
  <2> QED BY <2>1, FS_Subset, FS_CardinalityType
<1>7. line' = 1 + Cardinality(Breaks(0, from))
  BY <1>4, <1>5, <1>6, BreaksJoined DEF LineCounts
<1>8. \A k \in from .. to - 1 : At(k) # "\n"
  BY <1>1, <1>3 DEF Continues, Blank
<1>9. Breaks(0, to) = Breaks(0, from)
  BY <1>2, <1>4, <1>8 DEF Breaks
<1>10. Breaks(0, to)' = Breaks(0, to)
  BY DEF Breaks, At
<1>11. (1 + Cardinality(Breaks(0, end)))' = 1 + Cardinality(Breaks(0, to))
  BY <1>1, <1>3, <1>10 DEF Breaks, At
<1> QED
  BY <1>7, <1>9, <1>11 DEF LineCounts

(* The inductive invariant: besides the tiling and lex.prev, the token     *)
(* looked ahead is the one that comes next.                                *)
RInv ==
  /\ SInv /\ LineCounts
  /\ Fetched = << >> => prev = "TOK_ADD"
  /\ peekf => peek \in Reader!Coming

LEMMA NoLookahead == RInv /\ ~peekf => CursorBehind
<1> SUFFICES ASSUME RInv, ~peekf PROVE CursorBehind
  OBVIOUS
<1>1. Fetched = out /\ out \in Seq(Tokens)
  BY DEF RInv, SInv, IInv, TypeOK, Fetched
<1>2. end = LastTo
  BY <1>1 DEF RInv, SInv, IInv, Tile, LastTo
<1>3. CASE out = << >>
  <2>1. "TOK_ADD" \notin EndsStatement
    BY DEF EndsStatement
  <2> QED BY <1>1, <1>2, <1>3, <2>1 DEF RInv, CursorBehind, needs_newline
<1>4. CASE out # << >>
  <2>1. out[Len(out)].t = prev
    BY <1>1, <1>4 DEF RInv, SInv, LastKept
  <2> QED BY <1>2, <1>4, <2>1 DEF CursorBehind, needs_newline
<1> QED
  BY <1>3, <1>4

LEMMA NextReads ==
  ASSUME RInv, NextFetched
  PROVE  RInv' /\ Reader!Next
<1>1. PICK tok : tok = ret'
  OBVIOUS
<1>2. TypeOK /\ CursorBehind /\ LineCounts
  BY NoLookahead DEF RInv, SInv, IInv, NextFetched
<1>3. /\ lexer_fetch(tok) /\ UNCHANGED <<buf, peek, peekf, outcome>> /\ ~peekf
      /\ out' = Append(out, tok) /\ prev' = tok.t /\ outcome = "running"
  BY <1>1 DEF NextFetched, MayCall
<1>4. SInv'
  BY SeparatedStays DEF RInv, Next, lexer_next
<1>5. LineCounts'
  BY <1>2, <1>3, FetchCounts
<1>6. Fetched' # << >>
  <2>1. Fetched' = Append(out, tok) /\ out \in Seq(Tokens)
    BY <1>2, <1>3 DEF Fetched, TypeOK
  <2> QED BY <2>1, AppendProperties
<1>7. tok \in Reader!Coming
  BY <1>2, <1>3, FetchIsComing
<1>8. Reader!Next
  BY <1>1, <1>3, <1>7 DEF Reader!Next, Reader!Read
<1> QED
  BY <1>3, <1>4, <1>5, <1>6, <1>8 DEF RInv

LEMMA PeekShows ==
  ASSUME RInv, PeekFetched
  PROVE  RInv' /\ Reader!Next
<1>1. PICK tok : tok = ret'
  OBVIOUS
<1>2. TypeOK /\ CursorBehind /\ LineCounts
  BY NoLookahead DEF RInv, SInv, IInv, PeekFetched
<1>3. /\ lexer_fetch(tok) /\ UNCHANGED <<buf, out, outcome>> /\ ~peekf
      /\ peek' = tok /\ peekf' = TRUE /\ prev' = tok.t /\ outcome = "running"
  BY <1>1 DEF PeekFetched, MayCall
<1>4. SInv'
  BY SeparatedStays DEF RInv, Next, lexer_peek
<1>5. LineCounts'
  BY <1>2, <1>3, FetchCounts
<1>6. Fetched' # << >>
  <2>1. Fetched' = Append(out, tok) /\ out \in Seq(Tokens)
    BY <1>2, <1>3 DEF Fetched, TypeOK
  <2> QED BY <2>1, AppendProperties
<1>7. tok \in Reader!Coming
  BY <1>2, <1>3, FetchIsComing
<1>8. Reader!Next
  BY <1>1, <1>3, <1>7 DEF Reader!Next, Reader!Peek
<1>9. peek' \in Reader!Coming'
  BY <1>3, <1>7, ComingFixed
<1> QED
  BY <1>4, <1>5, <1>6, <1>8, <1>9 DEF RInv

LEMMA LineStays ==
  ASSUME LineCounts, UNCHANGED <<buf, end, line>>
  PROVE  LineCounts'
<1>1. Breaks(0, end)' = Breaks(0, end)
  BY DEF Breaks, At
<1> QED
  BY <1>1 DEF LineCounts

LEMMA ReaderSteps == RInv /\ [Next]_vars => RInv' /\ [Reader!Next]_Reader!vars
<1> SUFFICES ASSUME RInv, [Next]_vars PROVE RInv' /\ [Reader!Next]_Reader!vars
  OBVIOUS
<1>1. SInv'
  BY SeparatedStays DEF RInv
<1>2. CASE NextFetched
  BY <1>2, NextReads
<1>3. CASE PeekFetched
  BY <1>3, PeekShows
<1>4. CASE NextPeeked
  <2>1. Fetched' = Fetched /\ UNCHANGED <<buf, end, line, prev>> /\ ~peekf'
    BY <1>4 DEF NextPeeked, Fetched
  <2>2. Reader!Next
    BY <1>4 DEF RInv, NextPeeked, MayCall, Reader!Next, Reader!Read
  <2> QED BY <1>1, <2>1, <2>2, LineStays DEF RInv
<1>5. CASE PeekAgain
  <2>1. Fetched' = Fetched /\ UNCHANGED <<buf, end, line, prev, peek, peekf, out>>
    BY <1>5 DEF PeekAgain, Fetched
  <2>2. Reader!Next
    BY <1>5 DEF RInv, PeekAgain, MayCall, Reader!Next, Reader!Peek
  <2> QED BY <1>1, <2>1, <2>2, LineStays, ComingFixed DEF RInv
<1>6. CASE log_unexpected_char
  <2>1. Fetched' = Fetched /\ UNCHANGED <<buf, end, line, prev, peek, peekf, out, ret>>
    BY <1>6 DEF log_unexpected_char, lex, Fetched
  <2>2. TypeOK /\ CursorBehind
    BY <1>6, NoLookahead DEF RInv, SInv, IInv, log_unexpected_char
  <2>3. Reader!Coming = {}
    BY <1>6, <2>2, UnexpectedIsFail DEF log_unexpected_char
  <2>4. Reader!Next
    BY <1>6, <2>1, <2>3 DEF log_unexpected_char, MayCall, Reader!Next, Reader!Fail
  <2> QED BY <1>1, <2>1, <2>4, LineStays, ComingFixed DEF RInv
<1>7. CASE UNCHANGED vars
  <2>1. Fetched' = Fetched /\ UNCHANGED <<buf, end, line, prev, peek, peekf, out, ret, outcome>>
    BY <1>7 DEF vars, Fetched
  <2>2. UNCHANGED Reader!vars
    BY <2>1 DEF Reader!vars
  <2> QED BY <1>1, <2>1, <2>2, LineStays, ComingFixed DEF RInv
<1> QED
  BY <1>2, <1>3, <1>4, <1>5, <1>6, <1>7 DEF Next, lexer_next, lexer_peek

LEMMA ReaderBegins == lexer_init => RInv /\ Reader!Init
<1> SUFFICES ASSUME lexer_init PROVE RInv /\ Reader!Init
  OBVIOUS
<1>1. IInv
  BY InitIInv
<1>2. Fetched = << >>
  BY DEF lexer_init, Fetched
<1>3. SInv
  <2>1. LastKept(<< >>) /\ AllApart(<< >>)
    BY EmptySeq DEF LastKept, AllApart
  <2> QED BY <1>1, <1>2, <2>1 DEF SInv
<1>4. LineCounts
  <2>1. end = 0 /\ line = 1
    BY DEF lexer_init
  <2>2. Breaks(0, 0) = {}
    BY DEF Breaks
  <2> QED BY <2>1, <2>2, FS_EmptySet DEF LineCounts
<1>5. Reader!Init
  BY DEF lexer_init, Reader!Init
<1> QED
  BY <1>3, <1>4, <1>5 DEF lexer_init, RInv

(* In every file and whichever way the parser looks ahead (lexer.h:83-86,  *)
(* lexer.c:78-313): each call returns the longest lexeme of the text that  *)
(* follows the token read last, with its place and line, or the newline or *)
(* the end that stands there; lexer_peek shows what lexer_next then        *)
(* returns; and only a character that begins no lexeme is reported.        *)
THEOREM ReadsTokens == Spec => ImplementsReader
<1>1. RInv /\ [Next]_vars => RInv' /\ [Reader!Next]_Reader!vars
  BY ReaderSteps
<1> QED
  BY <1>1, ReaderBegins, PTL DEF Spec, ImplementsReader, Reader!Spec

===========================================================================
