-------------------------- MODULE SymTable_proofs --------------------------
(***************************************************************************)
(* For every number of buckets, every set of names and whatever their      *)
(* hashes: an entry hangs in one chain of one scope, that of its bucket,   *)
(* and every chain is in the order of the insertions, newest first.  If    *)
(* memcmp also tells the names of each bucket apart (NamesApart), the      *)
(* table is the lexical scopes of LexicalScopes.tla.                       *)
(***************************************************************************)
EXTENDS SymTableScopes, FiniteSetTheorems, WellFoundedInduction, TLAPS

Buckets == 0 .. INIT_BUCKETS - 1
NoType == [t |-> "null"]
Entries == [pos : Names, type : {NoType}, id : {0}, fn : {<< >>}]
Scopes == [up : Seq(Nat), buckets : [Buckets -> Seq(Nat)]]

(* What scope and entry lists are, as far as the chains need it.           *)
TableTyped ==
  /\ scopes \in Seq(Scopes)
  /\ entries \in Seq(Entries)

(* A chain of the bucket b, of entries of the list ents.                   *)
Chained(chain, b, ents) ==
  /\ \A k \in 1 .. Len(chain) : /\ chain[k] \in 1 .. Len(ents)
                                /\ bucket_of(ents[chain[k]].pos) = b
  /\ \A j, k \in 1 .. Len(chain) : j < k => chain[j] > chain[k]

Held(e) == {scope \in 1 .. Len(scopes) : e \in InScope(scope)}

(* The inductive invariant: the chains, and for every entry the one scope  *)
(* that holds it, by name instead of by number.                            *)
TableInv ==
  /\ TableTyped
  /\ \A scope \in 1 .. Len(scopes), b \in Buckets : Chained(scopes[scope].buckets[b], b, entries)
  /\ \A e \in 1 .. Len(entries) : \E s \in 1 .. Len(scopes) : Held(e) = {s}

-----------------------------------------------------------------------------
(***************************************************************************)
(* Chains.                                                                 *)
(***************************************************************************)

(* A set of numbers that is not empty has a least one.                     *)
LEMMA Least ==
  ASSUME NEW S \in SUBSET Nat, S # {}
  PROVE  \E least \in S : \A other \in S : least <= other
<1> DEFINE Less == OpToRel(<, Nat)
<1>1. \A a, b \in Nat : a < b => <<a, b>> \in Less
  BY DEF OpToRel
<1>2. IsWellFoundedOn(Less, Nat)
  BY NatLessThanWellFounded
<1> HIDE DEF Less
<1>3. PICK least \in S : \A other \in S : ~(<<other, least>> \in Less)
  BY <1>2, WFMin
<1>4. \A other \in S : ~(other < least)
  BY <1>1, <1>3
<1> QED
  BY <1>4

LEMMA ConsParts ==
  ASSUME NEW q \in Seq(Nat), NEW x \in Nat, NEW c, c = <<x>> \o q
  PROVE  /\ c \in Seq(Nat) /\ Len(c) = Len(q) + 1 /\ Len(q) \in Nat /\ c[1] = x
         /\ \A k \in 1 .. Len(c) : k = 1 \/ (k - 1 \in 1 .. Len(q) /\ c[k] = q[k - 1])
         /\ \A k \in 1 .. Len(q) : k + 1 \in 1 .. Len(c) /\ c[k + 1] = q[k]
OBVIOUS

(* What is in a chain that grew at its front.                              *)
LEMMA RangeCons ==
  ASSUME NEW q \in Seq(Nat), NEW x \in Nat
  PROVE  Range(<<x>> \o q) = Range(q) \cup {x}
<1> DEFINE c == <<x>> \o q
<1>1. /\ c \in Seq(Nat) /\ Len(c) = Len(q) + 1 /\ Len(q) \in Nat /\ c[1] = x
      /\ \A k \in 1 .. Len(c) : k = 1 \/ (k - 1 \in 1 .. Len(q) /\ c[k] = q[k - 1])
      /\ \A k \in 1 .. Len(q) : k + 1 \in 1 .. Len(c) /\ c[k + 1] = q[k]
  BY ConsParts
<1> HIDE DEF c
<1>2. /\ 1 \in 1 .. Len(c) /\ DOMAIN c = 1 .. Len(c) /\ DOMAIN q = 1 .. Len(q)
  BY <1>1
<1>3. ASSUME NEW e \in Range(c) PROVE e \in Range(q) \cup {x}
  <2>1. PICK k \in 1 .. Len(c) : e = c[k]
    BY <1>2 DEF Range
  <2>2. k = 1 \/ (k - 1 \in 1 .. Len(q) /\ c[k] = q[k - 1])
    BY <1>1
  <2> QED BY <1>1, <1>2, <2>1, <2>2 DEF Range
<1>4. ASSUME NEW e \in Range(q) \cup {x} PROVE e \in Range(c)
  <2>1. CASE e = x
    BY <2>1, <1>1, <1>2 DEF Range
  <2>2. CASE e # x
    <3>1. PICK k \in 1 .. Len(q) : e = q[k]
      BY <2>2, <1>2 DEF Range
    <3>2. k + 1 \in 1 .. Len(c) /\ c[k + 1] = e
      BY <1>1, <3>1
    <3> QED BY <1>2, <3>2 DEF Range
  <2> QED BY <2>1, <2>2
<1> QED
  BY <1>3, <1>4 DEF c

(* A chain stays one when an entry is made ...                             *)
LEMMA ChainStays ==
  ASSUME NEW q \in Seq(Nat), NEW b, NEW ents \in Seq(Entries), NEW more \in Seq(Entries),
         Len(more) = Len(ents) + 1,
         \A e \in 1 .. Len(ents) : more[e] = ents[e],
         Chained(q, b, ents)
  PROVE  Chained(q, b, more)
<1>1. ASSUME NEW k \in 1 .. Len(q)
      PROVE  q[k] \in 1 .. Len(more) /\ bucket_of(more[q[k]].pos) = b
  <2>1. q[k] \in 1 .. Len(ents) /\ bucket_of(ents[q[k]].pos) = b
    BY DEF Chained
  <2>2. more[q[k]] = ents[q[k]]
    BY <2>1
  <2>3. Len(ents) \in Nat
    OBVIOUS
  <2> QED BY <2>1, <2>2, <2>3
<1> QED
  BY <1>1 DEF Chained

(* ... and when that entry is put in front of it.                          *)
LEMMA ChainGrows ==
  ASSUME NEW q \in Seq(Nat), NEW b, NEW ents \in Seq(Entries), NEW more \in Seq(Entries),
         NEW x, x = Len(ents) + 1, Len(more) = x,
         \A e \in 1 .. Len(ents) : more[e] = ents[e],
         Chained(q, b, ents), bucket_of(more[x].pos) = b
  PROVE  Chained(<<x>> \o q, b, more)
<1> DEFINE c == <<x>> \o q
<1>0. x \in Nat /\ Len(ents) \in Nat
  OBVIOUS
<1>1. /\ c \in Seq(Nat) /\ Len(c) = Len(q) + 1 /\ Len(q) \in Nat /\ c[1] = x
      /\ \A k \in 1 .. Len(c) : k = 1 \/ (k - 1 \in 1 .. Len(q) /\ c[k] = q[k - 1])
  BY <1>0, ConsParts
<1> HIDE DEF c
<1>2. Chained(q, b, more)
  BY ChainStays
<1>3. \A k \in 1 .. Len(q) : q[k] \in 1 .. Len(ents)
  BY DEF Chained
<1>4. ASSUME NEW k \in 1 .. Len(c)
      PROVE  c[k] \in 1 .. Len(more) /\ bucket_of(more[c[k]].pos) = b
  <2>1. CASE k = 1
    BY <2>1, <1>0, <1>1
  <2>2. CASE k # 1
    <3>1. k - 1 \in 1 .. Len(q) /\ c[k] = q[k - 1]
      BY <2>2, <1>1
    <3>2. q[k - 1] \in 1 .. Len(more) /\ bucket_of(more[q[k - 1]].pos) = b
      BY <1>2, <3>1 DEF Chained
    <3> QED BY <3>1, <3>2
  <2> QED BY <2>1, <2>2
<1>5. ASSUME NEW j \in 1 .. Len(c), NEW k \in 1 .. Len(c), j < k
      PROVE  c[j] > c[k]
  <2>1. k # 1 /\ k - 1 \in 1 .. Len(q) /\ c[k] = q[k - 1]
    <3>1. k # 1
      BY <1>1, <1>5
    <3> QED BY <1>1, <3>1
  <2>2. CASE j = 1
    <3>1. q[k - 1] \in 1 .. Len(ents)
      BY <1>3, <2>1
    <3> QED BY <1>0, <1>1, <2>1, <2>2, <3>1, SMTT(60)
  <2>3. CASE j # 1
    <3>1. j - 1 \in 1 .. Len(q) /\ c[j] = q[j - 1]
      BY <1>1, <2>3
    <3>2. j - 1 < k - 1
      BY <1>1, <1>5
    <3>3. q[j - 1] > q[k - 1]
      BY <1>2, <2>1, <3>1, <3>2 DEF Chained
    <3> QED BY <2>1, <3>1, <3>3
  <2> QED BY <2>2, <2>3
<1> QED
  BY <1>4, <1>5 DEF Chained, c

LEMMA BucketInRange ==
  ASSUME NEW pos \in Names
  PROVE  bucket_of(pos) \in Buckets
<1>1. hash_str[pos] \in Nat /\ INIT_BUCKETS \in Nat \ {0}
  BY SymTableAssumption
<1>2. hash_str[pos] % INIT_BUCKETS \in 0 .. INIT_BUCKETS - 1
  BY <1>1, Z3
<1> QED
  BY <1>2 DEF bucket_of, Buckets

LEMMA InScopeMeans ==
  ASSUME NEW s, NEW e
  PROVE  e \in InScope(s) <=>
           \E b \in Buckets : \E k \in DOMAIN scopes[s].buckets[b] : scopes[s].buckets[b][k] = e
BY DEF InScope, Buckets, Range

(* With the invariant, a scope holds none but existing entries.            *)
LEMMA HeldExist ==
  ASSUME TableInv, NEW s \in 1 .. Len(scopes), NEW e \in InScope(s)
  PROVE  e \in 1 .. Len(entries)
<1>1. PICK b \in Buckets : \E k \in DOMAIN scopes[s].buckets[b] : scopes[s].buckets[b][k] = e
  BY InScopeMeans
<1>2. scopes[s].buckets[b] \in Seq(Nat)
  <2>1. scopes[s] \in Scopes
    BY DEF TableInv, TableTyped
  <2> QED BY <2>1 DEF Scopes
<1>3. DOMAIN scopes[s].buckets[b] = 1 .. Len(scopes[s].buckets[b])
  BY <1>2
<1>4. Chained(scopes[s].buckets[b], b, entries)
  BY DEF TableInv
<1> QED
  BY <1>1, <1>3, <1>4 DEF Chained

(* The invariant says what ChainsSound says.                               *)
LEMMA InvImpliesSound == TableInv => ChainsSound
<1> SUFFICES ASSUME TableInv PROVE ChainsSound
  OBVIOUS
<1>1. ASSUME NEW e \in 1 .. Len(entries)
      PROVE  Cardinality({scope \in 1 .. Len(scopes) : e \in InScope(scope)}) = 1
  <2>1. PICK s \in 1 .. Len(scopes) : {scope \in 1 .. Len(scopes) : e \in InScope(scope)} = {s}
    BY DEF TableInv, Held
  <2> QED BY <2>1, FS_Singleton
<1> QED
  BY <1>1 DEF TableInv, Chained, ChainsSound, Buckets

LEMMA InitTable == TableInit => TableInv
<1> SUFFICES ASSUME TableInit PROVE TableInv
  OBVIOUS
<1>1. /\ scopes = <<Scope(<< >>)>> /\ entries = << >>
  BY DEF TableInit
<1>2. Scope(<< >>) \in Scopes
  BY DEF Scope, Scopes, Buckets
<1>3. TableTyped /\ Len(entries) = 0 /\ Len(scopes) = 1 /\ scopes[1] = Scope(<< >>)
  BY <1>1, <1>2 DEF TableTyped
<1>4. ASSUME NEW b \in Buckets PROVE Len(scopes[1].buckets[b]) = 0
  BY <1>3 DEF Scope, Buckets
<1> QED
  BY <1>3, <1>4 DEF TableInv, Chained

-----------------------------------------------------------------------------
(* scope_init: the new scope has empty chains.                             *)
LEMMA ScopeKeeps ==
  ASSUME TableInv, NEW up \in 1 .. Len(scopes), scope_init(up)
  PROVE  TableInv'
<1> DEFINE n == Len(scopes)
           new == Scope(<<up>> \o scopes[up].up)
<1>1. scopes' = Append(scopes, new) /\ entries' = entries
  BY DEF scope_init
<1>2. scopes \in Seq(Scopes) /\ n \in Nat /\ up \in Nat /\ scopes[up] \in Scopes
  BY DEF TableInv, TableTyped
<1>3. new \in Scopes /\ \A b \in Buckets : new.buckets[b] = << >>
  <2>1. <<up>> \o scopes[up].up \in Seq(Nat)
    BY <1>2 DEF Scopes
  <2> QED BY <2>1 DEF Scope, Scopes, Buckets
<1> HIDE DEF new
<1>4. /\ scopes' \in Seq(Scopes) /\ Len(scopes') = n + 1
      /\ scopes'[n + 1] = new
      /\ \A s \in 1 .. n : scopes'[s] = scopes[s]
  BY <1>1, <1>2, <1>3
<1>5. TableTyped'
  BY <1>1, <1>4 DEF TableInv, TableTyped
<1>6. ASSUME NEW s \in 1 .. Len(scopes'), NEW b \in Buckets
      PROVE  Chained(scopes'[s].buckets[b], b, entries')
  <2>1. CASE s \in 1 .. n
    <3>1. Chained(scopes[s].buckets[b], b, entries)
      BY <2>1 DEF TableInv
    <3> QED BY <3>1, <1>1, <1>4, <2>1
  <2>2. CASE s = n + 1
    <3>1. scopes'[s].buckets[b] = << >>
      BY <2>2, <1>3, <1>4
    <3> QED BY <3>1 DEF Chained
  <2> QED BY <2>1, <2>2, <1>2, <1>4
<1>7. ASSUME NEW e \in 1 .. Len(entries)
      PROVE  \E s \in 1 .. Len(scopes') : Held(e)' = {s}
  <2>1. PICK s \in 1 .. n : Held(e) = {s}
    BY DEF TableInv
  <2>2. \A t \in 1 .. n : InScope(t)' = InScope(t)
    BY <1>4 DEF InScope
  <2>3. \A t \in 1 .. Len(scopes') : t \in 1 .. n \/ InScope(t)' = {}
    <3>1. ASSUME NEW t, t = n + 1 PROVE InScope(t)' = {}
      <4>1. ASSUME NEW b \in Buckets PROVE Range(scopes'[t].buckets[b]) = {}
        <5>1. scopes'[t].buckets[b] = << >>
          BY <1>3, <1>4, <3>1
        <5>2. Range(<< >>) = {}
          BY DEF Range
        <5> QED BY <5>1, <5>2
      <4> QED BY <4>1 DEF InScope, Buckets
    <3>2. \A t \in 1 .. n + 1 : t \in 1 .. n \/ t = n + 1
      BY <1>2
    <3> QED BY <1>4, <3>1, <3>2
  <2>4. Held(e)' = Held(e)
    <3>1. 1 .. n \subseteq 1 .. Len(scopes')
      BY <1>2, <1>4
    <3> QED BY <2>2, <2>3, <3>1 DEF Held
  <2> QED BY <2>1, <2>4, <1>2, <1>4
<1> QED
  BY <1>1, <1>5, <1>6, <1>7 DEF TableInv

(* scope_insert, of a name that is not found: the new entry is the newest  *)
(* of all, and goes to the front of the chain of its bucket.               *)
LEMMA EntryMade ==
  ASSUME TableInv, NEW scope \in 1 .. Len(scopes), NEW pos \in Names,
         find_in(scope, pos) = NULL, scope_insert(scope, pos, NoType)
  PROVE  LET h == bucket_of(pos)
             x == Len(entries) + 1 IN
         /\ entries' \in Seq(Entries) /\ Len(entries') = x
         /\ entries'[x].pos = pos
         /\ \A e \in 1 .. Len(entries) : entries'[e] = entries[e]
         /\ scopes' \in Seq(Scopes) /\ Len(scopes') = Len(scopes)
         /\ \A s \in 1 .. Len(scopes) : scopes'[s].up = scopes[s].up
         /\ scopes'[scope].buckets[h] = <<x>> \o scopes[scope].buckets[h]
         /\ \A b \in Buckets \ {h} : scopes'[scope].buckets[b] = scopes[scope].buckets[b]
         /\ \A s \in 1 .. Len(scopes) \ {scope} : scopes'[s] = scopes[s]
         /\ InScope(scope)' = InScope(scope) \cup {x}
         /\ \A s \in 1 .. Len(scopes) \ {scope} : InScope(s)' = InScope(s)
<1> DEFINE n == Len(scopes)
           h == bucket_of(pos)
           x == Len(entries) + 1
           old == scopes[scope].buckets[h]
<1>1. /\ entries' = Append(entries, ScopeEntry(pos, NoType))
      /\ scopes' = [scopes EXCEPT ![scope].buckets[h] = <<x>> \o @]
  BY DEF scope_insert
<1>2. /\ scopes \in Seq(Scopes) /\ n \in Nat /\ scopes[scope] \in Scopes
      /\ entries \in Seq(Entries) /\ Len(entries) \in Nat
      /\ h \in Buckets /\ old \in Seq(Nat)
  <2>1. /\ scopes \in Seq(Scopes) /\ entries \in Seq(Entries)
    BY DEF TableInv, TableTyped
  <2>2. n \in Nat /\ scopes[scope] \in Scopes /\ Len(entries) \in Nat
    BY <2>1
  <2>3. h \in Buckets
    BY BucketInRange
  <2> HIDE DEF h
  <2>4. old \in Seq(Nat)
    BY <2>2, <2>3 DEF Scopes
  <2> QED BY <2>1, <2>2, <2>3, <2>4
<1> HIDE DEF h
<1>3. ScopeEntry(pos, NoType) \in Entries /\ ScopeEntry(pos, NoType).pos = pos
  BY DEF ScopeEntry, Entries
<1>4. /\ entries' \in Seq(Entries) /\ Len(entries') = x
      /\ entries'[x].pos = pos
      /\ \A e \in 1 .. Len(entries) : entries'[e] = entries[e]
  BY <1>1, <1>2, <1>3
<1>5. <<x>> \o old \in Seq(Nat)
  BY <1>2
<1>6. /\ scopes' \in Seq(Scopes) /\ Len(scopes') = n
      /\ scopes'[scope].buckets[h] = <<x>> \o old
      /\ \A b \in Buckets \ {h} : scopes'[scope].buckets[b] = scopes[scope].buckets[b]
      /\ \A s \in 1 .. n \ {scope} : scopes'[s] = scopes[s]
      /\ scopes'[scope].up = scopes[scope].up
  <2> DEFINE bs == [scopes[scope].buckets EXCEPT ![h] = <<x>> \o @]
             sc == [scopes[scope] EXCEPT !.buckets = bs]
  <2>1. scopes[scope].buckets \in [Buckets -> Seq(Nat)]
    BY <1>2 DEF Scopes
  <2>2. /\ bs \in [Buckets -> Seq(Nat)] /\ bs[h] = <<x>> \o old
        /\ \A b \in Buckets \ {h} : bs[b] = scopes[scope].buckets[b]
    BY <2>1, <1>2, <1>5
  <2>3. scopes' = [scopes EXCEPT ![scope] = sc]
    BY <1>1
  <2> HIDE DEF bs
  <2>4. sc \in Scopes /\ sc.buckets = bs /\ sc.up = scopes[scope].up
    BY <1>2, <2>2 DEF Scopes
  <2> HIDE DEF sc
  <2>5. scopes' \in Seq(Scopes) /\ Len(scopes') = n /\ scopes'[scope] = sc
        /\ \A s \in 1 .. n \ {scope} : scopes'[s] = scopes[s]
    BY <1>2, <2>3, <2>4
  <2> QED BY <2>2, <2>4, <2>5
<1>9. /\ InScope(scope)' = InScope(scope) \cup {x}
      /\ \A s \in 1 .. n \ {scope} : InScope(s)' = InScope(s)
  <2>1. \A s \in 1 .. n \ {scope} : InScope(s)' = InScope(s)
    BY <1>6 DEF InScope
  <2>2. Range(<<x>> \o old) = Range(old) \cup {x}
    BY <1>2, RangeCons
  <2>3. ASSUME NEW e
        PROVE  e \in InScope(scope)' <=> e \in InScope(scope) \cup {x}
    <3>1. e \in InScope(scope)' <=> \E b \in Buckets : e \in Range(scopes'[scope].buckets[b])
      BY DEF InScope, Buckets
    <3>2. e \in InScope(scope) <=> \E b \in Buckets : e \in Range(scopes[scope].buckets[b])
      BY DEF InScope, Buckets
    <3>3. \A b \in Buckets : e \in Range(scopes'[scope].buckets[b]) <=>
                               \/ e \in Range(scopes[scope].buckets[b])
                               \/ b = h /\ e = x
      BY <1>6, <2>2
    <3> QED BY <1>2, <3>1, <3>2, <3>3
  <2> QED BY <2>1, <2>3
<1> QED
  BY <1>4, <1>6, <1>9 DEF h

(* The chains and their holders stay as they should be.                    *)
LEMMA EntryKeeps ==
  ASSUME TableInv, NEW scope \in 1 .. Len(scopes), NEW pos \in Names,
         find_in(scope, pos) = NULL, scope_insert(scope, pos, NoType)
  PROVE  TableInv'
<1> DEFINE n == Len(scopes)
           h == bucket_of(pos)
           x == Len(entries) + 1
           old == scopes[scope].buckets[h]
<1>h. h = bucket_of(pos)
  OBVIOUS
<1>2. n \in Nat /\ Len(entries) \in Nat /\ h \in Buckets /\ old \in Seq(Nat)
  <2>1. /\ scopes \in Seq(Scopes) /\ entries \in Seq(Entries)
    BY DEF TableInv, TableTyped
  <2>2. n \in Nat /\ scopes[scope] \in Scopes /\ Len(entries) \in Nat
    BY <2>1
  <2>3. h \in Buckets
    BY BucketInRange
  <2> HIDE DEF h
  <2> QED BY <2>2, <2>3 DEF Scopes
<1>4. /\ entries' \in Seq(Entries) /\ Len(entries') = x
      /\ entries'[x].pos = pos
      /\ \A e \in 1 .. Len(entries) : entries'[e] = entries[e]
  BY EntryMade
<1>6. /\ scopes' \in Seq(Scopes) /\ Len(scopes') = n
      /\ scopes'[scope].buckets[h] = <<x>> \o old
      /\ \A b \in Buckets \ {h} : scopes'[scope].buckets[b] = scopes[scope].buckets[b]
      /\ \A s \in 1 .. n \ {scope} : scopes'[s] = scopes[s]
  BY EntryMade
<1>9. /\ InScope(scope)' = InScope(scope) \cup {x}
      /\ \A s \in 1 .. n \ {scope} : InScope(s)' = InScope(s)
  BY EntryMade
<1> HIDE DEF h
<1>7. TableTyped'
  BY <1>4, <1>6 DEF TableTyped
<1>8. ASSUME NEW s \in 1 .. n, NEW b \in Buckets
      PROVE  Chained(scopes'[s].buckets[b], b, entries')
  <2>1. Chained(scopes[s].buckets[b], b, entries) /\ scopes[s].buckets[b] \in Seq(Nat)
    <3>1. scopes[s] \in Scopes
      BY DEF TableInv, TableTyped
    <3>2. scopes[s].buckets[b] \in Seq(Nat)
      BY <3>1 DEF Scopes
    <3> QED BY <3>2 DEF TableInv
  <2>2. CASE s = scope /\ b = h
    <3>1. bucket_of(entries'[x].pos) = b
      BY <2>2, <1>4, <1>h
    <3>2. scopes'[s].buckets[b] = <<x>> \o old /\ scopes[s].buckets[b] = old
      BY <2>2, <1>6
    <3>3. x = Len(entries) + 1
      OBVIOUS
    <3>4. entries \in Seq(Entries)
      BY DEF TableInv, TableTyped
    <3> HIDE DEF x, old
    <3> QED BY <2>1, <3>1, <3>2, <3>3, <3>4, <1>2, <1>4, ChainGrows
  <2>3. CASE ~(s = scope /\ b = h)
    <3>1. scopes'[s].buckets[b] = scopes[s].buckets[b]
      BY <2>3, <1>6
    <3>2. entries \in Seq(Entries)
      BY DEF TableInv, TableTyped
    <3> QED BY <2>1, <3>1, <3>2, <1>2, <1>4, ChainStays
  <2> QED BY <2>2, <2>3
<1>a. ASSUME NEW e \in 1 .. x
      PROVE  \E s \in 1 .. n : Held(e)' = {s}
  <2>1. CASE e = x
    <3>1. \A s \in 1 .. n : x \notin InScope(s)
      <4>1. x \notin 1 .. Len(entries)
        BY <1>2
      <4> QED BY <4>1, HeldExist
    <3>2. Held(e)' = {scope}
      BY <2>1, <3>1, <1>6, <1>9 DEF Held
    <3> QED BY <3>2
  <2>2. CASE e # x
    <3>1. e \in 1 .. Len(entries)
      BY <2>2, <1>2
    <3>2. Held(e)' = Held(e)
      BY <2>2, <1>6, <1>9 DEF Held
    <3> QED BY <3>1, <3>2 DEF TableInv
  <2> QED BY <2>1, <2>2
<1> QED
  BY <1>4, <1>6, <1>7, <1>8, <1>a DEF TableInv

-----------------------------------------------------------------------------
LEMMA TableStep == TableInv /\ [TableNext]_tableVars => TableInv'
<1> SUFFICES ASSUME TableInv, [TableNext]_tableVars PROVE TableInv'
  OBVIOUS
<1>1. ASSUME UNCHANGED <<scopes, entries>> PROVE TableInv'
  BY <1>1, SMTT(60) DEF TableInv, TableTyped, Held, InScope
<1>2. ASSUME NEW scope \in 1 .. Len(scopes), NewScope(scope) PROVE TableInv'
  BY <1>2, ScopeKeeps DEF NewScope
<1>3. ASSUME NEW scope \in 1 .. Len(scopes), NEW pos \in Names, Insert(scope, pos)
      PROVE  TableInv'
  <2>1. scope_insert(scope, pos, NoType)
    BY <1>3 DEF Insert, NoType
  <2>2. CASE find_in(scope, pos) = NULL
    BY <2>1, <2>2, EntryKeeps
  <2>3. CASE find_in(scope, pos) # NULL
    BY <2>1, <2>3, <1>1 DEF scope_insert
  <2> QED BY <2>2, <2>3
<1>4. ASSUME NEW scope, NEW pos, Find(scope, pos) PROVE TableInv'
  BY <1>1, <1>4 DEF Find
<1>5. CASE UNCHANGED tableVars
  BY <1>1, <1>5 DEF tableVars
<1> QED
  BY <1>2, <1>3, <1>4, <1>5 DEF TableNext

(* However many scopes and entries are made and whatever the names hash to *)
(* (symtable.c:34-50), an entry hangs in the chain of its bucket of one    *)
(* scope, and each chain is newest first, without a cycle.                 *)
THEOREM ChainsStaySound == TableSpec => []ChainsSound
<1>1. TableSpec => []TableInv
  BY InitTable, TableStep, PTL DEF TableSpec
<1> QED
  BY <1>1, InvImpliesSound, PTL

-----------------------------------------------------------------------------
(***************************************************************************)
(* The table as lexical scopes.  memcmp over the shorter length takes two  *)
(* names of a chain for the same when one begins the other; apart from     *)
(* that the refinement holds, and this is the assumption it needs.         *)
(***************************************************************************)
(* Declared, of any set of entries.                                        *)
MapOf(S, ents) ==
  [name \in {ents[e].pos : e \in S} |-> CHOOSE e \in S : ents[e].pos = name]
NamedOnce(S, ents) == \A d, e \in S : ents[d].pos = ents[e].pos => d = e

LEMMA MapValue ==
  ASSUME NEW S, NEW ents, NamedOnce(S, ents), NEW e \in S
  PROVE  MapOf(S, ents)[ents[e].pos] = e
<1> DEFINE Is(d) == ents[d].pos = ents[e].pos
<1>1. MapOf(S, ents)[ents[e].pos] = CHOOSE d \in S : Is(d)
  BY DEF MapOf
<1>2. e \in S /\ Is(e)
  OBVIOUS
<1>3. \A d \in S : Is(d) => d = e
  BY DEF NamedOnce
<1> HIDE DEF Is
<1> QED BY <1>1, <1>2, <1>3

LEMMA MapSame ==
  ASSUME NEW S, NEW ents, NEW more, NamedOnce(S, ents),
         \A e \in S : more[e].pos = ents[e].pos
  PROVE  MapOf(S, more) = MapOf(S, ents)
<1>1. NamedOnce(S, more)
  BY DEF NamedOnce
<1>2. DOMAIN MapOf(S, more) = DOMAIN MapOf(S, ents)
  BY DEF MapOf
<1>3. ASSUME NEW name \in DOMAIN MapOf(S, ents)
      PROVE  MapOf(S, more)[name] = MapOf(S, ents)[name]
  <2>1. PICK e \in S : name = ents[e].pos
    BY DEF MapOf
  <2> QED BY <1>1, <2>1, MapValue
<1>4. /\ MapOf(S, more) = [name \in DOMAIN MapOf(S, more) |-> MapOf(S, more)[name]]
      /\ MapOf(S, ents) = [name \in DOMAIN MapOf(S, ents) |-> MapOf(S, ents)[name]]
  BY DEF MapOf
<1> QED
  BY <1>2, <1>3, <1>4

LEMMA MapGrows ==
  ASSUME NEW S, NEW ents, NEW more, NEW x, NamedOnce(S, ents), x \notin S,
         \A e \in S : more[e].pos = ents[e].pos,
         more[x].pos \notin DOMAIN MapOf(S, ents)
  PROVE  /\ NamedOnce(S \cup {x}, more)
         /\ MapOf(S \cup {x}, more) =
              [n \in {more[x].pos} \cup DOMAIN MapOf(S, ents) |->
                 IF n = more[x].pos THEN x ELSE MapOf(S, ents)[n]]
<1> DEFINE T == S \cup {x}
           name == more[x].pos
           grown == [n \in {name} \cup DOMAIN MapOf(S, ents) |->
                       IF n = name THEN x ELSE MapOf(S, ents)[n]]
<1>1. \A e \in S : more[e].pos # name
  BY DEF MapOf
<1>2. NamedOnce(T, more)
  BY <1>1 DEF NamedOnce
<1>3. DOMAIN MapOf(T, more) = {name} \cup DOMAIN MapOf(S, ents)
  BY DEF MapOf
<1>4. ASSUME NEW n \in {name} \cup DOMAIN MapOf(S, ents)
      PROVE  MapOf(T, more)[n] = grown[n]
  <2>1. CASE n = name
    BY <1>2, <2>1, MapValue
  <2>2. CASE n # name
    <3>1. PICK e \in S : n = ents[e].pos
      BY <2>2 DEF MapOf
    <3>2. MapOf(T, more)[n] = e
      BY <1>2, <3>1, MapValue
    <3>3. MapOf(S, ents)[n] = e
      BY <3>1, MapValue
    <3> QED BY <2>2, <3>2, <3>3
  <2> QED BY <2>1, <2>2
<1>5. MapOf(T, more) = [n \in DOMAIN MapOf(T, more) |-> MapOf(T, more)[n]]
  BY DEF MapOf
<1>6. MapOf(T, more) = grown
  BY <1>3, <1>4, <1>5
<1> QED
  BY <1>2, <1>6

LEMMA EmptyMap == ASSUME NEW ents PROVE MapOf({}, ents) = << >>
<1>1. MapOf({}, ents) = [name \in {} |-> 0]
  BY DEF MapOf
<1>2. DOMAIN << >> = {} /\ << >> = [name \in {} |-> 0]
  OBVIOUS
<1> QED BY <1>1, <1>2

LEMMA Wider == ASSUME NEW n \in Nat, NEW q \in Seq(1 .. n) PROVE q \in Seq(1 .. n + 1)
<1>1. Len(q) \in Nat /\ DOMAIN q = 1 .. Len(q) /\ \A k \in 1 .. Len(q) : q[k] \in 1 .. n + 1
  OBVIOUS
<1> QED
  BY <1>1

LEMMA OneScope == ASSUME NEW env PROVE [s \in 1 .. 1 |-> env] = <<env>>
OBVIOUS

LEMMA AppendOfFunction ==
  ASSUME NEW n \in Nat, NEW t, t = [s \in 1 .. n |-> t[s]], NEW x
  PROVE  [s \in 1 .. n + 1 |-> IF s = n + 1 THEN x ELSE t[s]] = Append(t, x)
<1> DEFINE U == {t[s] : s \in 1 .. n} \cup {x}
           more == [s \in 1 .. n + 1 |-> IF s = n + 1 THEN x ELSE t[s]]
<1>1. t \in Seq(U) /\ x \in U /\ Len(t) = n
  OBVIOUS
<1>2. /\ Append(t, x) \in Seq(U) /\ Len(Append(t, x)) = n + 1
      /\ \A s \in 1 .. n : Append(t, x)[s] = t[s]
      /\ Append(t, x)[n + 1] = x
  BY <1>1
<1>3. more \in Seq(U) /\ Len(more) = n + 1
  <2>1. more \in [1 .. n + 1 -> U] /\ n + 1 \in Nat
    OBVIOUS
  <2> HIDE DEF more
  <2> QED BY <2>1
<1> QED
  BY <1>2, <1>3

LEMMA TableLength == ASSUME NEW n \in Nat, DOMAIN Table = 1 .. n PROVE Len(Table) = n
<1>1. Table = [s \in 1 .. n |-> Table[s]]
  BY DEF Table
<1> QED
  BY <1>1

LEMMA DeclaredIsMap ==
  ASSUME NEW scope
  PROVE  Declared(scope) = MapOf(InScope(scope), entries)
BY DEF Declared, MapOf

(* The invariant of the refinement: no name has two entries in a scope,    *)
(* and the scopes around one are scopes.                                   *)
ScopesInv ==
  /\ TableInv
  /\ \A s \in 1 .. Len(scopes) :
       /\ NamedOnce(InScope(s), entries)
       /\ scopes[s].up \in Seq(1 .. Len(scopes))

-----------------------------------------------------------------------------
(* What lookup in one scope returns.                                       *)
LEMMA FindIsMap ==
  ASSUME NamesApart, ScopesInv, NEW s \in 1 .. Len(scopes), NEW pos \in Names
  PROVE  /\ find_in(s, pos) = IF pos \in DOMAIN Declared(s) THEN Declared(s)[pos] ELSE NULL
         /\ find_in(s, pos) # NULL <=> pos \in DOMAIN Declared(s)
<1> DEFINE h == bucket_of(pos)
           chain == scopes[s].buckets[h]
           hit(k) == same_name(pos, entries[chain[k]].pos)
           First(k) == hit(k) /\ \A j \in 1 .. k - 1 : ~hit(j)
<1>0. TableInv /\ h \in Buckets /\ NamedOnce(InScope(s), entries)
  BY BucketInRange DEF ScopesInv
<1>1. /\ scopes[s].buckets \in [Buckets -> Seq(Nat)] /\ chain \in Seq(Nat)
      /\ entries \in Seq(Entries)
  <2>1. scopes[s] \in Scopes /\ entries \in Seq(Entries)
    BY <1>0 DEF TableInv, TableTyped
  <2> QED BY <1>0, <2>1 DEF Scopes
<1>2. /\ \A k \in 1 .. Len(chain) : /\ chain[k] \in 1 .. Len(entries)
                                    /\ bucket_of(entries[chain[k]].pos) = h
                                    /\ entries[chain[k]].pos \in Names
  <2>1. Chained(chain, h, entries)
    BY <1>0 DEF TableInv
  <2>2. \A e \in 1 .. Len(entries) : entries[e].pos \in Names
    <3>1. \A e \in 1 .. Len(entries) : entries[e] \in Entries
      BY <1>1
    <3> QED BY <3>1 DEF Entries
  <2> QED BY <2>1, <2>2 DEF Chained
<1>3. \A k \in 1 .. Len(chain) : hit(k) <=> entries[chain[k]].pos = pos
  BY <1>2 DEF NamesApart, same_name
<1>4. \A k \in 1 .. Len(chain) : chain[k] \in InScope(s)
  BY <1>0, <1>1, InScopeMeans
<1>5. \A e \in InScope(s) : entries[e].pos = pos => \E k \in 1 .. Len(chain) : chain[k] = e
  <2> SUFFICES ASSUME NEW e \in InScope(s), entries[e].pos = pos
               PROVE  \E k \in 1 .. Len(chain) : chain[k] = e
    OBVIOUS
  <2>1. PICK b \in Buckets : \E k \in DOMAIN scopes[s].buckets[b] : scopes[s].buckets[b][k] = e
    BY InScopeMeans
  <2>2. DOMAIN scopes[s].buckets[b] = 1 .. Len(scopes[s].buckets[b])
    BY <1>1
  <2>3. b = h
    <3>1. Chained(scopes[s].buckets[b], b, entries)
      BY <1>0 DEF TableInv
    <3> QED BY <2>1, <2>2, <3>1 DEF Chained
  <2> QED BY <2>1, <2>2, <2>3
<1>6. pos \in DOMAIN Declared(s) <=> \E e \in InScope(s) : entries[e].pos = pos
  BY DEF Declared
<1>7. find_in(s, pos) = IF \E k \in 1 .. Len(chain) : hit(k)
                        THEN chain[CHOOSE k \in 1 .. Len(chain) : First(k)] ELSE NULL
  BY DEF find_in
<1>8. CASE \E k \in 1 .. Len(chain) : hit(k)
  <2> DEFINE hits == {k \in 1 .. Len(chain) : hit(k)}
  <2>1. PICK k \in hits : \A j \in hits : k <= j
    <3>1. hits \in SUBSET Nat
      <4>1. 1 .. Len(chain) \subseteq Nat
        OBVIOUS
      <4> QED BY <4>1, Zenon
    <3>2. hits # {}
      BY <1>8, Zenon
    <3> HIDE DEF hits
    <3> QED BY <3>1, <3>2, Least
  <2>2. k \in 1 .. Len(chain) /\ First(k)
    <3>1. k \in 1 .. Len(chain) /\ hit(k)
      BY Zenon
    <3>2. ASSUME NEW j \in 1 .. k - 1 PROVE ~hit(j)
      <4>1. j \in 1 .. Len(chain) /\ ~(k <= j)
        BY <1>1
      <4> QED BY <2>1, <4>1, Zenon
    <3> QED BY <3>1, <3>2, Zenon
  <2> HIDE DEF First
  <2>3. PICK i \in 1 .. Len(chain) : First(i) /\ i = CHOOSE j \in 1 .. Len(chain) : First(j)
    BY <2>2
  <2>4. hit(i)
    BY <2>3 DEF First
  <2> HIDE DEF hit
  <2>5. find_in(s, pos) = chain[i]
    BY <1>7, <1>8, <2>3
  <2>6. chain[i] \in InScope(s) /\ entries[chain[i]].pos = pos /\ chain[i] \in 1 .. Len(entries)
    BY <1>2, <1>3, <1>4, <2>3, <2>4
  <2>7. Declared(s)[pos] = chain[i]
    BY <1>0, <2>6, DeclaredIsMap, MapValue
  <2> QED BY <1>6, <2>5, <2>6, <2>7 DEF NULL
<1>9. CASE ~\E k \in 1 .. Len(chain) : hit(k)
  <2>1. pos \notin DOMAIN Declared(s)
    BY <1>3, <1>5, <1>6, <1>9
  <2> QED BY <1>7, <1>9, <2>1
<1> QED
  BY <1>8, <1>9

-----------------------------------------------------------------------------
(* scope_insert, of a name that is not found, as a declaration.            *)
LEMMA InsertDeclares ==
  ASSUME NamesApart, ScopesInv, NEW scope \in 1 .. Len(scopes), NEW pos \in Names,
         find_in(scope, pos) = NULL, scope_insert(scope, pos, NoType)
  PROVE  /\ ScopesInv'
         /\ pos \notin DOMAIN Declared(scope)
         /\ Len(entries') = Len(entries) + 1 /\ Len(scopes') = Len(scopes)
         /\ \A s \in 1 .. Len(scopes) : scopes'[s].up = scopes[s].up
         /\ \A s \in 1 .. Len(scopes) \ {scope} : Declared(s)' = Declared(s)
         /\ Declared(scope)' = [n \in {pos} \cup DOMAIN Declared(scope) |->
                                  IF n = pos THEN Len(entries) + 1 ELSE Declared(scope)[n]]
<1> DEFINE x == Len(entries) + 1
<1>1. TableInv /\ pos \notin DOMAIN Declared(scope)
  BY FindIsMap DEF ScopesInv
<1>2. /\ TableInv'
      /\ Len(entries') = x /\ Len(scopes') = Len(scopes) /\ entries'[x].pos = pos
      /\ \A e \in 1 .. Len(entries) : entries'[e] = entries[e]
      /\ \A s \in 1 .. Len(scopes) : scopes'[s].up = scopes[s].up
      /\ InScope(scope)' = InScope(scope) \cup {x}
      /\ \A s \in 1 .. Len(scopes) \ {scope} : InScope(s)' = InScope(s)
  BY <1>1, EntryKeeps, EntryMade
<1>3. ASSUME NEW s \in 1 .. Len(scopes)
      PROVE  /\ \A e \in InScope(s) : e \in 1 .. Len(entries) /\ entries'[e].pos = entries[e].pos
             /\ NamedOnce(InScope(s), entries)
  BY <1>1, <1>2, HeldExist DEF ScopesInv
<1>4. x \notin InScope(scope)
  <2>1. x \notin 1 .. Len(entries)
    <3>1. Len(entries) \in Nat
      BY <1>1 DEF TableInv, TableTyped
    <3> QED BY <3>1
  <2> QED BY <1>3, <2>1
<1>5. /\ NamedOnce(InScope(scope) \cup {x}, entries')
      /\ MapOf(InScope(scope) \cup {x}, entries') =
           [n \in {pos} \cup DOMAIN MapOf(InScope(scope), entries) |->
              IF n = pos THEN x ELSE MapOf(InScope(scope), entries)[n]]
  <2>1. entries'[x].pos \notin DOMAIN MapOf(InScope(scope), entries)
    BY <1>1, <1>2, DeclaredIsMap
  <2> HIDE DEF x
  <2>2. /\ NamedOnce(InScope(scope), entries)
        /\ \A e \in InScope(scope) : entries'[e].pos = entries[e].pos
    BY <1>3
  <2>3. PICK S, ents, more, y :
          S = InScope(scope) /\ ents = entries /\ more = entries' /\ y = x
    OBVIOUS
  <2>4. /\ NamedOnce(S, ents) /\ y \notin S /\ more[y].pos \notin DOMAIN MapOf(S, ents)
        /\ \A e \in S : more[e].pos = ents[e].pos
    BY <1>4, <2>1, <2>2, <2>3
  <2>5. /\ NamedOnce(S \cup {y}, more)
        /\ MapOf(S \cup {y}, more) =
             [n \in {more[y].pos} \cup DOMAIN MapOf(S, ents) |->
                IF n = more[y].pos THEN y ELSE MapOf(S, ents)[n]]
    BY <2>4, MapGrows
  <2>6. more[y].pos = pos
    BY <1>2, <2>3
  <2> QED BY <2>3, <2>5, <2>6
<1>6. Declared(scope)' = MapOf(InScope(scope) \cup {x}, entries')
  BY <1>2 DEF Declared, MapOf
<1>7. ASSUME NEW s \in 1 .. Len(scopes) \ {scope}
      PROVE  Declared(s)' = Declared(s) /\ NamedOnce(InScope(s), entries')
  <2>1. Declared(s)' = MapOf(InScope(s), entries')
    BY <1>2 DEF Declared, MapOf
  <2>2. MapOf(InScope(s), entries') = MapOf(InScope(s), entries)
    BY <1>3, MapSame
  <2>3. NamedOnce(InScope(s), entries')
    BY <1>3 DEF NamedOnce
  <2> QED BY <2>1, <2>2, <2>3, DeclaredIsMap
<1>8. ScopesInv'
  <2>1. ASSUME NEW s \in 1 .. Len(scopes)
        PROVE  NamedOnce(InScope(s)', entries') /\ scopes'[s].up \in Seq(1 .. Len(scopes'))
    <3>1. scopes'[s].up \in Seq(1 .. Len(scopes'))
      BY <1>2 DEF ScopesInv
    <3>2. CASE s = scope
      BY <1>2, <1>5, <3>1, <3>2
    <3>3. CASE s # scope
      BY <1>2, <1>7, <3>1, <3>3
    <3> QED BY <3>2, <3>3
  <2> QED BY <1>2, <2>1 DEF ScopesInv, NamedOnce
<1> QED
  BY <1>1, <1>2, <1>5, <1>6, <1>7, <1>8, DeclaredIsMap

(* scope_init, as an environment inside another.                           *)
LEMMA InitEnters ==
  ASSUME ScopesInv, NEW up \in 1 .. Len(scopes), scope_init(up)
  PROVE  /\ ScopesInv' /\ Len(scopes) \in Nat
         /\ entries' = entries /\ Len(scopes') = Len(scopes) + 1
         /\ \A s \in 1 .. Len(scopes) : /\ scopes'[s].up = scopes[s].up
                                        /\ Declared(s)' = Declared(s)
         /\ scopes'[Len(scopes) + 1].up = <<up>> \o scopes[up].up
         /\ \A t : t = Len(scopes) + 1 => Declared(t)' = << >>
<1> DEFINE n == Len(scopes)
           new == Scope(<<up>> \o scopes[up].up)
<1>1. TableInv /\ TableInv'
  BY ScopeKeeps DEF ScopesInv
<1>2. /\ scopes' = Append(scopes, new) /\ entries' = entries
      /\ scopes \in Seq(Scopes) /\ n \in Nat
  BY <1>1 DEF scope_init, TableInv, TableTyped
<1>3. /\ new.up = <<up>> \o scopes[up].up
      /\ \A b \in Buckets : new.buckets[b] = << >>
  BY DEF Scope, Buckets
<1> HIDE DEF new
<1>4. /\ Len(scopes') = n + 1 /\ scopes'[n + 1] = new
      /\ \A s \in 1 .. n : scopes'[s] = scopes[s]
  BY <1>2
<1>5. \A s \in 1 .. n : InScope(s)' = InScope(s) /\ Declared(s)' = Declared(s)
  BY <1>2, <1>4 DEF InScope, Declared
<1>6. ASSUME NEW t, t = n + 1
      PROVE  InScope(t)' = {} /\ Declared(t)' = << >>
  <2>1. ASSUME NEW b \in Buckets PROVE Range(scopes'[t].buckets[b]) = {}
    <3>1. scopes'[t].buckets[b] = << >>
      BY <1>3, <1>4, <1>6
    <3>2. Range(<< >>) = {}
      BY DEF Range
    <3> QED BY <3>1, <3>2
  <2>2. InScope(t)' = {}
    BY <2>1 DEF InScope, Buckets
  <2>3. Declared(t)' = MapOf({}, entries')
    BY <2>2 DEF Declared, MapOf
  <2> QED BY <2>2, <2>3, EmptyMap
<1>8. ScopesInv'
  <2>1. ASSUME NEW s, s \in 1 .. n + 1
        PROVE  NamedOnce(InScope(s)', entries') /\ scopes'[s].up \in Seq(1 .. n + 1)
    <3>1. CASE s \in 1 .. n
      <4>1. NamedOnce(InScope(s), entries) /\ scopes[s].up \in Seq(1 .. n)
        BY <3>1 DEF ScopesInv
      <4>2. scopes[s].up \in Seq(1 .. n + 1)
        BY <1>2, <4>1, Wider
      <4> QED BY <1>2, <1>4, <1>5, <3>1, <4>1, <4>2
    <3>2. CASE s = n + 1
      <4>1. scopes[up].up \in Seq(1 .. n)
        BY DEF ScopesInv
      <4>2. <<up>> \o scopes[up].up \in Seq(1 .. n + 1)
        <5>1. scopes[up].up \in Seq(1 .. n + 1) /\ up \in 1 .. n + 1
          BY <1>2, <4>1, Wider
        <5> QED BY <5>1
      <4>3. NamedOnce(InScope(s)', entries')
        BY <1>6, <3>2 DEF NamedOnce
      <4> QED BY <1>3, <1>4, <3>2, <4>2, <4>3
    <3> QED BY <1>2, <2>1, <3>1, <3>2
  <2> QED BY <1>1, <1>4, <2>1 DEF ScopesInv, NamedOnce
<1> QED
  BY <1>2, <1>3, <1>4, <1>5, <1>6, <1>8

LEMMA ScopesStay == NamesApart => (ScopesInv /\ [TableNext]_tableVars => ScopesInv')
<1> SUFFICES ASSUME NamesApart, ScopesInv, [TableNext]_tableVars PROVE ScopesInv'
  OBVIOUS
<1>1. ASSUME UNCHANGED <<scopes, entries>> PROVE ScopesInv'
  <2>1. TableInv'
    BY <1>1 DEF ScopesInv, TableInv, TableTyped, Held, InScope
  <2>2. \A s : InScope(s)' = InScope(s)
    BY <1>1 DEF InScope
  <2> QED BY <1>1, <2>1, <2>2 DEF ScopesInv, NamedOnce
<1>2. ASSUME NEW scope \in 1 .. Len(scopes), NewScope(scope) PROVE ScopesInv'
  BY <1>2, InitEnters DEF NewScope
<1>3. ASSUME NEW scope \in 1 .. Len(scopes), NEW pos \in Names, Insert(scope, pos)
      PROVE  ScopesInv'
  <2>1. scope_insert(scope, pos, NoType)
    BY <1>3 DEF Insert, NoType
  <2>2. CASE find_in(scope, pos) = NULL
    BY <2>1, <2>2, InsertDeclares
  <2>3. CASE find_in(scope, pos) # NULL
    BY <2>1, <2>3, <1>1 DEF scope_insert
  <2> QED BY <2>2, <2>3
<1>4. ASSUME NEW scope, NEW pos, Find(scope, pos) PROVE ScopesInv'
  BY <1>1, <1>4 DEF Find
<1>5. CASE UNCHANGED tableVars
  BY <1>1, <1>5 DEF tableVars
<1> QED
  BY <1>2, <1>3, <1>4, <1>5 DEF TableNext

LEMMA InitScopes == TableInit => ScopesInv /\ LS!Init
<1> SUFFICES ASSUME TableInit PROVE ScopesInv /\ LS!Init
  OBVIOUS
<1>1. /\ scopes = <<Scope(<< >>)>> /\ entries = << >> /\ call = << >>
  BY DEF TableInit
<1>2. Len(scopes) = 1 /\ scopes[1].up = << >> /\ Len(entries) = 0
  BY <1>1 DEF Scope
<1>3. InScope(1) = {}
  <2>1. ASSUME NEW b \in Buckets PROVE Range(scopes[1].buckets[b]) = {}
    <3>1. scopes[1].buckets[b] = << >>
      BY <1>1 DEF Scope, Buckets
    <3>2. Range(<< >>) = {}
      BY DEF Range
    <3> QED BY <3>1, <3>2
  <2> QED BY <2>1 DEF InScope, Buckets
<1>4. Declared(1) = << >>
  BY <1>3, DeclaredIsMap, EmptyMap
<1>5. ScopesInv
  <2>1. NamedOnce({}, entries) /\ << >> \in Seq(1 .. 1)
    BY DEF NamedOnce
  <2>2. \A s \in 1 .. Len(scopes) : s = 1
    BY <1>2
  <2> QED BY <1>2, <1>3, <2>1, <2>2, InitTable DEF ScopesInv
<1>6. Table = <<LS!Environment(<< >>)>>
  <2>1. Table = [s \in 1 .. 1 |-> LS!Environment(<< >>)]
    BY <1>2, <1>4 DEF Table, LS!Environment
  <2> QED BY <2>1, OneScope
<1> QED
  BY <1>1, <1>2, <1>5, <1>6 DEF LS!Init

(* Lookups: the first scope of the path that has the name gives its entry. *)
LEMMA FindLooksUp ==
  ASSUME NamesApart, ScopesInv, NEW scope \in 1 .. Len(scopes), NEW pos \in Names,
         Find(scope, pos)
  PROVE  LS!Lookup(scope, pos)
<1> DEFINE path == <<scope>> \o scopes[scope].up
           hits == {k \in 1 .. Len(path) : find_in(path[k], pos) # NULL}
           Declares(k) == pos \in DOMAIN Table[path[k]].names
<1>1. scopes[scope].up \in Seq(1 .. Len(scopes)) /\ path \in Seq(1 .. Len(scopes))
  BY DEF ScopesInv
<1>2. Table[scope].up = scopes[scope].up
  BY DEF Table
<1> HIDE DEF path
<1>3. Len(path) \in Nat /\ \A k \in 1 .. Len(path) : path[k] \in 1 .. Len(scopes)
  BY <1>1
<1>4. ASSUME NEW k \in 1 .. Len(path)
      PROVE  /\ Table[path[k]].names = Declared(path[k])
             /\ k \in hits <=> Declares(k)
             /\ k \in hits => find_in(path[k], pos) = Table[path[k]].names[pos]
  <2>1. Table[path[k]].names = Declared(path[k])
    BY <1>3 DEF Table
  <2>2. /\ find_in(path[k], pos) # NULL <=> pos \in DOMAIN Declared(path[k])
        /\ find_in(path[k], pos) =
             IF pos \in DOMAIN Declared(path[k]) THEN Declared(path[k])[pos] ELSE NULL
    BY <1>3, FindIsMap
  <2> QED BY <2>1, <2>2
<1>5. /\ call' = <<"find", scope, pos, scope_find(scope, pos)>>
      /\ scopes' = scopes /\ entries' = entries
  BY DEF Find
<1>6. Table' = Table
  BY <1>5 DEF Table, Declared, InScope
<1>7. scope_find(scope, pos) =
        IF hits = {} THEN NULL
        ELSE find_in(path[CHOOSE k \in hits : \A j \in hits : k <= j], pos)
  BY DEF scope_find, path
<1>8. \/ /\ \A k \in 1 .. Len(path) : ~Declares(k)
         /\ call' = <<"find", scope, pos, 0>>
      \/ \E k \in 1 .. Len(path) :
           /\ Declares(k) /\ \A j \in 1 .. k - 1 : ~Declares(j)
           /\ call' = <<"find", scope, pos, Table[path[k]].names[pos]>>
  <2>1. CASE hits = {}
    BY <1>4, <1>5, <1>7, <2>1 DEF NULL
  <2>2. CASE hits # {}
    <3> DEFINE IsFirst(k) == \A j \in hits : k <= j
    <3>1. hits \in SUBSET Nat
      BY <1>3
    <3> HIDE DEF hits
    <3>2. \E k \in hits : IsFirst(k)
      BY <2>2, <3>1, Least
    <3>3. PICK k \in hits : IsFirst(k) /\ k = CHOOSE i \in hits : IsFirst(i)
      <4> HIDE DEF IsFirst
      <4> QED BY <3>2
    <3>4. k \in 1 .. Len(path)
      BY <3>3 DEF hits
    <3>5. ASSUME NEW j \in 1 .. k - 1 PROVE ~Declares(j)
      <4>1. j \in 1 .. Len(path) /\ j \notin hits
        <5>1. \A i \in hits : k <= i
          BY <3>3
        <5> HIDE DEF IsFirst
        <5> QED BY <1>3, <3>4, <5>1
      <4> QED BY <4>1, <1>4
    <3>6. scope_find(scope, pos) = find_in(path[k], pos)
      BY <1>7, <2>2, <3>3
    <3>7. Declares(k) /\ find_in(path[k], pos) = Table[path[k]].names[pos]
      BY <1>4, <3>3, <3>4
    <3> QED BY <1>5, <3>4, <3>5, <3>6, <3>7
  <2> QED BY <2>1, <2>2
<1>9. path = <<scope>> \o Table[scope].up
  BY <1>2 DEF path
<1> HIDE DEF hits
<1> QED
  BY <1>5, <1>6, <1>8, <1>9 DEF LS!Lookup

(* A step of the table is a step of the scopes.                            *)
LEMMA StepIsScopesStep ==
  NamesApart => (ScopesInv /\ [TableNext]_tableVars => [LS!Next]_(LS!vars))
<1> SUFFICES ASSUME NamesApart, ScopesInv, [TableNext]_tableVars
             PROVE  [LS!Next]_(LS!vars)
  OBVIOUS
<1> DEFINE n == Len(scopes)
<1>0. n \in Nat /\ DOMAIN Table = 1 .. n /\ Len(Table) = n
  <2>1. n \in Nat
    BY DEF ScopesInv, TableInv, TableTyped
  <2>2. DOMAIN Table = 1 .. n
    BY DEF Table
  <2> QED BY <2>1, <2>2, TableLength
<1>1. ASSUME NEW scope \in 1 .. n, NewScope(scope) PROVE LS!Enter(scope)
  <2>1. /\ entries' = entries /\ Len(scopes') = n + 1
        /\ \A s \in 1 .. n : scopes'[s].up = scopes[s].up /\ Declared(s)' = Declared(s)
        /\ scopes'[n + 1].up = <<scope>> \o scopes[scope].up
        /\ \A t : t = n + 1 => Declared(t)' = << >>
    BY <1>1, InitEnters DEF NewScope
  <2>2. call' = <<"init", scope, n + 1>>
    BY <1>1 DEF NewScope
  <2>3. Table[scope].up = scopes[scope].up
    BY DEF Table
  <2>4. Table' = Append(Table, LS!Environment(<<scope>> \o Table[scope].up))
    <3> DEFINE env == LS!Environment(<<scope>> \o Table[scope].up)
    <3>1. Table' = [s \in 1 .. n + 1 |-> [up |-> scopes'[s].up, names |-> Declared(s)']]
      BY <2>1 DEF Table
    <3>2. ASSUME NEW s \in 1 .. n
          PROVE  [up |-> scopes'[s].up, names |-> Declared(s)'] = Table[s]
      BY <2>1 DEF Table
    <3>3. ASSUME NEW s, s = n + 1
          PROVE  [up |-> scopes'[s].up, names |-> Declared(s)'] = env
      BY <2>1, <2>3, <3>3 DEF LS!Environment
    <3>4. Table' = [s \in 1 .. n + 1 |-> IF s = n + 1 THEN env ELSE Table[s]]
      <4>1. \A s \in 1 .. n + 1 : s = n + 1 \/ s \in 1 .. n
        BY <1>0
      <4>2. n + 1 \notin 1 .. n
        BY <1>0
      <4> HIDE DEF env
      <4> QED BY <3>1, <3>2, <3>3, <4>1, <4>2
    <3>5. Table = [s \in 1 .. n |-> Table[s]]
      BY DEF Table
    <3> QED BY <1>0, <3>4, <3>5, AppendOfFunction
  <2> QED BY <1>0, <2>1, <2>2, <2>4 DEF LS!Enter
<1>2. ASSUME NEW scope \in 1 .. n, NEW pos \in Names, Insert(scope, pos)
      PROVE  LS!Declare(scope, pos)
  <2>1. /\ scope_insert(scope, pos, NoType)
        /\ call' = <<"insert", scope, pos, scope_insert_result(scope, pos)>>
    BY <1>2 DEF Insert, NoType
  <2>2. Table[scope].names = Declared(scope)
    BY DEF Table
  <2>3. CASE find_in(scope, pos) = NULL
    <3>1. /\ pos \notin DOMAIN Declared(scope)
          /\ Len(entries') = Len(entries) + 1 /\ Len(scopes') = n
          /\ \A s \in 1 .. n : scopes'[s].up = scopes[s].up
          /\ \A s \in 1 .. n \ {scope} : Declared(s)' = Declared(s)
          /\ Declared(scope)' = [m \in {pos} \cup DOMAIN Declared(scope) |->
                                   IF m = pos THEN Len(entries) + 1 ELSE Declared(scope)[m]]
      BY <2>1, <2>3, InsertDeclares
    <3>2. call' = <<"insert", scope, pos, Len(entries) + 1>>
      BY <2>1, <2>3 DEF scope_insert_result
    <3>3. Table' = [Table EXCEPT ![scope].names =
                      [m \in {pos} \cup DOMAIN @ |->
                         IF m = pos THEN Len(entries) + 1 ELSE @[m]]]
      <4> DEFINE grown == [m \in {pos} \cup DOMAIN Declared(scope) |->
                             IF m = pos THEN Len(entries) + 1 ELSE Declared(scope)[m]]
      <4>1. Table' = [s \in 1 .. n |-> [up |-> scopes[s].up,
                                        names |-> IF s = scope THEN grown ELSE Declared(s)]]
        BY <3>1 DEF Table
      <4>2. Table' = [Table EXCEPT ![scope].names = grown]
        <5> HIDE DEF grown
        <5> QED BY <4>1 DEF Table
      <4> QED BY <2>2, <4>2
    <3> QED BY <2>2, <3>1, <3>2, <3>3 DEF LS!Declare
  <2>4. CASE find_in(scope, pos) # NULL
    <3>1. scopes' = scopes /\ entries' = entries
      BY <2>1, <2>4 DEF scope_insert
    <3>2. Table' = Table
      BY <3>1 DEF Table, Declared, InScope
    <3>3. call' = <<"insert", scope, pos, 0>>
      BY <2>1, <2>4 DEF scope_insert_result, NULL
    <3>4. pos \in DOMAIN Declared(scope)
      BY <2>4, FindIsMap
    <3> QED BY <2>2, <3>1, <3>2, <3>3, <3>4 DEF LS!Declare
  <2> QED BY <2>3, <2>4
<1>3. CASE UNCHANGED tableVars
  BY <1>3 DEF tableVars, LS!vars, Table, Declared, InScope
<1> QED
  BY <1>0, <1>1, <1>2, <1>3, FindLooksUp DEF TableNext, LS!Next

(* For every number of buckets, as long as memcmp tells the names of a     *)
(* bucket apart (symtable.c:34-67): a scope maps each name declared in it  *)
(* to the entry made for it, and a lookup gives the innermost declaration. *)
THEOREM TableIsScopes == NamesApart => (TableSpec => ImplementsScopes)
<1> SUFFICES ASSUME NamesApart PROVE TableSpec => ImplementsScopes
  OBVIOUS
<1>1. ScopesInv /\ [TableNext]_tableVars => ScopesInv'
  BY ScopesStay
<1>2. ScopesInv /\ [TableNext]_tableVars => [LS!Next]_(LS!vars)
  BY StepIsScopesStep
<1> QED
  BY <1>1, <1>2, InitScopes, PTL DEF TableSpec, ImplementsScopes, LS!Spec
===========================================================================
