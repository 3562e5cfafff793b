---------------------------- MODULE Args_proofs ----------------------------
(***************************************************************************)
(* For every command line of any length: reading it from left to right,    *)
(* and asking for the options one after the other, comes to what its words *)
(* mean taken each for itself, whichever way the compiler ends.            *)
(***************************************************************************)
EXTENDS Args, TLAPS

-----------------------------------------------------------------------------
(***************************************************************************)
(* The table of options.                                                   *)
(***************************************************************************)

LEMMA OptTable ==
  /\ DOMAIN opts = 1 .. 7
  /\ \A k \in 1 .. 7 : opts[k].required_arg = "ARG_NONE" <=> k # 6
  /\ \A k \in 1 .. 7 : opts[k].type = "OPT_STRING" <=> k = 6
  /\ opts[6].long_flag
  /\ opts[1].flag = <<"h">> /\ opts[2].flag = <<"v">>
  /\ opts[3].flag = <<"dump-", "ast">> /\ opts[4].flag = <<"dump-", "ir">>
  /\ opts[5].flag = <<"dump-", "reg">> /\ opts[6].flag = <<"platform">>
  /\ opts[7].flag = <<"list-platforms">>
BY DEF opts, Opt

LEMMA FlagsDiffer ==
  ASSUME NEW k \in 1 .. 7, NEW l \in 1 .. 7, opts[k].flag = opts[l].flag
  PROVE  k = l
BY OptTable

(* The options a word stands for, and the first of them.                   *)
LEMMA MeaningsAreOptions ==
  ASSUME NEW w
  PROVE  CL!Meanings(w) \subseteq 1 .. 7
BY OptTable DEF CL!Meanings

LEMMA LeastOption ==
  ASSUME NEW S, S \subseteq 1 .. 7, S # {}
  PROVE  \E k \in S : \A l \in S : k <= l
<1>1. CASE 1 \in S
  BY <1>1
<1>2. CASE 1 \notin S /\ 2 \in S
  BY <1>2
<1>3. CASE 1 \notin S /\ 2 \notin S /\ 3 \in S
  BY <1>3
<1>4. CASE 1 \notin S /\ 2 \notin S /\ 3 \notin S /\ 4 \in S
  BY <1>4
<1>5. CASE 1 \notin S /\ 2 \notin S /\ 3 \notin S /\ 4 \notin S /\ 5 \in S
  BY <1>5
<1>6. CASE 1 \notin S /\ 2 \notin S /\ 3 \notin S /\ 4 \notin S /\ 5 \notin S /\ 6 \in S
  BY <1>6
<1>7. CASE 1 \notin S /\ 2 \notin S /\ 3 \notin S /\ 4 \notin S /\ 5 \notin S /\ 6 \notin S
  <2>1. \A l \in S : l = 7
    BY <1>7
  <2>2. PICK k \in S : TRUE
    OBVIOUS
  <2>3. \A l \in S : k <= l
    BY <2>1
  <2> QED BY <2>3
<1> QED
  BY <1>1, <1>2, <1>3, <1>4, <1>5, <1>6, <1>7

LEMMA MeaningIsOne ==
  ASSUME NEW w, CL!Meanings(w) # {}
  PROVE  /\ CL!Meaning(w) \in CL!Meanings(w)
         /\ CL!Meaning(w) \in 1 .. 7
<1> DEFINE S == CL!Meanings(w)
<1>1. S \subseteq 1 .. 7 /\ S # {}
  BY MeaningsAreOptions
<1>2. CL!Meaning(w) = CHOOSE k \in S : \A other \in S : k <= other
  BY DEF CL!Meaning
<1> HIDE DEF S
<1>3. \E k \in S : \A other \in S : k <= other
  BY <1>1, LeastOption
<1>4. (CHOOSE k \in S : \A other \in S : k <= other) \in S
  BY <1>3
<1> QED
  BY <1>1, <1>2, <1>4 DEF S

(* What the two parsers of flags find is what the word means.              *)
LEMMA LongMeaning ==
  ASSUME NEW w, w.dashes = 2
  PROVE  /\ LongMatches(w.name) = CL!Meanings(w)
         /\ Min(LongMatches(w.name)) = CL!Meaning(w)
<1>1. LongMatches(w.name) = CL!Meanings(w)
  BY DEF LongMatches, CL!Meanings, IsPrefix, CL!IsPrefix
<1> QED
  BY <1>1 DEF Min, CL!Meaning

ShortMatches(w) ==
  {k \in DOMAIN opts : /\ ~opts[k].long_flag /\ opts[k].flag = w.name
                       /\ w.value = << >>}

LEMMA ShortMeaning ==
  ASSUME NEW w, w.dashes = 1
  PROVE  /\ ShortMatches(w) = CL!Meanings(w)
         /\ Min(ShortMatches(w)) = CL!Meaning(w)
<1>1. ShortMatches(w) = CL!Meanings(w)
  BY DEF ShortMatches, CL!Meanings
<1> QED
  BY <1>1 DEF Min, CL!Meaning

LEMMA FileMeaning ==
  ASSUME NEW w, w.dashes = 0
  PROVE  CL!Meanings(w) = {}
BY DEF CL!Meanings

-----------------------------------------------------------------------------
(***************************************************************************)
(* The inductive invariant.                                                *)
(***************************************************************************)

(* Of the first n words of a command line: the flags, those that name a    *)
(* platform, and the files.                                                *)
FlagsIn(a, n) == {k \in 1 .. n : CL!Meanings(a[k]) # {}}
NamersIn(a, n) == {k \in FlagsIn(a, n) : opts[CL!Meaning(a[k])].type = "OPT_STRING"}
FilesIn(a, n) == {k \in 1 .. n : CL!IsFile(a[k])}

(* What parse_args has filled in is what the words it has read say.        *)
EnabledRead == enabled = {CL!Meaning(argv[k]) : k \in FlagsIn(argv, i - 1)}
NamedRead ==
  \/ NamersIn(argv, i - 1) = {} /\ out_string = << >>
  \/ \E k \in NamersIn(argv, i - 1) :
       /\ \A other \in NamersIn(argv, i - 1) : k >= other
       /\ out_string = argv[k].value
FileRead ==
  /\ input_file = << >> <=> FilesIn(argv, i - 1) = {}
  /\ input_file # << >> => input_file[1].dashes = 0
WordsRead == EnabledRead /\ NamedRead /\ FileRead

(* The places of main, in their order.                                     *)
Early == {"parse_args", "options", "info", "platform"}
Reading == {"open", "fstat", "mmap", "analyse"}
Behind == {"dump_ast", "translate", "dump_ir", "deinit"}
Places == Early \cup Reading \cup Behind

(* What main has found out by the time it is at a place.                   *)
PlacesPassed ==
  /\ at # "parse_args" => i = Len(argv) + 1
  /\ at \notin {"parse_args", "options"} => ~RegsWithoutIr
  /\ at \notin {"parse_args", "options", "info"} => Info = "none"
  /\ at \notin Early \cup {"open"} => input_file # << >>

(* What it has done, as long as it has not ended.                          *)
Selected ==
  IF out_string # << >> /\ out_string[1] \in platforms THEN out_string[1] ELSE "x86_64-sysv"
DoneSoFar ==
  /\ at \notin {"translate", "dump_ir", "deinit"} => out = << >>
  /\ at = "translate" => out = ast_dump
  /\ at = "dump_ir" => \E lines \in SizeLines : out = ast_dump \o lines
  /\ at = "deinit" => \E lines \in SizeLines : out = (ast_dump \o lines) \o ssa_prog_dump
  /\ platform = IF at \in Early THEN "x86_64-sysv" ELSE Selected

ArgsInv ==
  /\ argv \in Argvs /\ i \in 1 .. Len(argv) + 1
  /\ \A k \in 1 .. i - 1 : CL!Right(k)
  /\ WordsRead
  /\ at \in Places /\ PlacesPassed
  /\ platform \in platforms /\ Len(out) <= 3
  /\ outcome = "running" => DoneSoFar

LEMMA ArgvIsSeq ==
  ASSUME argv \in Argvs
  PROVE  Len(argv) \in Nat /\ DOMAIN argv = 1 .. Len(argv)
BY ArgvsAssumption

(* Whether a word is right depends on the command line alone.              *)
LEMMA RightKept ==
  ASSUME argv' = argv
  PROVE  \A k : CL!Right(k)' <=> CL!Right(k)
BY DEF CL!Right, CL!Wrong

-----------------------------------------------------------------------------
(***************************************************************************)
(* parse_args.                                                             *)
(***************************************************************************)

(* The first wrong word ends the program with what is wrong with it.       *)
LEMMA WrongEnds ==
  ASSUME ArgsInv, Parsing, NEW message \in CL!Messages, CL!Wrong(i, message),
         log_err_final(message)
  PROVE  CL!Decide
<1>1. i \in DOMAIN argv
  BY ArgvIsSeq DEF ArgsInv, Parsing
<1>2. \A j \in 1 .. i - 1 : CL!Right(j)
  BY DEF ArgsInv
<1>3. outcome' = message /\ outcome = "running" /\ outcome' # "running"
  BY DEF log_err_final, Parsing, CL!Messages
<1>4. out = << >> /\ platform = "x86_64-sysv" /\ UNCHANGED <<argv, out, platform>>
  BY DEF log_err_final, Parsing, ArgsInv, DoneSoFar, Early
<1>5. CL!Misread
  BY <1>1, <1>2, <1>3, <1>4 DEF CL!Misread
<1> QED
  BY <1>3, <1>4, <1>5 DEF CL!Decide

LEMMA ErrorKeeps ==
  ASSUME ArgsInv, NEW message, message # "running", log_err_final(message)
  PROVE  ArgsInv'
<1>1. /\ UNCHANGED <<argv, i, enabled, out_string, input_file, platform, at, out>>
      /\ outcome' # "running"
  BY DEF log_err_final
<1>2. \A k \in 1 .. i - 1 : CL!Right(k)'
  BY <1>1, RightKept DEF ArgsInv
<1>3. WordsRead' /\ PlacesPassed'
  BY <1>1 DEF ArgsInv, WordsRead, EnabledRead, NamedRead, FileRead, PlacesPassed,
              RegsWithoutIr, Info
<1> QED
  BY <1>1, <1>2, <1>3 DEF ArgsInv

(* An argument that was read without complaint is right.                   *)
LEMMA ReadKeeps ==
  ASSUME ArgsInv, Parsing, CL!Right(i), WordsRead', i' = i + 1,
         UNCHANGED <<argv, platform, at, out, outcome>>
  PROVE  ArgsInv' /\ UNCHANGED <<argv, platform, out, outcome>>
<1>1. i \in Nat /\ i >= 1 /\ i <= Len(argv) /\ Len(argv) \in Nat
  BY ArgvIsSeq DEF ArgsInv, Parsing
<1>2. i' \in 1 .. Len(argv') + 1
  BY <1>1
<1>3. \A k \in 1 .. i' - 1 : CL!Right(k)'
  <2>1. \A k \in 1 .. i' - 1 : k = i \/ k \in 1 .. i - 1
    BY <1>1
  <2> QED BY <2>1, RightKept DEF ArgsInv
<1>4. at = "parse_args" /\ outcome = "running"
  BY DEF Parsing
<1>5. PlacesPassed' /\ DoneSoFar'
  BY <1>4 DEF PlacesPassed, DoneSoFar, Early, ArgsInv
<1> QED
  BY <1>2, <1>3, <1>4, <1>5 DEF ArgsInv

(* One more word: what it adds.                                            *)
LEMMA OneMoreWord ==
  ASSUME NEW a, NEW n \in Nat, n >= 1
  PROVE  /\ CL!Meanings(a[n]) # {} => FlagsIn(a, n) = FlagsIn(a, n - 1) \cup {n}
         /\ CL!Meanings(a[n]) = {} => FlagsIn(a, n) = FlagsIn(a, n - 1)
         /\ CL!IsFile(a[n]) => FilesIn(a, n) = FilesIn(a, n - 1) \cup {n}
         /\ ~CL!IsFile(a[n]) => FilesIn(a, n) = FilesIn(a, n - 1)
<1>1. 1 .. n = (1 .. n - 1) \cup {n} /\ n \notin 1 .. n - 1
  OBVIOUS
<1> QED
  BY <1>1 DEF FlagsIn, FilesIn

LEMMA OneMoreNamer ==
  ASSUME NEW a, NEW n \in Nat, n >= 1
  PROVE  /\ CL!Meanings(a[n]) # {} /\ opts[CL!Meaning(a[n])].type = "OPT_STRING"
              => NamersIn(a, n) = NamersIn(a, n - 1) \cup {n}
         /\ CL!Meanings(a[n]) = {} \/ opts[CL!Meaning(a[n])].type # "OPT_STRING"
              => NamersIn(a, n) = NamersIn(a, n - 1)
         /\ NamersIn(a, n - 1) \subseteq 1 .. n - 1
<1>1. /\ CL!Meanings(a[n]) # {} => FlagsIn(a, n) = FlagsIn(a, n - 1) \cup {n}
      /\ CL!Meanings(a[n]) = {} => FlagsIn(a, n) = FlagsIn(a, n - 1)
      /\ FlagsIn(a, n - 1) \subseteq 1 .. n - 1
  BY OneMoreWord DEF FlagsIn
<1> QED
  BY <1>1 DEF NamersIn

(* A flag that is filled in.                                               *)
LEMMA FlagRead ==
  ASSUME ArgsInv, Parsing, NEW value, CL!Meanings(Arg) # {}, ~CL!IsFile(Arg),
         opts[CL!Meaning(Arg)].type = "OPT_STRING" => value = Arg.value,
         enabled' = enabled \cup {CL!Meaning(Arg)},
         out_string' = IF opts[CL!Meaning(Arg)].type = "OPT_STRING" THEN value ELSE out_string,
         i' = i + 1, argv' = argv, input_file' = input_file
  PROVE  WordsRead'
<1>1. i \in Nat /\ i >= 1 /\ i' - 1 = i
  BY ArgvIsSeq DEF ArgsInv, Parsing
<1>2. FlagsIn(argv, i) = FlagsIn(argv, i - 1) \cup {i}
  BY <1>1, OneMoreWord DEF Arg
<1>3. EnabledRead'
  <2>1. enabled = {CL!Meaning(argv[k]) : k \in FlagsIn(argv, i - 1)}
    BY DEF ArgsInv, WordsRead, EnabledRead
  <2>2. enabled' = {CL!Meaning(argv[k]) : k \in FlagsIn(argv, i)}
    BY <1>2, <2>1 DEF Arg
  <2>3. EnabledRead' <=> enabled' = {CL!Meaning(argv[k]) : k \in FlagsIn(argv, i)}
    BY <1>1 DEF EnabledRead, FlagsIn, CL!Meaning, CL!Meanings
  <2> QED BY <2>2, <2>3
<1>4. NamedRead'
  <2>1. NamedRead' <=>
          \/ NamersIn(argv, i) = {} /\ out_string' = << >>
          \/ \E k \in NamersIn(argv, i) :
               /\ \A other \in NamersIn(argv, i) : k >= other
               /\ out_string' = argv[k].value
    <3>1. (NamersIn(argv, i - 1))' = NamersIn(argv, i)
      BY <1>1 DEF NamersIn, FlagsIn, CL!Meaning, CL!Meanings
    <3> QED BY <3>1, Zenon DEF NamedRead
  <2>2. CASE opts[CL!Meaning(Arg)].type = "OPT_STRING"
    <3>1. NamersIn(argv, i) = NamersIn(argv, i - 1) \cup {i}
      BY <1>1, <2>2, OneMoreNamer DEF Arg
    <3>2. NamersIn(argv, i - 1) \subseteq 1 .. i - 1
      BY <1>1, OneMoreNamer
    <3>3. \A other \in NamersIn(argv, i) : i >= other
      BY <1>1, <3>1, <3>2
    <3>4. out_string' = argv[i].value
      BY <2>2 DEF Arg
    <3> QED BY <2>1, <3>1, <3>3, <3>4
  <2>3. CASE opts[CL!Meaning(Arg)].type # "OPT_STRING"
    <3>1. NamersIn(argv, i) = NamersIn(argv, i - 1)
      BY <1>1, <2>3, OneMoreNamer DEF Arg
    <3>2. out_string' = out_string
      BY <2>3
    <3> QED BY <2>1, <3>1, <3>2 DEF ArgsInv, WordsRead, NamedRead
  <2> QED BY <2>2, <2>3
<1>5. FileRead'
  <2>1. FilesIn(argv, i) = FilesIn(argv, i - 1)
    BY <1>1, OneMoreWord DEF Arg
  <2>2. (FilesIn(argv, i - 1))' = FilesIn(argv, i)
    BY <1>1 DEF FilesIn, CL!IsFile, CL!IsEmpty
  <2> QED BY <2>1, <2>2 DEF FileRead, ArgsInv, WordsRead
<1> QED
  BY <1>3, <1>4, <1>5 DEF WordsRead

(* An input file that is filled in.                                        *)
LEMMA InputRead ==
  ASSUME ArgsInv, Parsing, Arg.dashes = 0, ~Nameless,
         input_file' = <<Arg>>, i' = i + 1, UNCHANGED <<argv, enabled, out_string>>
  PROVE  WordsRead'
<1>1. i \in Nat /\ i >= 1 /\ i' - 1 = i
  BY ArgvIsSeq DEF ArgsInv, Parsing
<1>2. CL!Meanings(argv[i]) = {}
  BY FileMeaning DEF Arg
<1>3. /\ FlagsIn(argv, i) = FlagsIn(argv, i - 1)
      /\ NamersIn(argv, i) = NamersIn(argv, i - 1)
  BY <1>1, <1>2, OneMoreWord, OneMoreNamer
<1>4. EnabledRead'
  <2>1. EnabledRead' <=> enabled = {CL!Meaning(argv[k]) : k \in FlagsIn(argv, i)}
    BY <1>1 DEF EnabledRead, FlagsIn, CL!Meaning, CL!Meanings
  <2> QED BY <1>3, <2>1 DEF ArgsInv, WordsRead, EnabledRead
<1>5. NamedRead'
  <2>1. NamedRead' <=>
          \/ NamersIn(argv, i) = {} /\ out_string = << >>
          \/ \E k \in NamersIn(argv, i) :
               /\ \A other \in NamersIn(argv, i) : k >= other
               /\ out_string = argv[k].value
    <3>1. (NamersIn(argv, i - 1))' = NamersIn(argv, i)
      BY <1>1 DEF NamersIn, FlagsIn, CL!Meaning, CL!Meanings
    <3> QED BY <3>1, Zenon DEF NamedRead
  <2> QED BY <1>3, <2>1 DEF ArgsInv, WordsRead, NamedRead
<1>6. FileRead'
  <2>1. CL!IsFile(argv[i])
    BY DEF CL!IsFile, CL!IsEmpty, Nameless, Arg
  <2>2. i \in FilesIn(argv, i)
    BY <1>1, <2>1 DEF FilesIn
  <2>3. (FilesIn(argv, i - 1))' = FilesIn(argv, i)
    BY <1>1 DEF FilesIn, CL!IsFile, CL!IsEmpty
  <2>4. input_file' # << >> /\ input_file'[1].dashes = 0
    <3>1. PICK w : w = Arg
      OBVIOUS
    <3>2. input_file' = <<w>> /\ w.dashes = 0
      BY <3>1
    <3> QED BY <3>2
  <2> QED BY <2>2, <2>3, <2>4 DEF FileRead
<1> QED
  BY <1>4, <1>5, <1>6 DEF WordsRead

(* What a step comes to: the invariant is kept, and the command line is    *)
(* decided or not yet.                                                     *)
Shown == IF outcome = "running" THEN << >> ELSE out
On == IF outcome = "running" THEN "x86_64-sysv" ELSE platform
Undecided == UNCHANGED <<argv, On, Shown, outcome>>

LEMMA ReadOn ==
  ASSUME ArgsInv, Parsing, CL!Right(i), WordsRead', i' = i + 1,
         UNCHANGED <<argv, platform, at, out, outcome>>
  PROVE  ArgsInv' /\ Undecided
BY ReadKeeps DEF Undecided, Shown, On

LEMMA WrongWord ==
  ASSUME ArgsInv, Parsing, NEW message \in CL!Messages, CL!Wrong(i, message),
         log_err_final(message)
  PROVE  ArgsInv' /\ CL!Decide
BY WrongEnds, ErrorKeeps DEF CL!Messages

LEMMA InvalidArgumentReads ==
  ASSUME ArgsInv, InvalidArgument
  PROVE  ArgsInv' /\ CL!Decide
<1>1. CL!Wrong(i, "invalid argument")
  BY DEF InvalidArgument, Nameless, Arg, CL!Wrong, CL!IsEmpty
<1>2. "invalid argument" \in CL!Messages
  BY DEF CL!Messages
<1> QED
  BY <1>1, <1>2, WrongWord DEF InvalidArgument

(* A flag, with the value that is used for it.                             *)
LEMMA FlagFilledIn ==
  ASSUME ArgsInv, Parsing, NEW value, CL!Meanings(Arg) # {}, Arg.dashes # 0,
         ~CL!IsEmpty(Arg),
         value # << >> <=> Arg.value # << >> \/ (Arg.dashes = 1 /\ i < Len(argv)),
         opts[CL!Meaning(Arg)].type = "OPT_STRING" => value = Arg.value,
         fill_flag_argument(value, CL!Meaning(Arg), 1)
  PROVE  ArgsInv' /\ (CL!Decide \/ Undecided)
<1>1. CASE opts[CL!Meaning(Arg)].required_arg = "ARG_NONE" /\ value # << >>
  <2>1. log_err_final("doesn't allow an argument")
    BY <1>1 DEF fill_flag_argument
  <2>2. CL!Wrong(i, "doesn't allow an argument")
    BY <1>1 DEF CL!Wrong, Arg
  <2>3. "doesn't allow an argument" \in CL!Messages
    BY DEF CL!Messages
  <2> QED BY <2>1, <2>2, <2>3, WrongWord
<1>2. CASE ~(opts[CL!Meaning(Arg)].required_arg = "ARG_NONE" /\ value # << >>)
  <2>1. /\ enabled' = enabled \cup {CL!Meaning(Arg)}
        /\ out_string' = IF opts[CL!Meaning(Arg)].type = "OPT_STRING" THEN value ELSE out_string
        /\ i' = i + 1
        /\ UNCHANGED <<argv, input_file, platform, at, out, outcome>>
    BY <1>2 DEF fill_flag_argument
  <2>2. ~CL!IsFile(Arg)
    BY DEF CL!IsFile
  <2>3. WordsRead'
    BY <2>1, <2>2, FlagRead
  <2>4. CL!Right(i)
    BY <1>2, <2>2 DEF CL!Right, CL!Wrong, Arg
  <2> QED BY <2>1, <2>3, <2>4, ReadOn
<1> QED
  BY <1>1, <1>2

LEMMA UnrecognizedReads ==
  ASSUME ArgsInv, Parsing, CL!Meanings(Arg) = {}, Arg.dashes # 0, ~CL!IsEmpty(Arg),
         log_err_final("unrecognized option")
  PROVE  ArgsInv' /\ CL!Decide
<1>1. CL!Wrong(i, "unrecognized option")
  BY DEF CL!Wrong, CL!IsFile, Arg
<1>2. "unrecognized option" \in CL!Messages
  BY DEF CL!Messages
<1> QED
  BY <1>1, <1>2, WrongWord

LEMMA long_flag_parseReads ==
  ASSUME ArgsInv, long_flag_parse
  PROVE  ArgsInv' /\ (CL!Decide \/ Undecided)
<1>1. Parsing /\ Arg.dashes = 2 /\ Arg.dashes # 0 /\ ~CL!IsEmpty(Arg)
  <2>1. Parsing /\ Arg.dashes = 2
    BY DEF long_flag_parse
  <2> QED BY <2>1 DEF CL!IsEmpty
<1>2. /\ LongMatches(Arg.name) = CL!Meanings(Arg)
      /\ Min(LongMatches(Arg.name)) = CL!Meaning(Arg)
  BY <1>1, LongMeaning
<1>3. CASE CL!Meanings(Arg) = {}
  <2>1. log_err_final("unrecognized option")
    BY <1>2, <1>3 DEF long_flag_parse
  <2> QED BY <1>1, <1>3, <2>1, UnrecognizedReads
<1>4. CASE CL!Meanings(Arg) # {}
  <2>1. fill_flag_argument(Arg.value, CL!Meaning(Arg), 1)
    BY <1>2, <1>4 DEF long_flag_parse
  <2> QED BY <1>1, <1>4, <2>1, FlagFilledIn
<1> QED
  BY <1>3, <1>4

LEMMA short_flag_parseReads ==
  ASSUME ArgsInv, short_flag_parse
  PROVE  ArgsInv' /\ (CL!Decide \/ Undecided)
<1>1. Parsing /\ Arg.dashes = 1 /\ Arg.dashes # 0 /\ ~CL!IsEmpty(Arg)
  <2>1. Parsing /\ Arg.dashes = 1 /\ ~CL!IsEmpty(Arg)
    BY DEF short_flag_parse, CL!IsEmpty, Nameless
  <2> QED BY <2>1
<1>2. /\ ShortMatches(Arg) = CL!Meanings(Arg)
      /\ Min(ShortMatches(Arg)) = CL!Meaning(Arg)
  BY <1>1, ShortMeaning
<1>3. IF ShortMatches(Arg) = {} THEN log_err_final("unrecognized option")
      ELSE fill_flag_argument(Following, Min(ShortMatches(Arg)), 1)
  BY DEF short_flag_parse, ShortMatches
<1>4. CASE CL!Meanings(Arg) = {}
  <2>1. log_err_final("unrecognized option")
    BY <1>2, <1>3, <1>4
  <2> QED BY <1>1, <1>4, <2>1, UnrecognizedReads
<1>5. CASE CL!Meanings(Arg) # {}
  <2>1. fill_flag_argument(Following, CL!Meaning(Arg), 1)
    BY <1>2, <1>3, <1>5
  <2>2. CL!Meaning(Arg) \in CL!Meanings(Arg)
    BY <1>5, MeaningIsOne
  <2>3. Arg.value = << >> /\ ~opts[CL!Meaning(Arg)].long_flag /\ CL!Meaning(Arg) \in 1 .. 7
    BY <1>1, <2>2, OptTable DEF CL!Meanings
  <2>4. opts[CL!Meaning(Arg)].type # "OPT_STRING"
    BY <2>3, OptTable
  <2>5. Following # << >> <=> i < Len(argv)
    BY DEF Following
  <2> QED BY <1>1, <1>5, <2>1, <2>3, <2>4, <2>5, FlagFilledIn
<1> QED
  BY <1>4, <1>5

LEMMA InputFileReads ==
  ASSUME ArgsInv, InputFile
  PROVE  ArgsInv' /\ (CL!Decide \/ Undecided)
<1>1. Parsing /\ Arg.dashes = 0 /\ ~Nameless
  BY DEF InputFile
<1>2. CL!IsFile(Arg) /\ CL!Meanings(Arg) = {} /\ ~CL!IsEmpty(Arg)
  BY <1>1, FileMeaning DEF CL!IsFile, CL!IsEmpty, Nameless
<1>3. input_file = << >> <=> \A j \in 1 .. i - 1 : ~CL!IsFile(argv[j])
  BY DEF ArgsInv, WordsRead, FileRead, FilesIn
<1>4. CASE input_file # << >>
  <2>1. CL!Wrong(i, "more than one input file")
    BY <1>2, <1>3, <1>4 DEF CL!Wrong, Arg
  <2>2. "more than one input file" \in CL!Messages
    BY DEF CL!Messages
  <2> QED BY <1>1, <1>4, <2>1, <2>2, WrongWord DEF InputFile
<1>5. CASE input_file = << >>
  <2>1. /\ input_file' = <<Arg>> /\ i' = i + 1
        /\ UNCHANGED <<argv, enabled, out_string, platform, at, out, outcome>>
    BY <1>5 DEF InputFile
  <2>2. CL!Right(i)
    BY <1>2, <1>3, <1>5 DEF CL!Right, CL!Wrong, Arg
  <2>3. WordsRead'
    BY <1>1, <2>1, InputRead
  <2> QED BY <1>1, <2>1, <2>2, <2>3, ReadOn
<1> QED
  BY <1>4, <1>5

LEMMA EndArgsReads ==
  ASSUME ArgsInv, EndArgs
  PROVE  ArgsInv' /\ Undecided
<1>1. /\ at = "parse_args" /\ at' = "options" /\ i = Len(argv) + 1 /\ outcome = "running"
      /\ UNCHANGED <<argv, i, enabled, out_string, input_file, platform, out, outcome>>
  BY ArgvIsSeq DEF ArgsInv, EndArgs
<1>2. \A k \in 1 .. i - 1 : CL!Right(k)'
  BY <1>1, RightKept DEF ArgsInv
<1>3. WordsRead'
  BY <1>1 DEF ArgsInv, WordsRead, EnabledRead, NamedRead, FileRead
<1>4. PlacesPassed' /\ at' \in Places
  BY <1>1 DEF PlacesPassed, Places, Early
<1>5. DoneSoFar'
  BY <1>1 DEF ArgsInv, DoneSoFar, Early
<1> QED
  BY <1>1, <1>2, <1>3, <1>4, <1>5 DEF ArgsInv, Undecided, Shown, On

-----------------------------------------------------------------------------
(***************************************************************************)
(* main: what was filled in, once every word is read, is what the command  *)
(* line means.                                                             *)
(***************************************************************************)

LEMMA AskedIs ==
  ASSUME ArgsInv, at # "parse_args", NEW h \in 1 .. 7
  PROVE  CL!Asked(opts[h].flag) <=> h \in enabled
<1>1. i - 1 = Len(argv) /\ DOMAIN argv = 1 .. Len(argv)
  BY ArgvIsSeq DEF ArgsInv, PlacesPassed
<1>2. CL!Flags = FlagsIn(argv, i - 1)
  BY <1>1 DEF CL!Flags, FlagsIn
<1>3. \A k \in CL!Flags : CL!Meaning(argv[k]) \in 1 .. 7
  BY MeaningIsOne DEF CL!Flags
<1>4. \A k \in CL!Flags : opts[CL!Meaning(argv[k])].flag = opts[h].flag
                           <=> CL!Meaning(argv[k]) = h
  BY <1>3, FlagsDiffer
<1>5. h \in enabled <=> \E k \in CL!Flags : CL!Meaning(argv[k]) = h
  BY <1>2 DEF ArgsInv, WordsRead, EnabledRead
<1> QED
  BY <1>4, <1>5 DEF CL!Asked

LEMMA PlatformIs ==
  ASSUME ArgsInv, at # "parse_args"
  PROVE  CL!PlatformNamed = out_string
<1>1. i - 1 = Len(argv) /\ DOMAIN argv = 1 .. Len(argv) /\ Len(argv) \in Nat
  BY ArgvIsSeq DEF ArgsInv, PlacesPassed
<1>2. CL!Namers = NamersIn(argv, i - 1)
  BY <1>1 DEF CL!Flags, CL!Namers, FlagsIn, NamersIn
<1>3. CASE CL!Namers = {}
  BY <1>2, <1>3 DEF CL!PlatformNamed, ArgsInv, WordsRead, NamedRead
<1>4. CASE CL!Namers # {}
  <2>1. PICK k \in CL!Namers :
          (\A other \in CL!Namers : k >= other) /\ out_string = argv[k].value
    BY <1>2, <1>4 DEF ArgsInv, WordsRead, NamedRead
  <2>2. CL!Namers \subseteq Nat
    BY <1>1 DEF CL!Namers, CL!Flags
  <2>3. CL!Max(CL!Namers) = k
    <3> DEFINE S == CL!Namers
    <3>1. S \subseteq Nat /\ k \in S /\ \A other \in S : k >= other
      BY <2>1, <2>2
    <3> HIDE DEF S
    <3>2. \A x \in S : (\A other \in S : x >= other) => x = k
      BY <3>1
    <3>3. (CHOOSE x \in S : \A other \in S : x >= other) = k
      BY <3>1, <3>2
    <3> QED BY <3>3 DEF CL!Max, S
  <2> QED BY <1>4, <2>1, <2>3 DEF CL!PlatformNamed
<1> QED
  BY <1>3, <1>4

LEMMA MeantIsRead ==
  ASSUME ArgsInv, at # "parse_args"
  PROVE  /\ CL!Understood
         /\ CL!Asked(<<"h">>) <=> help \in enabled
         /\ CL!Asked(<<"v">>) <=> version \in enabled
         /\ CL!Asked(<<"dump-", "ast">>) <=> ast_dump_flag \in enabled
         /\ CL!Asked(<<"dump-", "ir">>) <=> ir_dump_flag \in enabled
         /\ CL!Asked(<<"dump-", "reg">>) <=> reg_dump_flag \in enabled
         /\ CL!Contradiction <=> RegsWithoutIr
         /\ CL!InfoAsked <=> Info # "none"
         /\ (\E k \in DOMAIN argv : CL!IsFile(argv[k])) <=> input_file # << >>
<1>1. i - 1 = Len(argv) /\ DOMAIN argv = 1 .. Len(argv)
  BY ArgvIsSeq DEF ArgsInv, PlacesPassed
<1>2. CL!Understood
  BY <1>1 DEF CL!Understood, ArgsInv
<1>3. /\ CL!Asked(<<"h">>) <=> 1 \in enabled
      /\ CL!Asked(<<"v">>) <=> 2 \in enabled
      /\ CL!Asked(<<"dump-", "ast">>) <=> 3 \in enabled
      /\ CL!Asked(<<"dump-", "ir">>) <=> 4 \in enabled
      /\ CL!Asked(<<"dump-", "reg">>) <=> 5 \in enabled
      /\ CL!Asked(<<"platform">>) <=> 6 \in enabled
      /\ CL!Asked(<<"list-platforms">>) <=> 7 \in enabled
  <2>1. \A h \in 1 .. 7 : CL!Asked(opts[h].flag) <=> h \in enabled
    BY AskedIs
  <2>2. 1 \in 1 .. 7 /\ 2 \in 1 .. 7 /\ 3 \in 1 .. 7 /\ 4 \in 1 .. 7 /\ 5 \in 1 .. 7
        /\ 6 \in 1 .. 7 /\ 7 \in 1 .. 7
    OBVIOUS
  <2>3. /\ opts[1].flag = <<"h">> /\ opts[2].flag = <<"v">>
        /\ opts[3].flag = <<"dump-", "ast">> /\ opts[4].flag = <<"dump-", "ir">>
        /\ opts[5].flag = <<"dump-", "reg">> /\ opts[6].flag = <<"platform">>
        /\ opts[7].flag = <<"list-platforms">>
    BY OptTable
  <2> QED BY <2>1, <2>2, <2>3, Zenon
<1>4. CL!Contradiction <=> RegsWithoutIr
  BY <1>3 DEF CL!Contradiction, RegsWithoutIr, reg_dump_flag, ir_dump_flag
<1>5. CL!InfoAsked <=> Info # "none"
  BY <1>3, PlatformIs DEF CL!InfoAsked, Info, help, version, list_platforms, platform_flag
<1>6. (\E k \in DOMAIN argv : CL!IsFile(argv[k])) <=> input_file # << >>
  BY <1>1 DEF ArgsInv, WordsRead, FileRead, FilesIn
<1> QED
  BY <1>2, <1>3, <1>4, <1>5, <1>6
  DEF help, version, ast_dump_flag, ir_dump_flag, reg_dump_flag

(* A step of main leaves what was read alone.                              *)
LEMMA MainKeeps ==
  ASSUME ArgsInv, UNCHANGED <<argv, i, enabled, out_string, input_file>>,
         at' \in Places, PlacesPassed', platform' \in platforms, Len(out') <= 3,
         outcome' = "running" => DoneSoFar'
  PROVE  ArgsInv'
<1>1. \A k \in 1 .. i - 1 : CL!Right(k)'
  BY RightKept DEF ArgsInv
<1>2. WordsRead'
  BY DEF ArgsInv, WordsRead, EnabledRead, NamedRead, FileRead
<1> QED
  BY <1>1, <1>2 DEF ArgsInv

(* The ends of a compilation.                                              *)
LEMMA CompileEnds ==
  ASSUME ArgsInv, outcome = "running", outcome' # "running", at \in Places, at \notin Early,
         UNCHANGED <<argv, platform>>,
         input_file = << >> => outcome' = "no input file" /\ out' = << >>,
         input_file # << >> =>
           CL!Ending(ast_dump, ssa_prog_dump)
  PROVE  CL!Decide
<1>1. at # "parse_args" /\ ~RegsWithoutIr /\ Info = "none"
  BY DEF ArgsInv, PlacesPassed, Early
<1>2. CL!Understood /\ ~CL!Contradiction /\ ~CL!InfoAsked /\ CL!PlatformNamed = out_string
  BY <1>1, MeantIsRead, PlatformIs
<1>3. /\ CL!Asked(<<"dump-", "ast">>) <=> ast_dump_flag \in enabled
      /\ CL!Asked(<<"dump-", "ir">>) <=> ir_dump_flag \in enabled
      /\ CL!Asked(<<"dump-", "reg">>) <=> reg_dump_flag \in enabled
      /\ (\E k \in DOMAIN argv : CL!IsFile(argv[k])) <=> input_file # << >>
  BY <1>1, MeantIsRead
<1>4. platform' = IF CL!PlatformNamed # << >> /\ CL!PlatformNamed[1] \in platforms
                  THEN CL!PlatformNamed[1] ELSE "x86_64-sysv"
  BY <1>2 DEF ArgsInv, DoneSoFar, Selected
<1>5. (IF CL!Asked(<<"dump-", "ast">>) THEN <<"ast">> ELSE << >>) = ast_dump
  BY <1>3 DEF ast_dump
<1>6. (IF ~CL!Asked(<<"dump-", "ir">>) THEN << >>
       ELSE IF CL!Asked(<<"dump-", "reg">>) THEN <<"ir and registers">> ELSE <<"ir">>) = ssa_prog_dump
  BY <1>3 DEF ssa_prog_dump
<1>7. CL!Compile
  BY <1>2, <1>3, <1>4, <1>5, <1>6 DEF CL!Compile
<1> QED
  BY <1>7 DEF CL!Decide

LEMMA CheckDumpsReads ==
  ASSUME ArgsInv, CheckDumps
  PROVE  ArgsInv' /\ (CL!Decide \/ Undecided)
<1>1. outcome = "running" /\ at = "options" /\ at # "parse_args"
  BY DEF CheckDumps, Fails, Step
<1>2. CASE RegsWithoutIr
  <2>1. log_err_final("cannot print registers")
    BY <1>2 DEF CheckDumps, Fails
  <2>2. ArgsInv'
    BY <2>1, ErrorKeeps
  <2>3. outcome' = "cannot print registers" /\ UNCHANGED <<argv, platform, out>>
    BY <2>1 DEF log_err_final
  <2>4. out = << >> /\ platform = "x86_64-sysv"
    BY <1>1 DEF ArgsInv, DoneSoFar, Early
  <2>5. CL!Understood /\ CL!Contradiction
    BY <1>1, <1>2, MeantIsRead
  <2>6. CL!Decide
    BY <1>1, <2>3, <2>4, <2>5 DEF CL!Decide, CL!Contradict
  <2> QED BY <2>2, <2>6
<1>3. CASE ~RegsWithoutIr
  <2>1. /\ at' = "info" /\ outcome' = outcome
        /\ UNCHANGED <<argv, i, enabled, out_string, input_file, out, platform>>
    BY <1>3 DEF CheckDumps, Step
  <2>2. at' \in Places /\ PlacesPassed' /\ DoneSoFar'
    BY <1>1, <1>3, <2>1 DEF ArgsInv, PlacesPassed, DoneSoFar, Places, Early, RegsWithoutIr
  <2>3. ArgsInv'
    BY <2>1, <2>2, MainKeeps DEF ArgsInv
  <2> QED BY <2>1, <2>3 DEF Undecided, Shown, On
<1> QED
  BY <1>2, <1>3

LEMMA PrintInfoReads ==
  ASSUME ArgsInv, PrintInfo
  PROVE  ArgsInv' /\ CL!Decide
<1>1. /\ outcome = "running" /\ at = "info" /\ at # "parse_args" /\ Info # "none"
      /\ outcome' = "ok" /\ out' = Append(out, Info)
      /\ UNCHANGED <<platform, argv, i, enabled, out_string, input_file, at>>
  BY DEF PrintInfo
<1>2. out = << >> /\ platform = "x86_64-sysv" /\ ~RegsWithoutIr
  BY <1>1 DEF ArgsInv, DoneSoFar, Early, PlacesPassed
<1>3. out' = <<Info>>
  BY <1>1, <1>2
<1>4. ArgsInv'
  <2>1. PlacesPassed'
    BY <1>1 DEF ArgsInv, PlacesPassed, RegsWithoutIr, Info
  <2>2. Len(out') <= 3
    BY <1>3
  <2> QED BY <1>1, <2>1, <2>2, MainKeeps DEF ArgsInv
<1>5. CL!Understood /\ ~CL!Contradiction /\ CL!InfoAsked
  BY <1>1, <1>2, MeantIsRead
<1>6. <<Info>> = IF CL!Asked(<<"h">>) THEN <<"help">>
                 ELSE IF CL!Asked(<<"v">>) THEN <<"version">> ELSE <<"platforms">>
  BY <1>1, MeantIsRead DEF Info
<1>7. CL!Inform
  BY <1>1, <1>2, <1>3, <1>5, <1>6 DEF CL!Inform
<1> QED
  BY <1>1, <1>4, <1>7 DEF CL!Decide

(* The steps of main that lead on without printing.                        *)
LEMMA GoesOn ==
  ASSUME ArgsInv, NEW here, NEW there \in Places, Step(here, there), out' = out,
         PlacesPassed', DoneSoFar', platform' \in platforms
  PROVE  ArgsInv' /\ Undecided
<1>1. /\ at' = there /\ outcome = "running" /\ outcome' = "running"
      /\ UNCHANGED <<argv, i, enabled, out_string, input_file>>
  BY DEF Step
<1>2. ArgsInv'
  BY <1>1, MainKeeps DEF ArgsInv
<1> QED
  BY <1>1, <1>2 DEF Undecided, Shown, On

LEMMA NoInfoReads ==
  ASSUME ArgsInv, NoInfo
  PROVE  ArgsInv' /\ Undecided
<1>1. /\ Info = "none" /\ at = "info" /\ at' = "platform" /\ outcome = "running"
      /\ UNCHANGED <<i, argv, enabled, out_string, input_file, out, platform>>
  BY DEF NoInfo, Step
<1>2. PlacesPassed' /\ DoneSoFar' /\ platform' \in platforms
  BY <1>1 DEF ArgsInv, PlacesPassed, DoneSoFar, Early, RegsWithoutIr, Info
<1>3. "platform" \in Places /\ Step("info", "platform")
  BY DEF Places, Early, NoInfo
<1> QED
  BY <1>1, <1>2, <1>3, GoesOn

LEMMA SelectPlatformReads ==
  ASSUME ArgsInv, SelectPlatform
  PROVE  ArgsInv' /\ Undecided
<1>1. /\ at = "platform" /\ at' = "open" /\ outcome = "running"
      /\ UNCHANGED <<i, argv, enabled, out_string, input_file, out>>
      /\ platform' = IF out_string # << >> /\ out_string[1] \in platforms
                     THEN out_string[1] ELSE platform
  BY DEF SelectPlatform, Step
<1>2. platform = "x86_64-sysv" /\ "x86_64-sysv" \in platforms /\ out = << >>
  BY <1>1 DEF ArgsInv, DoneSoFar, Early, platforms
<1>3. PlacesPassed' /\ DoneSoFar' /\ platform' \in platforms
  BY <1>1, <1>2 DEF ArgsInv, PlacesPassed, DoneSoFar, Selected, Early, RegsWithoutIr, Info
<1>4. "open" \in Places /\ Step("platform", "open")
  BY DEF Places, Reading, SelectPlatform
<1> QED
  BY <1>1, <1>3, <1>4, GoesOn

(* Behind the opening of the file, there is one.                           *)
LEMMA FileThere ==
  ASSUME ArgsInv, at \in Places, at \notin Early \cup {"open"}
  PROVE  input_file # << >>
BY DEF ArgsInv, PlacesPassed

(* What is printed, at its longest.                                        *)
LEMMA Printed ==
  ASSUME NEW lines \in SizeLines
  PROVE  /\ ast_dump \o << >> = ast_dump /\ lines \o << >> = lines
         /\ << >> \o ast_dump = ast_dump /\ << >> \o lines = lines
         /\ (ast_dump \o lines) \o << >> = ast_dump \o lines
         /\ ((ast_dump \o lines) \o ssa_prog_dump) \o << >> = (ast_dump \o lines) \o ssa_prog_dump
         /\ Len(ast_dump) <= 3 /\ Len(ast_dump \o lines) <= 3
         /\ Len((ast_dump \o lines) \o ssa_prog_dump) <= 3
<1> DEFINE Texts == {"ast", "here", "ir", "ir and registers"}
<1>1. /\ ast_dump \in Seq(Texts) /\ Len(ast_dump) <= 1
      /\ ssa_prog_dump \in Seq(Texts) /\ Len(ssa_prog_dump) <= 1
      /\ lines \in Seq(Texts) /\ Len(lines) <= 1
  <2>1. /\ <<"ast">> \in Seq(Texts) /\ <<"here">> \in Seq(Texts)
        /\ <<"ir">> \in Seq(Texts) /\ <<"ir and registers">> \in Seq(Texts)
        /\ << >> \in Seq(Texts)
    OBVIOUS
  <2>2. \A what : Len(<<what>>) <= 1
    OBVIOUS
  <2>3. Len(<< >>) <= 1
    OBVIOUS
  <2> QED BY <2>1, <2>2, <2>3, Zenon DEF ast_dump, ssa_prog_dump, SizeLines
<1> HIDE DEF Texts
<1>2. \A s, t \in Seq(Texts) :
        s \o t \in Seq(Texts) /\ Len(s \o t) = Len(s) + Len(t) /\ s \o << >> = s /\ << >> \o s = s
  OBVIOUS
<1>3. ast_dump \o lines \in Seq(Texts) /\ Len(ast_dump \o lines) <= 2
  BY <1>1, <1>2
<1>4. /\ (ast_dump \o lines) \o ssa_prog_dump \in Seq(Texts)
      /\ Len((ast_dump \o lines) \o ssa_prog_dump) <= 3
  <2>1. Len((ast_dump \o lines) \o ssa_prog_dump) = Len(ast_dump \o lines) + Len(ssa_prog_dump)
    BY <1>1, <1>2, <1>3
  <2> QED BY <1>1, <1>2, <1>3, <2>1
<1> QED
  BY <1>1, <1>2, <1>3, <1>4

(* The ends behind the dump of the tree, and behind that of the IR.        *)
LEMMA EndsBehindAst ==
  ASSUME NEW lines \in SizeLines, outcome' \in Breakdowns, out' = ast_dump \o lines
  PROVE  CL!Ending(ast_dump, ssa_prog_dump)
<1>1. outcome' # "running"
  BY DEF Breakdowns
<1>2. (IF outcome = "running" THEN << >> ELSE out)' = ast_dump \o lines
  BY <1>1
<1>3. lines \in {<< >>, <<"here">>} /\ outcome' \in CL!Breakdowns
  BY DEF SizeLines, Breakdowns, CL!Breakdowns
<1> QED
  BY <1>2, <1>3, Zenon DEF CL!Ending

LEMMA EndsBehindIr ==
  ASSUME NEW lines \in SizeLines, outcome' \in {"ok", "internal error"},
         out' = (ast_dump \o lines) \o ssa_prog_dump
  PROVE  CL!Ending(ast_dump, ssa_prog_dump)
<1>1. outcome' # "running"
  OBVIOUS
<1>2. (IF outcome = "running" THEN << >> ELSE out)' = (ast_dump \o lines) \o ssa_prog_dump
  BY <1>1
<1>3. lines \in {<< >>, <<"here">>}
  BY DEF SizeLines
<1> QED
  BY <1>2, <1>3, Zenon DEF CL!Ending

(* What is printed first.                                                  *)
LEMMA PrintedFirst ==
  ASSUME out = << >>, NEW here, NEW how, NEW what, Ends(here, how, <<what>>)
  PROVE  outcome' = how /\ out' = <<what>> /\ Len(out') <= 3
<1>1. outcome' = how /\ out' = << >> \o <<what>>
  BY DEF Ends
<1>2. << >> \o <<what>> = <<what>> /\ Len(<<what>>) = 1
  OBVIOUS
<1> QED
  BY <1>1, <1>2

(* A system call that fails.                                               *)
LEMMA FailureEnds ==
  ASSUME ArgsInv, NEW here \in Reading, NEW message, Fails(here, message),
         input_file = << >> => message = "no input file",
         input_file # << >> => message \in CL!Unread
  PROVE  ArgsInv' /\ CL!Decide
<1>1. /\ outcome = "running" /\ at = here /\ log_err_final(message) /\ outcome' = message
      /\ message # "running" /\ UNCHANGED <<argv, platform, out>>
  BY DEF Fails, log_err_final, CL!Unread
<1>2. ArgsInv'
  BY <1>1, ErrorKeeps
<1>3. out = << >> /\ at \in Places /\ at \notin Early
  BY <1>1 DEF ArgsInv, DoneSoFar, Reading, Places, Early
<1>4. input_file # << >> => CL!Ending(ast_dump, ssa_prog_dump)
  BY <1>1, <1>3 DEF CL!Ending
<1>5. CL!Decide
  BY <1>1, <1>3, <1>4, CompileEnds
<1> QED
  BY <1>2, <1>5

(* The end of the process at a place behind the reading of the file.       *)
LEMMA PlaceEnds ==
  ASSUME ArgsInv, NEW here \in Places, here \notin Early, here # "open",
         NEW how, how # "running", NEW printed, Ends(here, how, printed),
         Len(out') <= 3, CL!Ending(ast_dump, ssa_prog_dump)
  PROVE  ArgsInv' /\ CL!Decide
<1>1. /\ outcome = "running" /\ outcome' = how /\ at = here
      /\ UNCHANGED <<argv, i, enabled, out_string, input_file, platform, at>>
  BY DEF Ends
<1>2. input_file # << >>
  BY <1>1, FileThere
<1>3. PlacesPassed' /\ at' \in Places /\ platform' \in platforms /\ outcome' # "running"
  BY <1>1 DEF ArgsInv, PlacesPassed, RegsWithoutIr, Info
<1>4. ArgsInv'
  BY <1>1, <1>3, MainKeeps
<1> QED
  BY <1>1, <1>2, <1>4, CompileEnds

(* A place of main that leads on to the next one.                          *)
LEMMA PlaceLeft ==
  ASSUME ArgsInv, NEW here \in Reading, NEW there \in {"fstat", "mmap", "analyse", "dump_ast"},
         Step(here, there), input_file # << >>, UNCHANGED <<out, platform>>
  PROVE  ArgsInv' /\ Undecided
<1>1. /\ at = here /\ at' = there /\ outcome = "running"
      /\ UNCHANGED <<i, argv, enabled, out_string, input_file, out, platform>>
  BY DEF Step
<1>2. out = << >> /\ platform = Selected
  BY <1>1 DEF ArgsInv, DoneSoFar, Reading, Early
<1>3. there \in Places /\ platform \in platforms
  BY DEF Places, Reading, Behind, ArgsInv
<1>4. PlacesPassed'
  BY <1>1 DEF ArgsInv, PlacesPassed, Reading, Early, RegsWithoutIr, Info
<1>5. DoneSoFar'
  BY <1>1, <1>2 DEF DoneSoFar, Selected, Early
<1> QED
  BY <1>1, <1>3, <1>4, <1>5, GoesOn

LEMMA OpenFileReads ==
  ASSUME ArgsInv, OpenFile
  PROVE  ArgsInv' /\ (CL!Decide \/ Undecided)
<1>1. "open" \in Places /\ "open" \notin Early /\ "open" \in Reading
  BY DEF Places, Early, Reading
<1>2. CASE input_file = << >>
  <2>1. Fails("open", "no input file")
    BY <1>2 DEF OpenFile
  <2> QED BY <1>1, <1>2, <2>1, FailureEnds
<1>3. CASE input_file # << >> /\ Fails("open", "unable to open")
  BY <1>1, <1>3, FailureEnds DEF CL!Unread
<1>4. CASE input_file # << >> /\ Step("open", "fstat") /\ UNCHANGED <<out, platform>>
  BY <1>1, <1>4, PlaceLeft
<1> QED
  BY <1>2, <1>3, <1>4 DEF OpenFile

LEMMA StatFileReads ==
  ASSUME ArgsInv, StatFile
  PROVE  ArgsInv' /\ (CL!Decide \/ Undecided)
<1>1. "fstat" \in Places /\ "fstat" \notin Early /\ "fstat" \in Reading
  BY DEF Places, Early, Reading
<1>2. input_file # << >>
  <2>1. at = "fstat"
    BY DEF StatFile, Fails, Step
  <2> QED BY <1>1, <2>1, FileThere
<1>3. CASE Fails("fstat", "unable to get stats")
  BY <1>1, <1>2, <1>3, FailureEnds DEF CL!Unread
<1>4. CASE Step("fstat", "mmap") /\ UNCHANGED <<out, platform>>
  BY <1>1, <1>2, <1>4, PlaceLeft
<1> QED
  BY <1>3, <1>4 DEF StatFile

LEMMA MapFileReads ==
  ASSUME ArgsInv, MapFile
  PROVE  ArgsInv' /\ (CL!Decide \/ Undecided)
<1>1. "mmap" \in Places /\ "mmap" \notin Early /\ "mmap" \in Reading
  BY DEF Places, Early, Reading
<1>2. input_file # << >>
  <2>1. at = "mmap"
    BY DEF MapFile, Fails, Step
  <2> QED BY <1>1, <2>1, FileThere
<1>3. CASE Fails("mmap", "unable to get contents")
  BY <1>1, <1>2, <1>3, FailureEnds DEF CL!Unread
<1>4. CASE Step("mmap", "analyse") /\ UNCHANGED <<out, platform>>
  BY <1>1, <1>2, <1>4, PlaceLeft
<1> QED
  BY <1>3, <1>4 DEF MapFile

LEMMA AnalyseReads ==
  ASSUME ArgsInv, Analyse
  PROVE  ArgsInv' /\ (CL!Decide \/ Undecided)
<1>1. /\ "analyse" \in Places /\ "analyse" \notin Early /\ "analyse" # "open"
      /\ "analyse" \in Reading
  BY DEF Places, Early, Reading
<1>2. outcome = "running" /\ at = "analyse"
  BY DEF Analyse, Ends, Step
<1>3. out = << >> /\ input_file # << >>
  BY <1>1, <1>2, FileThere DEF ArgsInv, DoneSoFar
<1>4. CASE Ends("analyse", "diagnosed", <<"diagnostic">>)
  <2>1. outcome' = "diagnosed" /\ out' = <<"diagnostic">> /\ Len(out') <= 3
    BY <1>3, <1>4, PrintedFirst
  <2>2. CL!Ending(ast_dump, ssa_prog_dump)
    BY <2>1 DEF CL!Ending
  <2> QED BY <1>1, <1>4, <2>1, <2>2, PlaceEnds
<1>5. CASE Ends("analyse", "segv", <<"diagnostic, cut off">>)
  <2>1. outcome' = "segv" /\ out' = <<"diagnostic, cut off">> /\ Len(out') <= 3
    BY <1>3, <1>5, PrintedFirst
  <2>2. CL!Ending(ast_dump, ssa_prog_dump)
    BY <2>1 DEF CL!Ending
  <2> QED BY <1>1, <1>5, <2>1, <2>2, PlaceEnds
<1>6. ASSUME NEW how \in Breakdowns, Ends("analyse", how, << >>)
      PROVE  ArgsInv' /\ CL!Decide
  <2>1. outcome' = how /\ out' = << >> \o << >> /\ how # "running"
    BY <1>3, <1>6 DEF Ends, Breakdowns
  <2>2. << >> \o << >> = << >> /\ Len(<< >>) <= 3
    OBVIOUS
  <2>3. out' = << >> /\ Len(out') <= 3
    BY <2>1, <2>2
  <2>4. CL!Ending(ast_dump, ssa_prog_dump)
    BY <2>1, <2>3 DEF CL!Ending, CL!Breakdowns, Breakdowns
  <2> QED BY <1>1, <1>6, <2>1, <2>3, <2>4, PlaceEnds
<1>7. CASE Step("analyse", "dump_ast") /\ UNCHANGED <<out, platform>>
  BY <1>1, <1>3, <1>7, PlaceLeft
<1> QED
  BY <1>4, <1>5, <1>6, <1>7 DEF Analyse

LEMMA DumpAstReads ==
  ASSUME ArgsInv, DumpAst
  PROVE  ArgsInv' /\ (CL!Decide \/ Undecided)
<1>1. /\ "dump_ast" \in Places /\ "dump_ast" \notin Early /\ "dump_ast" # "open"
      /\ "translate" \in Places
  BY DEF Places, Early, Behind
<1>2. outcome = "running" /\ at = "dump_ast"
  BY DEF DumpAst, Ends, Step
<1>3. out = << >> /\ platform = Selected
  BY <1>1, <1>2 DEF ArgsInv, DoneSoFar
<1>4. CASE ast_dump_flag \in enabled /\ Ends("dump_ast", "segv", <<"ast, cut off">>)
  <2>1. outcome' = "segv" /\ out' = <<"ast, cut off">> /\ Len(out') <= 3
    BY <1>3, <1>4, PrintedFirst
  <2>2. ast_dump # << >>
    BY <1>4 DEF ast_dump
  <2>3. CL!Ending(ast_dump, ssa_prog_dump)
    BY <2>1, <2>2 DEF CL!Ending
  <2> QED BY <1>1, <1>4, <2>1, <2>3, PlaceEnds
<1>5. CASE Step("dump_ast", "translate") /\ out' = out \o ast_dump /\ UNCHANGED platform
  <2>1. /\ at' = "translate" /\ outcome' = "running"
        /\ UNCHANGED <<i, argv, enabled, out_string, input_file, platform>>
    BY <1>2, <1>5 DEF Step
  <2>2. out' = ast_dump /\ Len(out') <= 3
    <3>1. << >> \in SizeLines
      BY DEF SizeLines
    <3> QED BY <1>3, <1>5, <3>1, Printed
  <2>3. PlacesPassed' /\ platform' \in platforms
    BY <1>2, <2>1 DEF ArgsInv, PlacesPassed, Early, RegsWithoutIr, Info
  <2>4. DoneSoFar'
    BY <1>3, <2>1, <2>2 DEF DoneSoFar, Selected, Early, ast_dump
  <2>5. ArgsInv'
    BY <1>1, <2>1, <2>2, <2>3, <2>4, MainKeeps
  <2> QED BY <1>2, <2>1, <2>5 DEF Undecided, Shown, On
<1> QED
  BY <1>4, <1>5 DEF DumpAst

LEMMA TranslateReads ==
  ASSUME ArgsInv, Translate
  PROVE  ArgsInv' /\ (CL!Decide \/ Undecided)
<1>1. /\ "translate" \in Places /\ "translate" \notin Early /\ "translate" # "open"
      /\ "dump_ir" \in Places
  BY DEF Places, Early, Behind
<1>2. outcome = "running" /\ at = "translate"
  BY DEF Translate, Ends, Step
<1>3. out = ast_dump /\ platform = Selected
  BY <1>1, <1>2 DEF ArgsInv, DoneSoFar
<1>4. ASSUME NEW lines \in SizeLines, NEW how \in Breakdowns, Ends("translate", how, lines)
      PROVE  ArgsInv' /\ CL!Decide
  <2>1. outcome' = how /\ out' = ast_dump \o lines /\ how # "running"
    BY <1>3, <1>4 DEF Ends, Breakdowns
  <2>2. CL!Ending(ast_dump, ssa_prog_dump)
    BY <2>1, EndsBehindAst
  <2>3. Len(out') <= 3
    BY <2>1, Printed
  <2> QED BY <1>1, <1>4, <2>1, <2>2, <2>3, PlaceEnds
<1>5. ASSUME NEW lines \in SizeLines, Step("translate", "dump_ir"), out' = out \o lines,
             UNCHANGED platform
      PROVE  ArgsInv' /\ Undecided
  <2>1. /\ at' = "dump_ir" /\ outcome' = "running"
        /\ UNCHANGED <<i, argv, enabled, out_string, input_file, platform>>
    BY <1>2, <1>5 DEF Step
  <2>2. out' = ast_dump \o lines /\ Len(out') <= 3
    BY <1>3, <1>5, Printed
  <2>3. PlacesPassed' /\ platform' \in platforms
    BY <1>2, <2>1 DEF ArgsInv, PlacesPassed, Early, RegsWithoutIr, Info
  <2>4. ast_dump' = ast_dump /\ SizeLines' = SizeLines /\ Selected' = Selected
    BY <2>1 DEF ast_dump, SizeLines, Selected
  <2>5. DoneSoFar'
    BY <1>3, <2>1, <2>2, <2>4 DEF DoneSoFar, Early
  <2>6. ArgsInv'
    BY <1>1, <2>1, <2>2, <2>3, <2>5, MainKeeps
  <2> QED BY <1>2, <2>1, <2>6 DEF Undecided, Shown, On
<1> QED
  BY <1>4, <1>5 DEF Translate

LEMMA DumpIrReads ==
  ASSUME ArgsInv, DumpIr
  PROVE  ArgsInv' /\ Undecided
<1>1. /\ at = "dump_ir" /\ at' = "deinit" /\ outcome = "running" /\ outcome' = "running"
      /\ UNCHANGED <<i, argv, enabled, out_string, input_file, platform>>
      /\ out' = out \o ssa_prog_dump
  BY DEF DumpIr, Step
<1>2. platform = Selected /\ "deinit" \in Places
  BY <1>1 DEF ArgsInv, DoneSoFar, Places, Behind, Early
<1>3. PICK lines \in SizeLines : out = ast_dump \o lines
  BY <1>1 DEF ArgsInv, DoneSoFar
<1>4. out' = (ast_dump \o lines) \o ssa_prog_dump /\ Len(out') <= 3
  BY <1>1, <1>3, Printed
<1>5. PlacesPassed' /\ platform' \in platforms
  BY <1>1 DEF ArgsInv, PlacesPassed, Early, RegsWithoutIr, Info
<1>6. /\ ast_dump' = ast_dump /\ ssa_prog_dump' = ssa_prog_dump
      /\ SizeLines' = SizeLines /\ Selected' = Selected
  BY <1>1 DEF ast_dump, ssa_prog_dump, SizeLines, Selected
<1>7. DoneSoFar'
  BY <1>1, <1>2, <1>4, <1>6 DEF DoneSoFar, Early
<1>8. ArgsInv'
  BY <1>1, <1>2, <1>4, <1>5, <1>7, MainKeeps
<1> QED
  BY <1>1, <1>8 DEF Undecided, Shown, On

LEMMA ast_deinitReads ==
  ASSUME ArgsInv, ast_deinit
  PROVE  ArgsInv' /\ CL!Decide
<1>1. "deinit" \in Places /\ "deinit" \notin Early /\ "deinit" # "open"
  BY DEF Places, Early, Behind
<1>2. PICK how \in {"ok", "internal error"} : Ends("deinit", how, << >>)
  BY DEF ast_deinit
<1>3. outcome = "running" /\ at = "deinit" /\ outcome' = how /\ out' = out \o << >>
  BY <1>2 DEF Ends
<1>4. PICK lines \in SizeLines : out = (ast_dump \o lines) \o ssa_prog_dump
  BY <1>1, <1>3 DEF ArgsInv, DoneSoFar
<1>5. out' = (ast_dump \o lines) \o ssa_prog_dump /\ Len(out') <= 3
  BY <1>3, <1>4, Printed
<1>6. CL!Ending(ast_dump, ssa_prog_dump)
  BY <1>3, <1>5, EndsBehindIr
<1> QED
  BY <1>1, <1>2, <1>5, <1>6, PlaceEnds

-----------------------------------------------------------------------------
(***************************************************************************)
(* The theorems.                                                           *)
(***************************************************************************)

LEMMA ArgsInit ==
  ASSUME Init
  PROVE  ArgsInv /\ CL!Init
<1>1. i = 1 /\ i - 1 = 0 /\ argv \in Argvs
  BY DEF Init
<1>2. Len(argv) \in Nat
  BY <1>1, ArgvIsSeq
<1>3. FlagsIn(argv, 0) = {} /\ NamersIn(argv, 0) = {} /\ FilesIn(argv, 0) = {}
  BY DEF FlagsIn, NamersIn, FilesIn
<1>4. WordsRead
  BY <1>1, <1>3 DEF Init, WordsRead, EnabledRead, NamedRead, FileRead
<1>5. PlacesPassed /\ DoneSoFar /\ at \in Places
  BY DEF Init, PlacesPassed, DoneSoFar, Places, Early
<1>6. ArgsInv
  BY <1>1, <1>2, <1>4, <1>5 DEF Init, ArgsInv, platforms
<1> QED
  BY <1>6 DEF Init, CL!Init

LEMMA ArgsStep ==
  ASSUME ArgsInv, [Next]_vars
  PROVE  ArgsInv' /\ (CL!Decide \/ Undecided)
<1>1. CASE UNCHANGED vars
  <2>1. UNCHANGED <<argv, i, enabled, out_string, input_file, platform, at, out, outcome>>
    BY <1>1 DEF vars
  <2>2. PlacesPassed' /\ (outcome' = "running" => DoneSoFar')
    BY <2>1 DEF ArgsInv, PlacesPassed, DoneSoFar, RegsWithoutIr, Info, Selected, ast_dump,
                ssa_prog_dump, SizeLines
  <2>3. ArgsInv'
    BY <2>1, <2>2, MainKeeps DEF ArgsInv
  <2> QED BY <2>1, <2>3 DEF Undecided, Shown, On
<1>2. CASE parse_args
  <2>1. CASE InvalidArgument
    BY <2>1, InvalidArgumentReads
  <2>2. CASE long_flag_parse
    BY <2>2, long_flag_parseReads
  <2>3. CASE short_flag_parse
    BY <2>3, short_flag_parseReads
  <2>4. CASE InputFile
    BY <2>4, InputFileReads
  <2>5. CASE EndArgs
    BY <2>5, EndArgsReads
  <2> QED
    BY <1>2, <2>1, <2>2, <2>3, <2>4, <2>5 DEF parse_args
<1>3. CASE main
  <2>1. CASE CheckDumps
    BY <2>1, CheckDumpsReads
  <2>2. CASE PrintInfo
    BY <2>2, PrintInfoReads
  <2>3. CASE NoInfo
    BY <2>3, NoInfoReads
  <2>4. CASE SelectPlatform
    BY <2>4, SelectPlatformReads
  <2>5. CASE OpenFile
    BY <2>5, OpenFileReads
  <2>6. CASE StatFile
    BY <2>6, StatFileReads
  <2>7. CASE MapFile
    BY <2>7, MapFileReads
  <2>8. CASE Analyse
    BY <2>8, AnalyseReads
  <2>9. CASE DumpAst
    BY <2>9, DumpAstReads
  <2>10. CASE Translate
    BY <2>10, TranslateReads
  <2>11. CASE DumpIr
    BY <2>11, DumpIrReads
  <2>12. CASE ast_deinit
    BY <2>12, ast_deinitReads
  <2> QED
    BY <1>3, <2>1, <2>2, <2>3, <2>4, <2>5, <2>6, <2>7, <2>8, <2>9, <2>10, <2>11, <2>12 DEF main
<1> QED
  BY <1>1, <1>2, <1>3 DEF Next

LEMMA ArgsTyped ==
  ASSUME ArgsInv
  PROVE  TypeOK
<1>1. enabled \subseteq DOMAIN opts
  BY OptTable, MeaningIsOne DEF ArgsInv, WordsRead, EnabledRead, FlagsIn
<1>2. out_string # << >> => platform_flag \in enabled
  <2> SUFFICES ASSUME out_string # << >>
               PROVE  platform_flag \in enabled
    OBVIOUS
  <2>1. PICK k \in NamersIn(argv, i - 1) : TRUE
    BY DEF ArgsInv, WordsRead, NamedRead
  <2>2. k \in FlagsIn(argv, i - 1) /\ opts[CL!Meaning(argv[k])].type = "OPT_STRING"
    BY <2>1 DEF NamersIn
  <2>3. CL!Meaning(argv[k]) \in 1 .. 7
    BY <2>2, MeaningIsOne DEF FlagsIn
  <2>4. CL!Meaning(argv[k]) = 6
    BY <2>2, <2>3, OptTable
  <2> QED BY <2>2, <2>4 DEF platform_flag, ArgsInv, WordsRead, EnabledRead
<1> QED
  BY <1>1, <1>2 DEF TypeOK, ArgsInv, PlacesPassed, WordsRead, FileRead

(* For every command line: an input file is a file, a platform is named    *)
(* only by its flag, and main begins behind the last argument              *)
(* (args.c:83-105, bonc.c:99-150).                                         *)
THEOREM ArgsTypes == Spec => []TypeOK
<1>1. Init => ArgsInv
  BY ArgsInit
<1>2. ArgsInv /\ [Next]_vars => ArgsInv'
  BY ArgsStep
<1>3. ArgsInv => TypeOK
  BY ArgsTyped
<1> QED
  BY <1>1, <1>2, <1>3, PTL DEF Spec

(* For every command line of any length (args.c:83-105, bonc.c:87-176): a  *)
(* wrong word ends the process with the diagnostic of the first one and    *)
(* nothing printed; otherwise what was asked for is printed in order, as   *)
(* far as the compiler gets, each dump in full once a later place is       *)
(* reached.  That holds when it breaks down or crashes too.  Unasked come  *)
(* only a diagnostic and the line of type_sz (ir_gen.c:13).                *)
THEOREM ReadsAsMeant == Spec => ImplementsCommandLine
<1>1. Init => ArgsInv /\ CL!Init
  BY ArgsInit
<1>2. ArgsInv /\ [Next]_vars => ArgsInv'
  BY ArgsStep
<1>3. ArgsInv /\ [Next]_vars => [CL!Decide]_<<argv, On, Shown, outcome>>
  BY ArgsStep DEF Undecided
<1> QED
  BY <1>1, <1>2, <1>3, PTL DEF Spec, ImplementsCommandLine, CL!Spec, On, Shown

===========================================================================
