------------------------------- MODULE MCArgs -------------------------------
(* Every command line of up to three words, and some of four.              *)
EXTENDS Args

Word(dashes, name, value) == [dashes |-> dashes, name |-> name, value |-> value]
Long(name) == Word(2, name, << >>)
Short(name) == Word(1, <<name>>, << >>)
File(name) == Word(0, <<name>>, << >>)

Few ==
  {File("a.bon"), Long(<<"dump-", "ast">>), Long(<<"dump-", "ir">>), Long(<<"dump-", "reg">>),
   Word(2, <<"platform">>, <<"RV64">>), Long(<<"platform">>), Short("v"), Word(0, << >>, << >>)}

(* Abbreviations, names that go on too long, values no option takes.       *)
Words ==
  Few \cup
  {File("b.bon"), Word(1, << >>, << >>), Long(<< >>), Long(<<"dump-">>), Long(<<"dump-", "ir", "s">>),
   Word(2, <<"dump-", "ir">>, <<"x">>), Word(2, <<"platform">>, <<"z80">>), Short("h"), Short("x"),
   Word(1, <<"h">>, <<"x">>), Word(1, << >>, <<"x">>), Long(<<"list-platforms">>), Long(<<"help">>)}

MCArgvs == BoundedSeq(Words, 3) \cup BoundedSeq(Few, 4)
=============================================================================
