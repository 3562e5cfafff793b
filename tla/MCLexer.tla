------------------------------ MODULE MCLexer ------------------------------
(***************************************************************************)
(* All short texts over a few characters, and some longer ones.            *)
(***************************************************************************)
EXTENDS Lexer, SequencesExt

MCLetters == {"a", "b", "e", "f", "i", "l", "m", "n", "o", "r", "s", "t", "u", "x"}
MCDigits == {"1", "2", "3", "4", "6", "8"}

Prefix(text, n) == SubSeq(text, 1, IF n < Len(text) THEN n ELSE Len(text))

MCInputs ==
  SeqOf({"u", "8", " ", "\n", "!", "=", ")", "?"}, 4)
  \cup {Prefix(text, n) : text \in {
          <<"l","e","t"," ","x",":","u","1","6","=","8","u","1","6","\n","\n","\t","}">>,
          <<"r","e","t","u","r","n","\n","x","1","(","1","i","6",";",")","\n",";","!","=","8">>,
          <<"x","=","=","8","u","8","u","8",">","=","=","<"," ","i","i","8","\n">>},
        n \in 0 .. 20}
=============================================================================
