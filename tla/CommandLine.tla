---------------------------- MODULE CommandLine ----------------------------
(***************************************************************************)
(* What a command line means, without reading it from left to right: each  *)
(* word is right or wrong by itself and its place, the first wrong one is  *)
(* the one to hear of, and the right ones ask for something all together.  *)
(***************************************************************************)
EXTENDS SequencesExt

CONSTANTS opts, platforms

VARIABLES argv, platform, out, outcome

(* A word that is not a flag is a file; a flag stands for the first option *)
(* it abbreviates, or, with one dash, is.                                  *)
IsEmpty(w) == w.dashes < 2 /\ w.name = << >> /\ w.value = << >>
IsFile(w) == w.dashes = 0 /\ ~IsEmpty(w)
Meanings(w) ==
  {k \in DOMAIN opts :
     \/ w.dashes = 2 /\ opts[k].long_flag /\ IsPrefix(w.name, opts[k].flag)
     \/ w.dashes = 1 /\ ~opts[k].long_flag /\ w.name = opts[k].flag /\ w.value = << >>}
Meaning(w) == CHOOSE k \in Meanings(w) : \A other \in Meanings(w) : k <= other

(* A flag with one dash takes the next word for its value, so that one     *)
(* that has none may only come last.                                       *)
Wrong(k, message) ==
  LET w == argv[k] IN
  \/ message = "invalid argument" /\ IsEmpty(w)
  \/ message = "unrecognized option" /\ ~IsEmpty(w) /\ ~IsFile(w) /\ Meanings(w) = {}
  \/ /\ message = "doesn't allow an argument"
     /\ Meanings(w) # {} /\ opts[Meaning(w)].required_arg = "ARG_NONE"
     /\ w.value # << >> \/ (w.dashes = 1 /\ k < Len(argv))
  \/ message = "more than one input file" /\ IsFile(w) /\ \E j \in 1 .. k - 1 : IsFile(argv[j])

Messages ==
  {"invalid argument", "unrecognized option", "doesn't allow an argument", "more than one input file"}
Right(k) == \A message \in Messages : ~Wrong(k, message)

Flags == {k \in DOMAIN argv : Meanings(argv[k]) # {}}
Asked(flag) == \E k \in Flags : opts[Meaning(argv[k])].flag = flag
(* The value of the last word that gives one: << >> if that gives none.    *)
Namers == {k \in Flags : opts[Meaning(argv[k])].type = "OPT_STRING"}
PlatformNamed == IF Namers = {} THEN << >> ELSE argv[Max(Namers)].value

-----------------------------------------------------------------------------
Init == out = << >> /\ outcome = "running"

Misread ==
  \E k \in DOMAIN argv, message \in Messages :
    /\ Wrong(k, message) /\ \A j \in 1 .. k - 1 : Right(j)
    /\ outcome' = message /\ UNCHANGED <<platform, out>>

Understood == \A k \in DOMAIN argv : Right(k)
Contradiction == Asked(<<"dump-", "reg">>) /\ ~Asked(<<"dump-", "ir">>)
InfoAsked ==
  \/ Asked(<<"h">>) \/ Asked(<<"v">>) \/ Asked(<<"list-platforms">>)
  \/ Asked(<<"platform">>) /\ PlatformNamed = << >>

Contradict ==
  /\ Understood /\ Contradiction
  /\ outcome' = "cannot print registers" /\ UNCHANGED <<platform, out>>

(* Help before the version before the platforms.                           *)
Inform ==
  /\ Understood /\ ~Contradiction /\ InfoAsked
  /\ outcome' = "ok" /\ UNCHANGED platform
  /\ out' = IF Asked(<<"h">>) THEN <<"help">>
            ELSE IF Asked(<<"v">>) THEN <<"version">> ELSE <<"platforms">>

(* How far a compilation may get: the file is not read, the program is     *)
(* diagnosed, or the compiler breaks down before, in or behind the dump of *)
(* the tree, or comes through, perhaps with a line about its sizes.        *)
Unread == {"unable to open", "unable to get stats", "unable to get contents"}
Breakdowns == {"internal error", "segv"}
Ending(ast, ir) ==
  \/ outcome' \in Unread \cup Breakdowns /\ out' = << >>
  \/ outcome' = "diagnosed" /\ out' = <<"diagnostic">>
  \/ outcome' = "segv" /\ out' = <<"diagnostic, cut off">>
  \/ outcome' = "segv" /\ ast # << >> /\ out' = <<"ast, cut off">>
  \/ \E lines \in {<< >>, <<"here">>} :
       \/ outcome' \in Breakdowns /\ out' = ast \o lines
       \/ outcome' \in {"ok", "internal error"} /\ out' = (ast \o lines) \o ir

(* A platform there is not is ignored.                                     *)
Compile ==
  LET ast == IF Asked(<<"dump-", "ast">>) THEN <<"ast">> ELSE << >>
      ir == IF ~Asked(<<"dump-", "ir">>) THEN << >>
            ELSE IF Asked(<<"dump-", "reg">>) THEN <<"ir and registers">> ELSE <<"ir">>
  IN  /\ Understood /\ ~Contradiction /\ ~InfoAsked
      /\ platform' = IF PlatformNamed # << >> /\ PlatformNamed[1] \in platforms
                     THEN PlatformNamed[1] ELSE platform
      /\ IF \E k \in DOMAIN argv : IsFile(argv[k]) THEN Ending(ast, ir)
         ELSE outcome' = "no input file" /\ out' = out

Decide ==
  /\ outcome = "running" /\ UNCHANGED argv
  /\ Misread \/ Contradict \/ Inform \/ Compile

Spec == Init /\ [][Decide]_<<argv, platform, out, outcome>>
=============================================================================
