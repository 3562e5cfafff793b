-------------------------------- MODULE Args --------------------------------
(***************************************************************************)
(* The command line: parse_args over argv, one argument a step, and what   *)
(* main makes of the options until it hands the file to the compiler, with *)
(* the dumps it prints on the way.                                         *)
(*                                                                         *)
(* An argument is a record [dashes, name, value]: up to two dashes it      *)
(* begins with, the pieces of its name, and what follows a '=', if there   *)
(* is one (<< >> is a NULL pointer).  A name is cut where another flag     *)
(* begins the same, so that prefixes of flags are prefixes of sequences.   *)
(***************************************************************************)
EXTENDS SequencesExt

CONSTANT Argvs  \* command lines, without the program's name

Arguments == [dashes : 0 .. 2, name : Seq(STRING), value : Seq(STRING)]

ASSUME ArgvsAssumption == Argvs \subseteq Seq(Arguments)

Opt(flag, long_flag, required_arg, type) ==
  [flag |-> flag, long_flag |-> long_flag, required_arg |-> required_arg, type |-> type]

opts ==
  <<Opt(<<"h">>, FALSE, "ARG_NONE", "OPT_BOOLEAN"),
    Opt(<<"v">>, FALSE, "ARG_NONE", "OPT_BOOLEAN"),
    Opt(<<"dump-", "ast">>, TRUE, "ARG_NONE", "OPT_BOOLEAN"),
    Opt(<<"dump-", "ir">>, TRUE, "ARG_NONE", "OPT_BOOLEAN"),
    Opt(<<"dump-", "reg">>, TRUE, "ARG_NONE", "OPT_BOOLEAN"),
    Opt(<<"platform">>, TRUE, "ARG_OPTIONAL", "OPT_STRING"),
    Opt(<<"list-platforms">>, TRUE, "ARG_NONE", "OPT_BOOLEAN")>>

help == 1
version == 2
ast_dump_flag == 3
ir_dump_flag == 4
reg_dump_flag == 5
platform_flag == 6
list_platforms == 7

platforms == {"x86_64-sysv", "RV64"}

VARIABLES
  argv,
  i,           \* the argument parse_args looks at
  enabled,     \* the options with enabled set
  out_string,  \* platform_flag.out.string
  input_file,
  platform,
  at,          \* the place in main
  out,         \* what was printed
  outcome      \* "running", "ok", or how else it ended: the error message or a crash

vars == <<argv, i, enabled, out_string, input_file, platform, at, out, outcome>>

log_err_final(message) ==
  outcome' = message /\ UNCHANGED <<argv, i, enabled, out_string, input_file, platform, at, out>>

-----------------------------------------------------------------------------
(* parse_args.                                                             *)
Arg == argv[i]
Parsing == outcome = "running" /\ at = "parse_args" /\ i <= Len(argv)
Following == IF i < Len(argv) THEN <<argv[i + 1]>> ELSE << >>
Nameless == Arg.dashes < 2 /\ Arg.name = << >> /\ Arg.value = << >>

InvalidArgument == Parsing /\ Nameless /\ log_err_final("invalid argument")

(* Mutants: an option with a value is not marked as enabled; the argument  *)
(* is looked at again.                                                     *)
fill_flag_argument_again(value, k, n) ==
  /\ enabled' = enabled \cup {k}
  /\ out_string' = IF opts[k].type = "OPT_STRING" THEN value ELSE out_string
  /\ i' = i + n - 1
  /\ UNCHANGED <<argv, input_file, platform, at, out, outcome>>
fill_flag_argument_unmarked(value, k, n) ==
  IF opts[k].required_arg = "ARG_NONE" /\ value # << >>
  THEN log_err_final("doesn't allow an argument")
  ELSE /\ enabled' = IF value # << >> THEN enabled ELSE enabled \cup {k}
       /\ out_string' = IF opts[k].type = "OPT_STRING" THEN value ELSE out_string
       /\ i' = i + n
       /\ UNCHANGED <<argv, input_file, platform, at, out, outcome>>

(* Enables opts[k] and goes on with the argument n further, or one more if *)
(* a value was used.                                                       *)
fill_flag_argument(value, k, n) ==
  IF opts[k].required_arg = "ARG_NONE" /\ value # << >>
  THEN log_err_final("doesn't allow an argument")
  ELSE /\ enabled' = enabled \cup {k}
       /\ out_string' = IF opts[k].type = "OPT_STRING" THEN value ELSE out_string
       /\ i' = i + n
       /\ UNCHANGED <<argv, input_file, platform, at, out, outcome>>

(* Mutant: the comparison ends with the option's own name.                 *)
LongMatches_own(name) ==
  {k \in DOMAIN opts : opts[k].long_flag /\ IsPrefix(opts[k].flag, name)}

(* The comparison ends with the name that was given.                       *)
LongMatches(name) == {k \in DOMAIN opts : opts[k].long_flag /\ IsPrefix(name, opts[k].flag)}

long_flag_parse ==
  /\ Parsing /\ Arg.dashes = 2
  /\ LET matches == LongMatches(Arg.name) IN
     IF matches = {} THEN log_err_final("unrecognized option")
     ELSE fill_flag_argument(Arg.value, Min(matches), 1)

(* The next argument is the value of a short flag, whatever it is.  None   *)
(* of the short flags has a value to be used.                              *)
short_flag_parse ==
  /\ Parsing /\ Arg.dashes = 1 /\ ~Nameless
  /\ LET matches == {k \in DOMAIN opts : /\ ~opts[k].long_flag /\ opts[k].flag = Arg.name
                                         /\ Arg.value = << >>}
     IN  IF matches = {} THEN log_err_final("unrecognized option")
         ELSE fill_flag_argument(Following, Min(matches), 1)

InputFile ==
  /\ Parsing /\ Arg.dashes = 0 /\ ~Nameless
  /\ IF input_file # << >> THEN log_err_final("more than one input file")
     ELSE /\ input_file' = <<Arg>> /\ i' = i + 1
          /\ UNCHANGED <<argv, enabled, out_string, platform, at, out, outcome>>

EndArgs ==
  /\ outcome = "running" /\ at = "parse_args" /\ i > Len(argv)
  /\ at' = "options"
  /\ UNCHANGED <<argv, i, enabled, out_string, input_file, platform, out, outcome>>

-----------------------------------------------------------------------------
(* main, from there on.                                                    *)
Step(here, there) ==
  /\ outcome = "running" /\ at = here /\ at' = there
  /\ UNCHANGED <<argv, i, enabled, out_string, input_file, outcome>>
Fails(here, message) == outcome = "running" /\ at = here /\ log_err_final(message)

RegsWithoutIr == reg_dump_flag \in enabled /\ ir_dump_flag \notin enabled
CheckDumps ==
  \/ RegsWithoutIr /\ Fails("options", "cannot print registers")
  \/ ~RegsWithoutIr /\ Step("options", "info") /\ UNCHANGED <<out, platform>>

(* Prints what was asked for instead of compiling, and exits.              *)
Info ==
  IF help \in enabled THEN "help"
  ELSE IF version \in enabled THEN "version"
  ELSE IF list_platforms \in enabled \/ (platform_flag \in enabled /\ out_string = << >>)
  THEN "platforms" ELSE "none"
PrintInfo ==
  /\ outcome = "running" /\ at = "info" /\ Info # "none"
  /\ outcome' = "ok" /\ out' = Append(out, Info)
  /\ UNCHANGED <<argv, i, enabled, out_string, input_file, platform, at>>
NoInfo == Info = "none" /\ Step("info", "platform") /\ UNCHANGED <<out, platform>>

SelectPlatform ==
  /\ Step("platform", "open") /\ UNCHANGED out
  /\ platform' = IF out_string # << >> /\ out_string[1] \in platforms
                 THEN out_string[1] ELSE platform

(* The input file: each system call may fail.                              *)
OpenFile ==
  \/ input_file = << >> /\ Fails("open", "no input file")
  \/ input_file # << >> /\ Fails("open", "unable to open")
  \/ input_file # << >> /\ Step("open", "fstat") /\ UNCHANGED <<out, platform>>
StatFile ==
  \/ Fails("fstat", "unable to get stats")
  \/ Step("fstat", "mmap") /\ UNCHANGED <<out, platform>>
MapFile ==
  \/ Fails("mmap", "unable to get contents")
  \/ Step("mmap", "analyse") /\ UNCHANGED <<out, platform>>

(* The passes, which Parser.tla and Compiler.tla model, and the dumps      *)
(* between them.  out is what printf was given: a diagnostic goes there    *)
(* too, and a crash may come in the middle of one.                         *)
Ends(here, how, printed) ==
  /\ outcome = "running" /\ at = here /\ outcome' = how /\ out' = out \o printed
  /\ UNCHANGED <<argv, i, enabled, out_string, input_file, platform, at>>

Breakdowns == {"internal error", "segv"}

(* From mempool_init to check_returns.                                     *)
Analyse ==
  \/ Ends("analyse", "diagnosed", <<"diagnostic">>)
  \/ Ends("analyse", "segv", <<"diagnostic, cut off">>)
  \/ \E how \in Breakdowns : Ends("analyse", how, << >>)
  \/ Step("analyse", "dump_ast") /\ UNCHANGED <<out, platform>>

(* type_dump reads through the NULL type of a let without one, and past    *)
(* the end of type_to_str for a function: it crashes or prints something.  *)
ast_dump == IF ast_dump_flag \in enabled THEN <<"ast">> ELSE << >>
DumpAst ==
  \/ ast_dump_flag \in enabled /\ Ends("dump_ast", "segv", <<"ast, cut off">>)
  \/ Step("dump_ast", "translate") /\ out' = out \o ast_dump /\ UNCHANGED platform

(* type_sz prints a line whenever it is asked for a size of 16 bits.       *)
SizeLines == {<< >>, <<"here">>}
Translate ==
  \E lines \in SizeLines :
    \/ \E how \in Breakdowns : Ends("translate", how, lines)
    \/ Step("translate", "dump_ir") /\ out' = out \o lines /\ UNCHANGED platform

ssa_prog_dump ==
  IF ir_dump_flag \notin enabled THEN << >>
  ELSE IF reg_dump_flag \in enabled THEN <<"ir and registers">> ELSE <<"ir">>
DumpIr ==
  Step("dump_ir", "deinit") /\ out' = out \o ssa_prog_dump /\ UNCHANGED platform

(* Giving the pool back may fail when all is done.                         *)
ast_deinit == \E how \in {"ok", "internal error"} : Ends("deinit", how, << >>)

-----------------------------------------------------------------------------
Init ==
  /\ argv \in Argvs /\ i = 1
  /\ enabled = {} /\ out_string = << >> /\ input_file = << >>
  /\ platform = "x86_64-sysv" /\ at = "parse_args" /\ out = << >> /\ outcome = "running"

parse_args == InvalidArgument \/ long_flag_parse \/ short_flag_parse \/ InputFile \/ EndArgs
main ==
  \/ CheckDumps \/ PrintInfo \/ NoInfo \/ SelectPlatform \/ OpenFile \/ StatFile \/ MapFile
  \/ Analyse \/ DumpAst \/ Translate \/ DumpIr \/ ast_deinit

Next == parse_args \/ main

Spec == Init /\ [][Next]_vars /\ WF_vars(Next)
-----------------------------------------------------------------------------
(* What was read so far holds together: an input file is a file, a platform *)
(* is named only by its flag, and main begins behind the last argument.    *)
TypeOK ==
  /\ i \in 1 .. Len(argv) + 1 /\ (at # "parse_args" => i = Len(argv) + 1)
  /\ enabled \subseteq DOMAIN opts /\ (out_string # << >> => platform_flag \in enabled)
  /\ input_file # << >> => input_file[1].dashes = 0
  /\ platform \in platforms /\ Len(out) <= 3

(* Whatever the command line is (args.c:83-105, bonc.c:87-176), the process *)
(* ends only with what the words of it mean taken each for itself.  The    *)
(* first wrong one is diagnosed before anything is printed or opened;      *)
(* otherwise what was asked for is printed, in order and as far as the     *)
(* compiler gets: a dump is there in full when a later place is reached,   *)
(* whichever way the process ends, and a flag nobody gave adds nothing.    *)
(* Unasked come only the diagnostic that ends an analysis and the lines    *)
(* type_sz leaves for 16-bit sizes (ir_gen.c:13), between the two dumps.   *)
CL == INSTANCE CommandLine
        WITH out <- IF outcome = "running" THEN << >> ELSE out,
             platform <- IF outcome = "running" THEN "x86_64-sysv" ELSE platform
ImplementsCommandLine == CL!Spec

(* And it does end: no argument is looked at twice (args.c:83-105), and    *)
(* every place of main leads on.                                           *)
Terminates == <>(outcome # "running")
=============================================================================
