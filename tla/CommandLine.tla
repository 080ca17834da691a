----------------------------- MODULE CommandLine -----------------------------
(***************************************************************************)
(* The command line (src/main.rs): dispatch picks the command, the loop of *)
(* parse_run_args reads the options of `run`, config_path the argument of  *)
(* `check` and `leases`.                                                   *)
(***************************************************************************)
EXTENDS Naturals, Sequences

CONSTANTS
    Words,           \* what may stand on a command line
    IsOption(_),     \* word.starts_with('-')
    MaxWords,
    None

ASSUME ArgConstants == MaxWords \in Nat /\ None \notin Words

Ext == INSTANCE SequencesExt

VARIABLES
    args,            \* the arguments of the process, not its name
    i,               \* of parse_run_args, an index into what follows the command
    path, level,     \* what is known of the configuration file and verbosity
    status           \* "start", "options", the command to run, or how it ended

arg_vars == <<args, i, path, level, status>>

ConfigFlag == {"-c", "--config"}
Quiet      == {"-q", "--quiet"}
Verbose    == {"-v", "--verbose"}
Help       == {"help", "-h", "--help"}

ArgsInit ==
    /\ args \in Ext!BoundedSeq(Words, MaxWords)
    /\ i = 0
    /\ path = None /\ level = "info"
    /\ status = "start"

-----------------------------------------------------------------------------
(* dispatch() *)
command == args[1]

rest == Tail(args)

End(outcome) == status' = outcome /\ UNCHANGED <<args, i, level>>

NoArguments == status = "start" /\ args = <<>> /\ End("usage") /\ UNCHANGED path

Starts == status = "start" /\ args # <<>>

ShowHelp == Starts /\ command \in Help /\ End("help") /\ UNCHANGED path

StartOptions == Starts /\ command = "run" /\ End("options") /\ UNCHANGED path

(* config_path(): what follows the file is not looked at. *)
UseConfig ==
    /\ Starts /\ command \in {"check", "leases"}
    /\ IF rest = <<>> THEN End("error") /\ UNCHANGED path
       ELSE IF rest[1] \in ConfigFlag
            THEN IF Len(rest) > 1 THEN End(command) /\ path' = rest[2]
                                  ELSE End("error") /\ UNCHANGED path
       ELSE IF IsOption(rest[1]) THEN End("error") /\ UNCHANGED path
       ELSE End(command) /\ path' = rest[1]

(* Anything else is taken for a configuration file, options included. *)
RunBare ==
    /\ Starts /\ command \notin Help \cup {"run", "check", "leases"}
    /\ End("run") /\ path' = command

-----------------------------------------------------------------------------
(* parse_run_args() *)
AtOption(flags) == status = "options" /\ i < Len(rest) /\ rest[i + 1] \in flags

(* Mutant: the path is read as the next option, too. *)
BugReadConfig ==
    /\ AtOption(ConfigFlag) /\ i + 1 < Len(rest)
    /\ path' = rest[i + 2]
    /\ i' = i + 1
    /\ UNCHANGED <<args, level, status>>

ReadConfig ==
    /\ AtOption(ConfigFlag) /\ i + 1 < Len(rest)
    /\ path' = rest[i + 2]
    /\ i' = i + 2
    /\ UNCHANGED <<args, level, status>>

NoPath == AtOption(ConfigFlag) /\ i + 1 = Len(rest) /\ End("error") /\ UNCHANGED path

ReadLevel ==
    /\ \/ AtOption(Quiet) /\ level' = "warn"
       \/ AtOption(Verbose) /\ level' = "debug"
    /\ i' = i + 1
    /\ UNCHANGED <<args, path, status>>

Unexpected ==
    /\ AtOption(Words \ (ConfigFlag \cup Quiet \cup Verbose))
    /\ End("error") /\ UNCHANGED path

EndOfOptions ==
    /\ status = "options" /\ i = Len(rest)
    /\ End(IF path = None THEN "error" ELSE "run")
    /\ UNCHANGED path

dispatch ==
    \/ NoArguments \/ ShowHelp \/ StartOptions \/ UseConfig \/ RunBare
    \/ ReadConfig \/ NoPath \/ ReadLevel \/ Unexpected \/ EndOfOptions

-----------------------------------------------------------------------------
(***************************************************************************)
(* Properties.                                                             *)
(***************************************************************************)
(* The usage that print_help shows for `run`: each word is an option or    *)
(* the value of the option before it.                                      *)
Usage(options) ==
    /\ \A k \in options : rest[k] \in ConfigFlag \cup Quiet \cup Verbose
    /\ \A k \in DOMAIN rest :
          k \in options <=> ~(k - 1 \in options /\ rest[k - 1] \in ConfigFlag)
    /\ \A k \in options : rest[k] \in ConfigFlag => k < Len(rest)

Uses(options, flags) == {k \in options : rest[k] \in flags}

IsLast(k, positions) == k \in positions /\ \A other \in positions : other <= k

(* Of several options of a kind the last one counts. *)
Means(options) ==
    /\ \E k \in options : IsLast(k, Uses(options, ConfigFlag)) /\ path = rest[k + 1]
    /\ level # "info" <=> Uses(options, Quiet \cup Verbose) # {}
    /\ \A k \in options :
          IsLast(k, Uses(options, Quiet \cup Verbose)) =>
              (level = "warn" <=> rest[k] \in Quiet)

(* `run` starts the server exactly when its arguments follow the usage and *)
(* name a configuration file, and then with the file and verbosity named   *)
(* last: a server never runs on a file nobody named, and a word is never   *)
(* both an option and the value of one (parse_run_args).                   *)
RunFollowsUsage ==
    status \in {"run", "error"} /\ command = "run" =>
        LET readings == {o \in SUBSET DOMAIN rest : Usage(o) /\ Uses(o, ConfigFlag) # {}}
        IN  IF status = "error" THEN readings = {} ELSE \E o \in readings : Means(o)

=============================================================================
