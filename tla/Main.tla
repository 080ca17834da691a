--------------------------------- MODULE Main ---------------------------------
(***************************************************************************)
(* The program from its command line on (src/main.rs): what CommandLine    *)
(* makes of the arguments decides whether Startup runs, and how far.       *)
(***************************************************************************)
EXTENDS Startup, CommandLine

CONSTANT ConfigFile      \* the only file that can be read

MainInit == Init /\ ArgsInit

ParseArguments == dispatch /\ UNCHANGED vars

(* config::load reads the file.  The arguments are not needed any more.    *)
LoadConfig ==
    /\ status \in {"run", "check", "leases"} /\ path = ConfigFile
    /\ status' = IF status = "run" THEN "running" ELSE "checking"
    /\ args' = <<>> /\ i' = 0 /\ path' = None /\ level' = "info"
    /\ UNCHANGED vars

CannotRead ==
    /\ status \in {"run", "check", "leases"} /\ path # ConfigFile
    /\ End("unreadable")
    /\ UNCHANGED <<path, vars>>

cmd_run == status = "running" /\ Next /\ UNCHANGED arg_vars

(* So does cmd_leases, before it reads the lease file and prints it. *)
cmd_check == status = "checking" /\ (parse_config \/ Validate) /\ UNCHANGED arg_vars

MainNext == ParseArguments \/ LoadConfig \/ CannotRead \/ cmd_run \/ cmd_check

MainSpec == MainInit /\ [][MainNext]_<<vars, arg_vars>>

=============================================================================
