------------------------------ MODULE LeaseFile ------------------------------
(***************************************************************************)
(* The steps of LeaseStore::save (src/lease/store.rs): the new version is  *)
(* written to a temporary file, synced, and renamed over the lease file.   *)
(* Any step may fail, the process may crash and the machine lose its power *)
(* between any two of them.  LeaseServer takes a save as one step; this    *)
(* module justifies that.                                                  *)
(*                                                                         *)
(* The temporary file has the lease file's name with the extension "tmp":  *)
(* a lease file that has this extension already is its own temporary file. *)
(***************************************************************************)
CONSTANTS
    Versions,        \* the lease files a server may want to write
    Missing,         \* no such file
    Torn,            \* neither missing nor a version: truncated, or partly written
    TmpIsLive        \* path.with_extension("tmp") = path

VARIABLES
    pc,              \* the next step of save; "idle" when none runs
    out,             \* the version being saved
    live,            \* the lease file as the system shows it
    tmp,             \* the temporary file as the system shows it
    synced,          \* the temporary file's data are on the disk
    older,           \* what the lease file may be after a power loss, but for live
    result,          \* history: what the last save returned
    before           \* history: the lease file when it began

ASSUME FileConstants ==
    /\ Missing \notin Versions /\ Torn \notin Versions /\ Missing # Torn
    /\ TmpIsLive \in BOOLEAN

files == <<live, tmp, synced, older>>
vars  == <<pc, out, live, tmp, synced, older, result, before>>

Contents == Versions \cup {Missing}

Init ==
    /\ pc = "idle" /\ result = "none"
    /\ out \in Versions
    /\ live \in Contents /\ before = live
    /\ tmp \in Contents \cup {Torn}
    /\ synced = FALSE
    /\ older = {}

-----------------------------------------------------------------------------
Begin(v) ==
    /\ pc = "idle"
    /\ pc' = "mkdir"
    /\ out' = v
    /\ result' = "none" /\ before' = live
    /\ UNCHANGED files

(* create_dir_all: the directory is there in the end. *)
MakeDir ==
    /\ pc = "mkdir"
    /\ pc' = "create"
    /\ UNCHANGED <<out, files, result, before>>

(* The open file now holds c. *)
Fill(c) ==
    /\ synced' = FALSE
    /\ IF TmpIsLive
       THEN live' = c /\ older' = older \cup {live} /\ UNCHANGED tmp
       ELSE tmp' = c /\ UNCHANGED <<live, older>>

(* Mutant: the lease file itself is opened for writing. *)
BugCreate ==
    /\ pc = "create"
    /\ pc' = "write"
    /\ live' = Torn /\ older' = older \cup {live}
    /\ synced' = FALSE
    /\ UNCHANGED <<tmp, out, result, before>>

(* File::create truncates what an earlier save may have left. *)
Create ==
    /\ pc = "create"
    /\ pc' = "write"
    /\ Fill(Torn)
    /\ UNCHANGED <<out, result, before>>

(* Mutant: write instead of write_all, and a short write passes. *)
BugWrite ==
    /\ pc = "write"
    /\ pc' = "sync"
    /\ Fill(out) \/ Fill(Torn)
    /\ UNCHANGED <<out, result, before>>

Write ==
    /\ pc = "write"
    /\ pc' = "sync"
    /\ Fill(out)
    /\ UNCHANGED <<out, result, before>>

(* Mutant: the data are left to the page cache. *)
BugSync ==
    /\ pc = "sync"
    /\ pc' = "rename"
    /\ UNCHANGED <<out, files, result, before>>

Sync ==
    /\ pc = "sync"
    /\ pc' = "rename"
    /\ synced' = TRUE
    /\ older' = IF TmpIsLive THEN {} ELSE older
    /\ UNCHANGED <<live, tmp, out, result, before>>

(* The rename shows at once.  The directory is not synced, so the disk may *)
(* still have the old entry, or the new one for data that are not there.   *)
Rename ==
    /\ pc = "rename"
    /\ pc' = "idle"
    /\ result' = "ok"
    /\ synced' = FALSE
    /\ IF TmpIsLive
       THEN UNCHANGED <<live, tmp, older>>
       ELSE /\ live' = tmp /\ tmp' = Missing
            /\ older' = older \cup {live} \cup (IF synced THEN {} ELSE {Torn})
    /\ UNCHANGED <<out, before>>

(* Mutant: an error is dropped. *)
BugFail ==
    /\ pc # "idle"
    /\ pc' = "idle"
    /\ result' = "ok"
    /\ UNCHANGED <<out, files, before>>

(* Any step may return an error; a write that does leaves part of it. *)
Fail ==
    /\ pc # "idle"
    /\ pc' = "idle"
    /\ result' = "err"
    /\ UNCHANGED <<out, files, before>>

-----------------------------------------------------------------------------
(***************************************************************************)
(* The environment.                                                        *)
(***************************************************************************)
Gone == pc' = "idle" /\ result' = "none" /\ UNCHANGED <<out, before>>

(* The process dies: what it has written stays. *)
Crash == pc # "idle" /\ Gone /\ UNCHANGED files

(* Of the temporary file anything may be left that was not synced. *)
PowerLoss ==
    /\ Gone
    /\ live' \in older \cup {live}
    /\ older' = {}
    /\ tmp' \in {tmp, Missing, Torn}
    /\ synced' = FALSE

(* The system writes its cache back. *)
Settle ==
    /\ older # {}
    /\ older' = {}
    /\ UNCHANGED <<pc, out, live, tmp, synced, result, before>>

save == (\E v \in Versions : Begin(v)) \/ MakeDir \/ Create \/ Write \/ Sync \/ Rename \/ Fail

Next == save \/ Crash \/ PowerLoss \/ Settle

Spec == Init /\ [][Next]_vars

-----------------------------------------------------------------------------
(***************************************************************************)
(* Properties.                                                             *)
(***************************************************************************)
(* The type invariant, with what save knows of its temporary file: once    *)
(* written it holds the whole version it was asked to save.                *)
TypeOK ==
    /\ pc \in {"idle", "mkdir", "create", "write", "sync", "rename"}
    /\ out \in Versions
    /\ {live, before, tmp} \subseteq Contents \cup {Torn}
    /\ synced \in BOOLEAN
    /\ older \subseteq Contents \cup {Torn}
    /\ result \in {"none", "ok", "err"}
    /\ pc \in {"sync", "rename"} /\ ~TmpIsLive => tmp = out

(* Neither a crash nor a power loss at any step of save leaves a lease     *)
(* file that is truncated or partly written (store.rs, save: "a crash      *)
(* mid-write cannot corrupt the live lease file").                         *)
NeverTorn == live # Torn /\ Torn \notin older

(* The same, as documented and for a crash of the process alone.           *)
CrashHarmless == pc = "idle" => live # Torn

(* save either replaces the lease file and returns Ok, or returns Err and  *)
(* leaves it: handle() can tell from the result what a restart will load.  *)
ResultIsTrue ==
    /\ result = "ok"  => live = out
    /\ result = "err" => live = before
    /\ pc # "idle"    => live = before

(* The steps of save amount to one atomic replacement: to a reader, and    *)
(* to a server started again, they are the Save of LeaseServer.            *)
Atomic == INSTANCE AtomicFile WITH content <- live

ImplementsAtomicFile == Atomic!Spec

=============================================================================
