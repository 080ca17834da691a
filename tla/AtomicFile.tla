------------------------------ MODULE AtomicFile ------------------------------
(***************************************************************************)
(* What LeaseStore::save promises of the lease file: it holds one whole    *)
(* version at any time, and is replaced in one step.  The replacement is   *)
(* durable only once the file system has written its directory; until then *)
(* a power loss may bring back a version that was replaced.                *)
(***************************************************************************)
CONSTANTS
    Versions,        \* the versions that may be written
    Missing          \* what a reader finds when there is no file

VARIABLES
    content,         \* what a reader finds
    older            \* what it may find after a power loss instead

vars == <<content, older>>

Init == content \in Versions \cup {Missing} /\ older = {}

Replace(v) == content' = v /\ older' = older \cup {content}

Settle == older' = {} /\ UNCHANGED content

PowerLoss == content' \in older \cup {content} /\ older' = {}

Next == (\E v \in Versions : Replace(v)) \/ Settle \/ PowerLoss

Spec == Init /\ [][Next]_vars

=============================================================================
