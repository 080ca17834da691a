------------------------------ MODULE PowerLoss ------------------------------
(***************************************************************************)
(* LeaseServer on the lease file that LeaseStore::save really provides     *)
(* (AtomicFile, which LeaseFile implements): save() syncs the new file but *)
(* not its directory, so that a power loss may bring back a version that   *)
(* was replaced since the file system last wrote the directory.            *)
(***************************************************************************)
EXTENDS LeaseServer

VARIABLES
    older,           \* versions of the lease file a power loss may bring back
    at_risk,         \* history: clients sent an ACK that is not settled on disk
    lost             \* history: clients whose ACK a power loss has undone

disk_vars == <<vars, older, at_risk, lost>>

Disk == INSTANCE AtomicFile WITH
    content <- file, Versions <- [Mac -> Lease], Missing <- NoEntries

LossInit == Init /\ older = {} /\ at_risk = {} /\ lost = {}

SaveReplaces == Save /\ Disk!Replace(by_mac) /\ UNCHANGED <<at_risk, lost>>

(* An ACK makes up for one that was lost.  It is settled at once if the    *)
(* directory was written since the save.                                   *)
SendAtRisk ==
    /\ Send
    /\ IF reply.type = "ACK"
       THEN /\ at_risk' = IF older = {} THEN at_risk ELSE at_risk \cup {reply.mac}
            /\ lost' = lost \ {reply.mac}
       ELSE UNCHANGED <<at_risk, lost>>
    /\ UNCHANGED older

(* The file system writes the directory when it likes. *)
Settle ==
    /\ older # {}
    /\ Disk!Settle
    /\ at_risk' = {}
    /\ UNCHANGED <<vars, lost>>

(* The clients at risk whose leases the version f does not have. *)
UndoneBy(f) ==
    {mac \in at_risk : Outstanding(mac) /\ ~IsStatic(mac) /\ ~Covers(f, mac, promise[mac])}

(* The machine goes down with the process, or after it. *)
LosePower ==
    /\ pc = "down"
    /\ Disk!PowerLoss
    /\ at_risk' = {} /\ lost' = lost \cup UndoneBy(file')
    /\ UNCHANGED <<now, pc, shutdown, memory, reply, history>>

(* The server when nothing else fails.  A shutdown on a signal leaves the  *)
(* disk as a crash does.                                                   *)
OtherStep ==
    /\ \/ EnterRecv \/ RecvTimeout \/ Handle \/ NothingToSweep \/ Sweep
       \/ Start \/ Crash \/ Tick
    /\ UNCHANGED <<older, at_risk, lost>>

LossNext == SaveReplaces \/ SendAtRisk \/ OtherStep \/ Settle \/ LosePower

LossSpec == LossInit /\ [][LossNext]_disk_vars

-----------------------------------------------------------------------------
(***************************************************************************)
(* Properties.                                                             *)
(***************************************************************************)
(* A lease that was ACKed before the directory was last written is in      *)
(* every version of the file that can still come back, for as long as the  *)
(* client was told: no later save, whatever it was for, puts it at risk.   *)
SettledIsDurable ==
    \A mac \in DOMAIN promise \ (at_risk \cup lost) :
        Outstanding(mac) /\ ~IsStatic(mac)
            => \A f \in older \cup {file} : Covers(f, mac, promise[mac])

(* A power loss harms those alone whose ACK it undid: of the other clients *)
(* no two ever hold the same address, also when old leases come back.      *)
HarmConfined ==
    \A m1, m2 \in DOMAIN promise \ lost :
        Outstanding(m1) /\ Outstanding(m2) /\ promise[m1].ip = promise[m2].ip => m1 = m2

=============================================================================
