----------------------------- MODULE LeaseServer -----------------------------
(***************************************************************************)
(* The nanodhcp daemon (src/server/daemon.rs): the receive loop, what it   *)
(* decides for each DHCP packet, the lease store it keeps in memory and    *)
(* the lease file it keeps on disk.  The process may crash between any two *)
(* of its steps and be started again; the clock runs between them.         *)
(*                                                                         *)
(* One iteration of the loop in run() is                                   *)
(*     head -> recv -> [save] -> [send] -> sweep -> [sweep_save] -> head   *)
(* where save and send are the two halves of handle() after decide().      *)
(***************************************************************************)
EXTENDS Allocator, FiniteSets

CONSTANTS
    Packets,                    \* the packets clients may send
    DECLINE_QUARANTINE_SECS,
    PURGE_INTERVAL_SECS,
    OldFiles,                   \* what an earlier run may have left in the lease file
    MaxTime,                    \* bound on the clock
    SaveMayFail,                \* store.save() may return an error
    ReadMayFail,                \* the lease file may be unreadable at startup
    ClockMayStep                \* the wall clock may be set back

VARIABLES
    now,          \* time::now()
    file,         \* the leases in the lease file
    pc,           \* where the loop is; "down" when no process runs
    shutdown,     \* SHUTDOWN
    by_mac,       \* LeaseStore.by_mac
    declined,     \* LeaseStore.declined
    next_purge,
    reply,        \* Decision.reply, until it is sent
    promise,      \* history: the last address each client was ACKed and has not given up
    hold          \* history: the addresses declined to this process

disk    == <<file>>
memory  == <<by_mac, declined, next_purge>>
history == <<promise, hold>>
vars    == <<now, file, pc, shutdown, by_mac, declined, next_purge, reply, promise, hold>>

MsgType == {"DISCOVER", "REQUEST", "RELEASE", "DECLINE", "INFORM", "OTHER", "NONE"}

(***************************************************************************)
(* A parsed packet, the fields decide() looks at.  NoIp stands for an      *)
(* option that is absent.                                                  *)
(***************************************************************************)
Packet == [type : MsgType, mac : Mac, server_id : Address \cup {NoIp},
           requested_ip : Address \cup {NoIp}, ciaddr : Address, giaddr : Address,
           wants_broadcast : BOOLEAN]

Broadcast == NoIp

Reply == [type : {"OFFER", "ACK", "NAK", "INFORM_ACK"}, mac : Mac, yiaddr : Address,
          dst : Address \cup {Broadcast}, until : Nat]

NoReply == [type |-> "NONE"]

ASSUME ServerConstants ==
    /\ Packets \subseteq Packet
    /\ DECLINE_QUARANTINE_SECS \in Nat \ {0}
    /\ PURGE_INTERVAL_SECS \in Nat \ {0}
    /\ MaxTime \in Nat
    /\ \A f \in OldFiles : IsLeaseMap(f, Mac) /\ OneMacPerIp(f)
    /\ {SaveMayFail, ReadMayFail, ClockMayStep} \subseteq BOOLEAN

-----------------------------------------------------------------------------
Init ==
    /\ now = 0
    /\ file \in OldFiles
    /\ pc = "down"
    /\ shutdown = FALSE
    /\ by_mac = NoEntries /\ declined = NoEntries /\ next_purge = 0
    /\ reply = NoReply
    /\ promise = NoEntries /\ hold = NoEntries

(***************************************************************************)
(* Startup.  The leases that expired while the server was down are purged  *)
(* from memory only.  A file that cannot be read counts as an empty one.   *)
(***************************************************************************)
StartWith(loaded) ==
    /\ pc = "down"
    /\ by_mac' = PurgeLeases(loaded, now)
    /\ declined' = NoEntries
    /\ next_purge' = now + PURGE_INTERVAL_SECS
    /\ pc' = "head"
    /\ UNCHANGED <<now, disk, shutdown, reply, history>>

Start == StartWith(file)

StartUnreadable == ReadMayFail /\ StartWith(NoEntries)

(***************************************************************************)
(* The process is gone and its memory with it, on a crash or when run()    *)
(* returns.                                                                *)
(***************************************************************************)
Stop ==
    /\ pc' = "down"
    /\ shutdown' = FALSE
    /\ by_mac' = NoEntries /\ declined' = NoEntries /\ next_purge' = 0
    /\ reply' = NoReply
    /\ hold' = NoEntries
    /\ UNCHANGED <<now, disk, promise>>

Crash == pc # "down" /\ Stop

(* The test of the while loop. *)
Exit == pc = "head" /\ shutdown /\ Stop

(* Mutant: the loop does not look at SHUTDOWN before it receives. *)
BugEnterRecv ==
    /\ pc = "head"
    /\ pc' = "recv"
    /\ UNCHANGED <<now, disk, shutdown, memory, reply, history>>

EnterRecv ==
    /\ pc = "head"
    /\ ~shutdown
    /\ pc' = "recv"
    /\ UNCHANGED <<now, disk, shutdown, memory, reply, history>>

(* recv_from: nothing within POLL_INTERVAL, an interrupted call, an error. *)
RecvTimeout ==
    /\ pc = "recv"
    /\ pc' = "sweep"
    /\ UNCHANGED <<now, disk, shutdown, memory, reply, history>>

Signal ==
    /\ pc # "down"
    /\ ~shutdown
    /\ shutdown' = TRUE
    /\ UNCHANGED <<now, disk, pc, memory, reply, history>>

-----------------------------------------------------------------------------
(***************************************************************************)
(* decide(): one action for each way it handles a packet.                  *)
(***************************************************************************)
ForUs(p, type) == pc = "recv" /\ p.giaddr = UNSPECIFIED /\ p.type = type

Assigned(p) == assign_ip(by_mac, declined, p.mac, now)

(* What handle() does after decide(): persist if asked to, then reply. *)
AfterSave(r) == IF r = NoReply THEN "sweep" ELSE "send"

(* Mutant: a reply goes out before, and instead of, the save. *)
BugRespond(r, save_leases) ==
    /\ reply' = r
    /\ pc' = IF r = NoReply /\ save_leases THEN "save" ELSE AfterSave(r)

Respond(r, save_leases) ==
    /\ reply' = r
    /\ pc' = IF save_leases THEN "save" ELSE AfterSave(r)

Silent == Respond(NoReply, FALSE)

Message(type, p, ip, dst, until) ==
    [type |-> type, mac |-> p.mac, yiaddr |-> ip, dst |-> dst, until |-> until]

(* Relayed, without a message type, of an unsupported one; or not a DHCP   *)
(* packet at all (DhcpPacket::parse fails).                                *)
Ignore(p) ==
    /\ pc = "recv"
    /\ p.giaddr # UNSPECIFIED \/ p.type \in {"OTHER", "NONE"}
    /\ Silent
    /\ UNCHANGED <<now, disk, shutdown, memory, history>>

(* An offer reserves nothing. *)
Offer(p) ==
    /\ ForUs(p, "DISCOVER")
    /\ Assigned(p) # NoIp
    /\ Respond(Message("OFFER", p, Assigned(p), Broadcast, now + lease_time), FALSE)
    /\ UNCHANGED <<now, disk, shutdown, memory, history>>

PoolExhausted(p) ==
    /\ ForUs(p, "DISCOVER")
    /\ Assigned(p) = NoIp
    /\ Silent
    /\ UNCHANGED <<now, disk, shutdown, memory, history>>

(***************************************************************************)
(* REQUEST.  server_id present and ours: SELECTING; absent: INIT-REBOOT,   *)
(* RENEWING or REBINDING, answered only for a client we have a record of.  *)
(***************************************************************************)
Requested(p) == IF p.requested_ip # NoIp THEN p.requested_ip ELSE p.ciaddr

Known(mac) == IsStatic(mac) \/ mac \in DOMAIN by_mac

MustAnswer(p) == p.server_id = server_ip \/ (p.server_id = NoIp /\ Known(p.mac))

Grants(p) == Assigned(p) # NoIp /\ Requested(p) \in {UNSPECIFIED, Assigned(p)}

ack_dst(p) == IF p.ciaddr = UNSPECIFIED \/ p.wants_broadcast THEN Broadcast ELSE p.ciaddr

Ack(p) == Message("ACK", p, Assigned(p), ack_dst(p), now + lease_time)

(* Mutant: the expired leases stay. *)
BugCommit(mac, ip) ==
    Insert(by_mac, mac, [ip |-> ip, expires_at |-> now + lease_time])

(* The expired leases go before the new one is stored. *)
Commit(mac, ip) ==
    Insert(PurgeLeases(by_mac, now), mac, [ip |-> ip, expires_at |-> now + lease_time])

RequestIgnored(p) ==
    /\ ForUs(p, "REQUEST")
    /\ ~MustAnswer(p)
    /\ Silent
    /\ UNCHANGED <<now, disk, shutdown, memory, history>>

AckStatic(p) ==
    /\ ForUs(p, "REQUEST") /\ MustAnswer(p) /\ Grants(p)
    /\ IsStatic(p.mac)
    /\ Respond(Ack(p), FALSE)
    /\ UNCHANGED <<now, disk, shutdown, memory, history>>

AckDynamic(p) ==
    /\ ForUs(p, "REQUEST") /\ MustAnswer(p) /\ Grants(p)
    /\ ~IsStatic(p.mac)
    /\ by_mac' = Commit(p.mac, Assigned(p))
    /\ declined' = PurgeDeclined(declined, now)
    /\ Respond(Ack(p), TRUE)
    /\ promise' = Restrict(promise, {mac \in DOMAIN promise :
                               mac # p.mac \/ promise[mac].ip = Assigned(p)})
    /\ UNCHANGED <<now, disk, shutdown, next_purge, hold>>

Nak(p) ==
    /\ ForUs(p, "REQUEST") /\ MustAnswer(p) /\ ~Grants(p)
    /\ Respond(Message("NAK", p, UNSPECIFIED, Broadcast, 0), FALSE)
    /\ UNCHANGED <<now, disk, shutdown, memory, history>>

(***************************************************************************)
(* RELEASE and DECLINE drop the sender's dynamic lease, whatever address   *)
(* the packet names; a static client's stale record stays.                 *)
(***************************************************************************)
HasLease(mac) == ~IsStatic(mac) /\ mac \in DOMAIN by_mac

(* Mutant: the lease is removed before the client is found to be static. *)
BugDrop(mac) == Remove(by_mac, mac)

Drop(mac) == IF HasLease(mac) THEN Remove(by_mac, mac) ELSE by_mac

Release(p) ==
    /\ ForUs(p, "RELEASE")
    /\ by_mac' = Drop(p.mac)
    /\ Respond(NoReply, HasLease(p.mac))
    /\ promise' = Remove(promise, p.mac)
    /\ UNCHANGED <<now, disk, shutdown, declined, next_purge, hold>>

(* The address is looked up before the lease is dropped. *)
DeclinedIp(p) ==
    IF p.requested_ip # NoIp THEN p.requested_ip
    ELSE IF p.mac \in DOMAIN by_mac THEN by_mac[p.mac].ip
    ELSE p.ciaddr

(* History: the address the client means is the one it names, or else the  *)
(* one it holds.                                                           *)
Reported(p) ==
    IF p.requested_ip # NoIp THEN {p.requested_ip} \ {UNSPECIFIED}
    ELSE {promise[mac].ip : mac \in {m \in DOMAIN promise : m = p.mac /\ promise[m].until > now}}

Decline(p) ==
    /\ ForUs(p, "DECLINE")
    /\ by_mac' = Drop(p.mac)
    /\ declined' = IF DeclinedIp(p) = UNSPECIFIED THEN declined
                   ELSE Quarantine(declined, DeclinedIp(p), now + DECLINE_QUARANTINE_SECS)
    /\ Respond(NoReply, HasLease(p.mac))
    /\ promise' = Remove(promise, p.mac)
    /\ hold' = [ip \in DOMAIN hold \cup Reported(p) |->
                   IF ip \in Reported(p) THEN now + DECLINE_QUARANTINE_SECS ELSE hold[ip]]
    /\ UNCHANGED <<now, disk, shutdown, next_purge>>

InformIgnored(p) ==
    /\ ForUs(p, "INFORM")
    /\ p.ciaddr = UNSPECIFIED
    /\ Silent
    /\ UNCHANGED <<now, disk, shutdown, memory, history>>

(* Parameters only: no address, no lease. *)
InformAck(p) ==
    /\ ForUs(p, "INFORM")
    /\ p.ciaddr # UNSPECIFIED
    /\ Respond(Message("INFORM_ACK", p, UNSPECIFIED, p.ciaddr, 0), FALSE)
    /\ UNCHANGED <<now, disk, shutdown, memory, history>>

decide(p) ==
    \/ Ignore(p)
    \/ Offer(p) \/ PoolExhausted(p)
    \/ RequestIgnored(p) \/ AckStatic(p) \/ AckDynamic(p) \/ Nak(p)
    \/ Release(p) \/ Decline(p)
    \/ InformIgnored(p) \/ InformAck(p)

-----------------------------------------------------------------------------
(***************************************************************************)
(* The rest of an iteration.  LeaseStore::save replaces the file as a      *)
(* whole or, failing, leaves it; the failure is logged and nothing else.   *)
(***************************************************************************)
(* Mutant: the reply is forgotten once the leases are saved. *)
BugAfterSaving == "head"

AfterSaving == IF pc = "save" THEN AfterSave(reply) ELSE "head"

Save ==
    /\ pc \in {"save", "sweep_save"}
    /\ file' = by_mac
    /\ pc' = AfterSaving
    /\ UNCHANGED <<now, shutdown, memory, reply, history>>

SaveFails ==
    /\ SaveMayFail
    /\ pc \in {"save", "sweep_save"}
    /\ pc' = AfterSaving
    /\ UNCHANGED <<now, disk, shutdown, memory, reply, history>>

(* The client is taken to receive the reply: it now counts on its lease.   *)
Send ==
    /\ pc = "send"
    /\ pc' = "sweep"
    /\ reply' = NoReply
    /\ promise' = IF reply.type = "ACK"
                  THEN Put(promise, reply.mac, [ip |-> reply.yiaddr, until |-> reply.until])
                  ELSE promise
    /\ UNCHANGED <<now, disk, shutdown, memory, hold>>

(* Mutant: a sweep that is missed by a second is missed for good. *)
BugSweepDue == now = next_purge

SweepDue == now >= next_purge

NothingToSweep ==
    /\ pc = "sweep"
    /\ ~SweepDue
    /\ pc' = "head"
    /\ UNCHANGED <<now, disk, shutdown, memory, reply, history>>

(* The file is rewritten only if a lease, not a quarantine, was removed.   *)
Sweep ==
    /\ pc = "sweep"
    /\ SweepDue
    /\ by_mac' = PurgeLeases(by_mac, now)
    /\ declined' = PurgeDeclined(declined, now)
    /\ next_purge' = now + PURGE_INTERVAL_SECS
    /\ pc' = IF DOMAIN by_mac' # DOMAIN by_mac THEN "sweep_save" ELSE "head"
    /\ UNCHANGED <<now, disk, shutdown, reply, history>>

-----------------------------------------------------------------------------
(***************************************************************************)
(* The clock.  A promise is forgotten when the client's lease is over, a   *)
(* hold when the quarantine is.                                            *)
(***************************************************************************)
SetClock(t) ==
    /\ now' = t
    /\ promise' = Restrict(promise, {mac \in DOMAIN promise : promise[mac].until > t})
    /\ hold' = Restrict(hold, {ip \in DOMAIN hold : hold[ip] > t})
    /\ UNCHANGED <<disk, pc, shutdown, memory, reply>>

Tick == now < MaxTime /\ SetClock(now + 1)

StepBack == ClockMayStep /\ \E t \in 0 .. now - 1 : SetClock(t)

Handle == \E p \in Packets : decide(p)

LoopStep ==
    \/ Exit \/ EnterRecv
    \/ RecvTimeout \/ Handle
    \/ Save \/ SaveFails \/ Send
    \/ NothingToSweep \/ Sweep

Environment == Start \/ StartUnreadable \/ Crash \/ Signal \/ Tick \/ StepBack

Next == LoopStep \/ Environment

Spec == Init /\ [][Next]_vars

-----------------------------------------------------------------------------
(***************************************************************************)
(* Properties.                                                             *)
(***************************************************************************)
PC == {"down", "head", "recv", "save", "send", "sweep", "sweep_save"}

Promise == [ip : Address, until : Nat]

(* The type invariant: what each variable of run() and each history        *)
(* variable may hold, and that a reply exists only while handle() runs.    *)
TypeOK ==
    /\ now \in Nat
    /\ pc \in PC
    /\ shutdown \in BOOLEAN
    /\ IsLeaseMap(file, Mac) /\ IsLeaseMap(by_mac, Mac)
    /\ IsQuarantineMap(declined) /\ IsQuarantineMap(hold)
    /\ next_purge \in Nat
    /\ reply \in Reply \cup {NoReply}
    /\ reply # NoReply => pc \in {"save", "send"}
    /\ IsMap(promise, Mac, Promise)

(* No address is ever stored for two clients, in memory or in the file,    *)
(* not even by an expired lease next to a live one: decide() purges before *)
(* it inserts.  Whatever fails and whatever the clock does.                *)
OneOwner == OneMacPerIp(by_mac) /\ OneMacPerIp(file)

(* A client that was sent an ACK and has not given the address up holds it *)
(* until the lease it was told about ends.                                 *)
Outstanding(mac) == mac \in DOMAIN promise /\ promise[mac].until > now

(* Two clients never hold the same address at once, across restarts,       *)
(* sweeps, declines and reallocation (allocator::assign_ip, decide).       *)
NoDoublePromise ==
    \A m1, m2 \in DOMAIN promise :
        /\ Outstanding(m1) /\ Outstanding(m2)
        /\ promise[m1].ip = promise[m2].ip
        => m1 = m2

Covers(leases, mac, p) ==
    /\ mac \in DOMAIN leases
    /\ leases[mac].ip = p.ip
    /\ leases[mac].expires_at >= p.until

(* Every dynamic lease a client holds is in the lease file, for at least   *)
(* as long as the client was told: handle() saves before it sends, and no  *)
(* later save takes the lease out again.                                   *)
PromiseDurable ==
    \A mac \in DOMAIN promise :
        Outstanding(mac) /\ ~IsStatic(mac) => Covers(file, mac, promise[mac])

(* Between two packets a crash and restart loses no lease and revives none *)
(* but expired ones: the file agrees with memory on every lease, up to     *)
(* those that have expired (the startup sweep is not written back).        *)
InSync ==
    /\ \A mac \in DOMAIN by_mac : mac \in DOMAIN file /\ file[mac] = by_mac[mac]
    /\ \A mac \in DOMAIN file \ DOMAIN by_mac : file[mac].expires_at <= now

RestartLosesNothing == pc \in {"head", "recv"} => InSync

(* A client that renews the address it holds is known and would be given   *)
(* that very address, unless it is quarantined: a restart, a sweep or      *)
(* another client's traffic cannot turn its renewal into silence or a NAK. *)
RenewalHonoured ==
    pc = "recv" =>
        \A mac \in DOMAIN promise :
            /\ Outstanding(mac)
            /\ IsStatic(mac) \/ ~IsQuarantined(declined, promise[mac].ip, now)
            => Known(mac) /\ assign_ip(by_mac, declined, mac, now) = promise[mac].ip

(* An address a client reported as in use is neither offered nor leased to *)
(* a dynamic client while its quarantine lasts (decide, is_quarantined,    *)
(* purge_expired).                                                         *)
QuarantineHonoured ==
    reply.type \in {"OFFER", "ACK"} /\ ~IsStatic(reply.mac)
        => ~(reply.yiaddr \in DOMAIN hold /\ hold[reply.yiaddr] > now)

(* Nothing but leases and quarantines uses an address up: a client is      *)
(* refused only while other clients have as many unexpired leases as the   *)
(* pool has addresses to give (assign_ip, purge_expired).                  *)
RefusedForWant ==
    \A mac \in Mac :
        assign_ip(by_mac, declined, mac, now) = NoIp
            => Cardinality({ip \in Pool : ~Reserved(ip) /\ ~IsQuarantined(declined, ip, now)})
                  <= Cardinality({m \in DOMAIN by_mac \ {mac} : by_mac[m].expires_at > now})

Live(p) == Restrict(p, {mac \in DOMAIN p : p[mac].until > now})

Promised == INSTANCE Tenancy WITH
    Tenants <- Mac, Addresses <- Pool \cup StaticIps, term <- lease_time,
    tenancy <- Live(promise)

(* What the server promises are tenancies: whatever packets come and       *)
(* whenever it is restarted, an address is promised to one client at a     *)
(* time, and a client that renews is never promised less than it had.      *)
ImplementsTenancy == Promised!Spec

-----------------------------------------------------------------------------
(***************************************************************************)
(* Liveness.  recv_from returns within POLL_INTERVAL, so a running process *)
(* always takes its next step; and time passes.                            *)
(***************************************************************************)
Fairness == WF_vars(LoopStep) /\ WF_vars(Tick)

FairSpec == Spec /\ Fairness

(* A shutdown signal ends the process, whatever packets keep arriving.     *)
ShutdownObeyed == shutdown ~> pc = "down"

Stale(mac) == mac \in DOMAIN by_mac /\ by_mac[mac].expires_at <= now

(* An expired lease leaves memory within a sweep interval, or is renewed;  *)
(* stated of the leases that expire early enough for the bounded clock.    *)
ExpiredSwept ==
    \A mac \in Mac :
        Stale(mac) /\ now + PURGE_INTERVAL_SECS <= MaxTime ~> ~Stale(mac)

=============================================================================
