---------------------------- MODULE PromiseProofs ----------------------------
(***************************************************************************)
(* What the server promises its clients, proved for every configuration    *)
(* under NoFaults: the process may crash and restart at any step, but its  *)
(* saves and loads succeed and the clock does not go back.                 *)
(***************************************************************************)
EXTENDS LeaseServerProofs

-----------------------------------------------------------------------------
(***************************************************************************)
(* The inductive invariant behind the safety properties, for a server      *)
(* whose saves and loads succeed and whose clock does not go back.         *)
(***************************************************************************)
NoFaults == ~SaveMayFail /\ ~ReadMayFail /\ ~ClockMayStep

CoversAll(leases) ==
    \A mac \in DOMAIN promise :
        Outstanding(mac) /\ ~IsStatic(mac) => Covers(leases, mac, promise[mac])

(* An address the configuration lets the client have. *)
Fits(mac, ip) == IF IsStatic(mac) THEN ip = statics[mac] ELSE ip \in Pool /\ ~Reserved(ip)

PromisesFit ==
    \A mac \in DOMAIN promise :
        /\ Fits(mac, promise[mac].ip)
        /\ promise[mac].until <= now + lease_time

(* The lease an ACK on its way announces is stored. *)
AckStored ==
    reply.type = "ACK" =>
        /\ Fits(reply.mac, reply.yiaddr)
        /\ reply.until <= now + lease_time
        /\ IsStatic(reply.mac) \/
              (/\ reply.mac \in DOMAIN by_mac
               /\ by_mac[reply.mac] = [ip |-> reply.yiaddr, expires_at |-> reply.until])

Unsaved == pc \in {"down", "save", "sweep_save"}

LeaseInv ==
    /\ TypeOK
    /\ OneOwner
    /\ CoversAll(file)
    /\ pc # "down" => CoversAll(by_mac)
    /\ PromisesFit
    /\ AckStored
    /\ ~Unsaved => InSync

(* The quarantine map knows every hold that a dynamic client could break.  *)
HoldsKept ==
    /\ pc = "down" => DOMAIN hold = {}
    /\ \A ip \in DOMAIN hold :
          /\ hold[ip] > now
          /\ ~ClockMayStep => hold[ip] <= now + DECLINE_QUARANTINE_SECS
          /\ ip \notin StaticIps => ip \in DOMAIN declined /\ declined[ip] >= hold[ip]

RepliesFit ==
    reply.type \in {"OFFER", "ACK"} => Fits(reply.mac, reply.yiaddr)

QuarantineInv == HoldsKept /\ RepliesFit /\ QuarantineHonoured

(* The types as facts about the entries.                                   *)
LEMMA EntryTypes ==
    ASSUME TypeOK
    PROVE  /\ now \in Nat /\ lease_time \in Nat
           /\ IsLeaseMap(by_mac, Mac) /\ IsLeaseMap(file, Mac)
           /\ \A m \in DOMAIN by_mac : m \in Mac /\ by_mac[m] \in Lease
           /\ \A m \in DOMAIN file : m \in Mac /\ file[m] \in Lease
           /\ \A m \in DOMAIN promise : m \in Mac /\ promise[m] \in Promise
BY ConfigFacts DEF TypeOK, IsLeaseMap, IsMap

(* What the allocator assigns fits the client.                             *)
LEMMA AssignedFits ==
    ASSUME NEW p, Assigned(p) # NoIp
    PROVE  Fits(p.mac, Assigned(p))
<1>1. CASE IsStatic(p.mac)
  BY <1>1 DEF Assigned, assign_ip, Fits
<1>2. CASE ~IsStatic(p.mac)
  BY <1>2, AssignedIsFree DEF Assigned, Fits, IsFree
<1> QED
  BY <1>1, <1>2

-----------------------------------------------------------------------------
(***************************************************************************)
(* The inductive invariant in two parts, each kept by every step in which  *)
(* nothing fails: what is so of the store, and what is so of one client.   *)
(***************************************************************************)
StoreInv ==
    /\ TypeOK
    /\ OneOwner
    /\ PromisesFit
    /\ AckStored
    /\ ~Unsaved => InSync

(* The lease of client m, if it holds one, is on disk and in memory. *)
Kept(m) ==
    m \in DOMAIN promise /\ Outstanding(m) /\ ~IsStatic(m) =>
        /\ Covers(file, m, promise[m])
        /\ pc # "down" => Covers(by_mac, m, promise[m])

LEMMA LeaseInvParts == LeaseInv <=> StoreInv /\ \A m : Kept(m)
BY DEF LeaseInv, StoreInv, Kept, CoversAll

SoundStep ==
    \/ Start \/ Stop \/ EnterRecv \/ RecvTimeout \/ Signal \/ Handle
    \/ Save \/ Send \/ NothingToSweep \/ Sweep \/ Tick
    \/ UNCHANGED vars

LEMMA StepsAreSound == NoFaults /\ [Next]_vars => SoundStep /\ [Next]_vars
BY DEF Next, LoopStep, Environment, Crash, Exit, NoFaults, SaveFails, StartUnreadable, StepBack,
       SoundStep

LEMMA LeaseInit == Init => LeaseInv
<1> SUFFICES ASSUME Init PROVE LeaseInv
  OBVIOUS
<1>1. DOMAIN promise = {}
  BY DEF Init, NoEntries
<1>2. TypeOK /\ OneOwner
  BY TypeInit, OwnerInit
<1> QED
  BY <1>1, <1>2 DEF Init, LeaseInv, CoversAll, PromisesFit, AckStored, Unsaved, NoReply

(* What the steps that change the store in memory do to it. *)
LEMMA StartLoads ==
    ASSUME TypeOK, Start
    PROVE  /\ DOMAIN by_mac' = {m \in DOMAIN file : file[m].expires_at > now}
           /\ \A m \in DOMAIN by_mac' : by_mac'[m] = file[m]
BY EntryTypes, PurgeLeasesIsMap DEF Start, StartWith

LEMMA SweepPurges ==
    ASSUME TypeOK, Sweep
    PROVE  /\ DOMAIN by_mac' = {m \in DOMAIN by_mac : by_mac[m].expires_at > now}
           /\ \A m \in DOMAIN by_mac' : by_mac'[m] = by_mac[m]
BY EntryTypes, PurgeLeasesIsMap DEF Sweep

LEMMA AckCommits ==
    ASSUME TypeOK, NEW p \in Packets, AckDynamic(p)
    PROVE  /\ DOMAIN by_mac' = {m \in DOMAIN by_mac : by_mac[m].expires_at > now} \cup {p.mac}
           /\ by_mac'[p.mac] = [ip |-> Assigned(p), expires_at |-> now + lease_time]
           /\ \A m \in {x \in DOMAIN by_mac : by_mac[x].expires_at > now} \ {p.mac} :
                 by_mac'[m] = by_mac[m]
           /\ DOMAIN promise'
                = {m \in DOMAIN promise : m # p.mac \/ promise[m].ip = Assigned(p)}
           /\ \A m \in DOMAIN promise' : promise'[m] = promise[m]
<1> DEFINE new == Commit(p.mac, Assigned(p))
<1>1. by_mac' = new /\ Assigned(p) # NoIp
  BY DEF AckDynamic, Grants
<1>2. /\ DOMAIN promise'
           = {m \in DOMAIN promise : m # p.mac \/ promise[m].ip = Assigned(p)}
      /\ \A m \in DOMAIN promise' : promise'[m] = promise[m]
  BY DEF AckDynamic, Restrict
<1>3. p.mac \in Mac /\ Assigned(p) \in Address
  BY <1>1, ServerConstants, AssignedType DEF Packet, Assigned
<1>4. DOMAIN PurgeLeases(by_mac, now) = {m \in DOMAIN by_mac : by_mac[m].expires_at > now}
  BY EntryTypes, PurgeLeasesIsMap
<1>5. /\ DOMAIN new = DOMAIN PurgeLeases(by_mac, now) \cup {p.mac}
      /\ new[p.mac] = [ip |-> Assigned(p), expires_at |-> now + lease_time]
      /\ \A m \in DOMAIN PurgeLeases(by_mac, now) \ {p.mac} : new[m] = by_mac[m]
  BY EntryTypes, <1>3, CommitIsMap
<1> HIDE DEF new
<1> QED
  BY <1>1, <1>2, <1>4, <1>5

LEMMA GivingUpDrops ==
    ASSUME TypeOK, NEW p, Release(p) \/ Decline(p)
    PROVE  /\ DOMAIN by_mac'
                = IF HasLease(p.mac) THEN DOMAIN by_mac \ {p.mac} ELSE DOMAIN by_mac
           /\ \A m \in DOMAIN by_mac' : by_mac'[m] = by_mac[m]
           /\ DOMAIN promise' = DOMAIN promise \ {p.mac}
           /\ \A m \in DOMAIN promise' : promise'[m] = promise[m]
<1>1. by_mac' = Drop(p.mac) /\ promise' = Remove(promise, p.mac)
  BY DEF Release, Decline
<1>2. IsLeaseMap(by_mac, Mac)
  BY EntryTypes
<1> QED
  BY <1>1, <1>2, DropIsMap DEF Remove, Restrict

LEMMA AckPromises ==
    ASSUME Send, reply.type = "ACK"
    PROVE  /\ DOMAIN promise' = DOMAIN promise \cup {reply.mac}
           /\ promise'[reply.mac] = [ip |-> reply.yiaddr, until |-> reply.until]
           /\ \A m \in DOMAIN promise \ {reply.mac} : promise'[m] = promise[m]
BY DEF Send, Put

LEMMA TimeForgets ==
    ASSUME Tick
    PROVE  /\ now' = now + 1
           /\ DOMAIN promise' = {m \in DOMAIN promise : promise[m].until > now + 1}
           /\ \A m \in DOMAIN promise' : promise'[m] = promise[m]
BY DEF Tick, SetClock, Restrict

-----------------------------------------------------------------------------
(* Steps that touch neither the leases, the clock nor the promises.        *)
LEMMA StoreFrame ==
    ASSUME StoreInv, UNCHANGED <<now, file, by_mac, promise>>,
           reply' = reply \/ reply'.type # "ACK",
           ~Unsaved' => ~Unsaved
    PROVE  /\ PromisesFit'
           /\ AckStored'
           /\ ~Unsaved' => InSync'
BY DEF StoreInv, PromisesFit, AckStored, InSync

LEMMA StoreStep == StoreInv /\ SoundStep /\ [Next]_vars => StoreInv'
<1> SUFFICES ASSUME StoreInv, SoundStep, [Next]_vars PROVE StoreInv'
  OBVIOUS
<1> DEFINE Rest == PromisesFit /\ AckStored /\ (~Unsaved => InSync)
<1>typed. TypeOK /\ TypeOK' /\ OneOwner'
  BY TypeStep, OwnerStep DEF StoreInv
<1>types. /\ now \in Nat /\ lease_time \in Nat
          /\ \A m \in DOMAIN by_mac : m \in Mac /\ by_mac[m] \in Lease
          /\ \A m \in DOMAIN file : m \in Mac /\ file[m] \in Lease
          /\ \A m \in DOMAIN promise : m \in Mac /\ promise[m] \in Promise
  BY <1>typed, EntryTypes
<1>ip. Rest
  BY DEF StoreInv
<1> SUFFICES Rest'
  BY <1>typed DEF StoreInv
<1>unchanged. CASE UNCHANGED vars
  BY <1>unchanged, StoreFrame DEF vars, Unsaved
<1>1. CASE Start
  <2>1. /\ pc' = "head" /\ UNCHANGED <<now, file, reply, promise>> /\ pc = "down"
    BY <1>1 DEF Start, StartWith, disk, history
  <2>2. reply = NoReply
    BY <1>typed, <2>1 DEF TypeOK
  <2>3. InSync'
    BY <1>1, <1>typed, <1>types, <2>1, StartLoads DEF InSync, Lease
  <2> QED
    BY <1>ip, <2>1, <2>2, <2>3 DEF PromisesFit, AckStored, NoReply
<1>2. CASE Stop
  BY <1>2, <1>ip DEF Stop, disk, PromisesFit, AckStored, NoReply, Unsaved
<1>3. CASE EnterRecv \/ RecvTimeout \/ Signal \/ NothingToSweep
  BY <1>3, StoreFrame
     DEF EnterRecv, RecvTimeout, Signal, NothingToSweep, disk, memory, history, Unsaved
<1>4. CASE Handle
  <2> PICK p \in Packets : decide(p)
    BY <1>4 DEF Handle
  <2>recv. pc = "recv"
    BY DEF decide, Ignore, Offer, PoolExhausted, RequestIgnored, AckStatic, AckDynamic, Nak,
           Release, Decline, InformIgnored, InformAck, ForUs
  <2>sync. InSync
    BY <1>ip, <2>recv DEF Unsaved
  <2>1. CASE Ignore(p) \/ PoolExhausted(p) \/ RequestIgnored(p) \/ InformIgnored(p)
    BY <2>1, <2>recv, StoreFrame
       DEF Ignore, PoolExhausted, RequestIgnored, InformIgnored, Silent, Respond, AfterSave,
           NoReply, disk, memory, history, Unsaved
  <2>2. CASE Offer(p) \/ Nak(p) \/ InformAck(p)
    BY <2>2, <2>recv, StoreFrame
       DEF Offer, Nak, InformAck, Message, Respond, AfterSave, disk, memory, history, Unsaved
  <2>3. CASE AckStatic(p)
    <3>1. /\ UNCHANGED <<now, file, by_mac, promise>>
          /\ reply' = Ack(p)
          /\ IsStatic(p.mac) /\ Assigned(p) # NoIp
      BY <2>3 DEF AckStatic, Grants, Respond, AfterSave, disk, memory, history
    <3>2. AckStored'
      BY <1>types, <3>1, AssignedFits DEF AckStored, Ack, Message, Fits
    <3> QED
      BY <1>ip, <2>sync, <3>1, <3>2 DEF PromisesFit, InSync
  <2>4. CASE AckDynamic(p)
    <3>1. /\ UNCHANGED now
          /\ reply' = Ack(p) /\ pc' = "save"
          /\ ~IsStatic(p.mac) /\ Assigned(p) # NoIp
      BY <2>4 DEF AckDynamic, Grants, Respond
    <3>2. PromisesFit'
      BY <1>ip, <1>typed, <2>4, <3>1, AckCommits DEF PromisesFit
    <3>3. AckStored'
      <4>1. p.mac \in DOMAIN by_mac'
            /\ by_mac'[p.mac] = [ip |-> Assigned(p), expires_at |-> now + lease_time]
        BY <1>typed, <2>4, AckCommits
      <4> QED
        BY <1>types, <3>1, <4>1, AssignedFits DEF AckStored, Ack, Message
    <3> QED
      BY <3>1, <3>2, <3>3 DEF Unsaved
  <2>5. CASE Release(p) \/ Decline(p)
    <3>1. /\ UNCHANGED <<now, file>>
          /\ reply' = NoReply
          /\ pc' = IF HasLease(p.mac) THEN "save" ELSE "sweep"
      BY <2>5 DEF Release, Decline, Respond, AfterSave, disk
    <3>2. PromisesFit'
      BY <1>ip, <1>typed, <2>5, <3>1, GivingUpDrops DEF PromisesFit
    <3>3. ~Unsaved' => InSync'
      BY <1>typed, <2>5, <2>sync, <3>1, GivingUpDrops DEF InSync, Unsaved
    <3> QED
      BY <3>1, <3>2, <3>3 DEF AckStored, NoReply
  <2> QED
    BY <2>1, <2>2, <2>3, <2>4, <2>5 DEF decide
<1>5. CASE Save
  BY <1>5, <1>ip DEF Save, memory, history, InSync, PromisesFit, AckStored
<1>6. CASE Send
  <2>1. /\ UNCHANGED <<now, file, by_mac>> /\ pc = "send" /\ pc' = "sweep" /\ reply' = NoReply
    BY <1>6 DEF Send, disk, memory
  <2>2. CASE reply.type # "ACK"
    BY <1>6, <2>2, <2>1, StoreFrame DEF Send, Unsaved, NoReply
  <2>3. CASE reply.type = "ACK"
    <3>1. PromisesFit'
      BY <1>6, <1>ip, <2>1, <2>3, AckPromises DEF PromisesFit, AckStored
    <3> QED
      BY <1>ip, <2>1, <3>1 DEF AckStored, NoReply, InSync, Unsaved
  <2> QED
    BY <2>2, <2>3
<1>7. CASE Sweep
  <2>1. /\ UNCHANGED <<now, file, reply, promise>> /\ pc = "sweep"
        /\ pc' = IF DOMAIN by_mac' # DOMAIN by_mac THEN "sweep_save" ELSE "head"
    BY <1>7 DEF Sweep, disk, history
  <2>2. reply = NoReply
    BY <1>typed, <2>1 DEF TypeOK
  <2>3. ~Unsaved' => InSync'
    BY <1>7, <1>ip, <1>typed, <2>1, SweepPurges DEF InSync, Unsaved
  <2> QED
    BY <1>ip, <2>1, <2>2, <2>3 DEF PromisesFit, AckStored, NoReply
<1>8. CASE Tick
  <2>1. UNCHANGED <<file, by_mac, pc, reply>>
    BY <1>8 DEF Tick, SetClock, disk, memory
  <2>2. PromisesFit'
    BY <1>8, <1>ip, <1>types, TimeForgets DEF PromisesFit, Promise
  <2>3. AckStored'
    <3>1. reply.type = "ACK" => reply.until \in Nat
      BY <1>typed DEF TypeOK, Reply, NoReply
    <3> QED
      BY <1>8, <1>ip, <1>types, <2>1, <3>1, TimeForgets DEF AckStored
  <2>4. ~Unsaved' => InSync'
    BY <1>8, <1>ip, <1>types, <2>1, TimeForgets DEF InSync, Unsaved, Lease
  <2> QED
    BY <2>2, <2>3, <2>4
<1> QED
  BY <1>unchanged, <1>1, <1>2, <1>3, <1>4, <1>5, <1>6, <1>7, <1>8 DEF SoundStep

-----------------------------------------------------------------------------
(* A client that is sent an ACK has its lease in memory and on disk. *)
LEMMA AckIsKept ==
    ASSUME StoreInv, Send, reply.type = "ACK", NEW m, m = reply.mac PROVE Kept(m)'
<1>1. /\ UNCHANGED <<now, file, by_mac>> /\ InSync /\ AckStored
      /\ promise'[m] = [ip |-> reply.yiaddr, until |-> reply.until]
  BY AckPromises DEF Send, StoreInv, Unsaved, disk, memory
<1>2. reply.until \in Nat
  BY DEF StoreInv, TypeOK, Reply, NoReply
<1> QED
  BY <1>1, <1>2 DEF Kept, Covers, AckStored, InSync

LEMMA KeptStep == ASSUME StoreInv, SoundStep, NEW m, Kept(m) PROVE Kept(m)'
<1>types. /\ TypeOK /\ now \in Nat /\ lease_time \in Nat
          /\ \A x \in DOMAIN by_mac : by_mac[x] \in Lease
          /\ \A x \in DOMAIN file : file[x] \in Lease
          /\ \A x \in DOMAIN promise : promise[x] \in Promise
  BY EntryTypes DEF StoreInv
<1> USE DEF Kept, Outstanding, Covers, Lease, Promise
<1>1. CASE Start
  <2>1. UNCHANGED <<now, file, promise>> /\ pc = "down" /\ pc' = "head"
    BY <1>1 DEF Start, StartWith, disk, history
  <2> QED
    BY <1>1, <1>types, <2>1, StartLoads
<1>2. CASE UNCHANGED <<now, file, promise>> /\ pc' = "down"
  BY <1>2
<1>3. CASE UNCHANGED <<now, file, by_mac, promise>> /\ (pc' # "down" => pc # "down")
  BY <1>3
<1>4. CASE Handle
  <2> PICK p \in Packets : decide(p)
    BY <1>4 DEF Handle
  <2>recv. pc = "recv" /\ UNCHANGED <<now, file>>
    BY DEF decide, Ignore, Offer, PoolExhausted, RequestIgnored, AckStatic, AckDynamic, Nak,
           Release, Decline, InformIgnored, InformAck, ForUs, disk
  <2>1. CASE AckDynamic(p)
    <3>commit. /\ DOMAIN by_mac' = {x \in DOMAIN by_mac : by_mac[x].expires_at > now} \cup {p.mac}
          /\ by_mac'[p.mac] = [ip |-> Assigned(p), expires_at |-> now + lease_time]
          /\ \A x \in {y \in DOMAIN by_mac : by_mac[y].expires_at > now} \ {p.mac} :
                by_mac'[x] = by_mac[x]
      BY <1>types, <2>1, AckCommits
    <3>stays. /\ DOMAIN promise'
                   = {x \in DOMAIN promise : x # p.mac \/ promise[x].ip = Assigned(p)}
              /\ \A x \in DOMAIN promise' : promise'[x] = promise[x]
      BY <1>types, <2>1, AckCommits
    <3> SUFFICES ASSUME m \in DOMAIN promise', promise'[m].until > now', ~IsStatic(m)
                 PROVE  Covers(file', m, promise'[m]) /\ Covers(by_mac', m, promise'[m])
      OBVIOUS
    <3>same. now' = now /\ file' = file /\ promise'[m] = promise[m]
      BY <2>recv, <3>stays
    <3>1. /\ m \in DOMAIN promise /\ promise[m].until > now
          /\ m # p.mac \/ promise[m].ip = Assigned(p)
      BY <3>stays, <3>same
    <3>2. Covers(file, m, promise[m]) /\ Covers(by_mac, m, promise[m])
      BY <2>recv, <3>1
    <3>3. CASE m = p.mac
      BY <1>types, <3>commit, <3>1, <3>2, <3>3, <3>same DEF StoreInv, PromisesFit
    <3>4. CASE m # p.mac
      BY <1>types, <3>commit, <3>1, <3>2, <3>4, <3>same
    <3> QED
      BY <3>3, <3>4
  <2>2. CASE Release(p) \/ Decline(p)
    BY <1>types, <2>2, <2>recv, GivingUpDrops
  <2>3. CASE ~AckDynamic(p) /\ ~Release(p) /\ ~Decline(p)
    BY <1>3, <2>3, <2>recv
       DEF decide, Ignore, Offer, PoolExhausted, RequestIgnored, AckStatic, Nak, InformIgnored,
           InformAck, memory, history
  <2> QED
    BY <2>1, <2>2, <2>3
<1>5. CASE Save
  BY <1>5 DEF Save, memory, history
<1>6. CASE Send
  <2>1. /\ UNCHANGED <<now, file, by_mac>> /\ pc = "send"
        /\ reply.type # "ACK" => promise' = promise
    BY <1>6 DEF Send, disk, memory
  <2>2. CASE reply.type = "ACK" /\ m # reply.mac
    BY <1>6, <2>1, <2>2, AckPromises
  <2>3. CASE reply.type # "ACK"
    BY <1>3, <2>1, <2>3
  <2>4. CASE reply.type = "ACK" /\ m = reply.mac
    <3> HIDE DEF Kept
    <3> QED
      BY <1>6, <2>4, AckIsKept
  <2> QED
    BY <2>2, <2>3, <2>4
<1>7. CASE Sweep
  <2>1. UNCHANGED <<now, file, promise>> /\ pc = "sweep"
    BY <1>7 DEF Sweep, disk, history
  <2> QED
    BY <1>7, <1>types, <2>1, SweepPurges
<1>8. CASE Tick
  <2>1. UNCHANGED <<file, by_mac, pc>>
    BY <1>8 DEF Tick, SetClock, disk, memory
  <2> QED
    BY <1>8, <1>types, <2>1, TimeForgets
<1>9. CASE Stop
  BY <1>2, <1>9 DEF Stop, disk
<1>10. CASE EnterRecv \/ RecvTimeout \/ Signal \/ NothingToSweep \/ UNCHANGED vars
  BY <1>3, <1>10 DEF EnterRecv, RecvTimeout, Signal, NothingToSweep, disk, memory, history, vars
<1> QED
  BY <1>1, <1>4, <1>5, <1>6, <1>7, <1>8, <1>9, <1>10 DEF SoundStep

LEMMA LeaseStep == NoFaults /\ LeaseInv /\ [Next]_vars => LeaseInv'
<1> SUFFICES ASSUME NoFaults, LeaseInv, [Next]_vars PROVE LeaseInv'
  OBVIOUS
<1>1. SoundStep /\ StoreInv /\ \A m : Kept(m)
  BY StepsAreSound, LeaseInvParts
<1>2. StoreInv' /\ \A m : Kept(m)'
  BY <1>1, StoreStep, KeptStep
<1> QED
  BY <1>2 DEF LeaseInv, StoreInv, Kept, CoversAll

-----------------------------------------------------------------------------
(* The inductive invariant holds throughout.                               *)
LEMMA LeaseInvariant == ASSUME NoFaults PROVE Spec => []LeaseInv
<1>1. LeaseInv /\ [Next]_vars => LeaseInv'
  BY LeaseStep
<1> QED
  BY <1>1, LeaseInit, PTL DEF Spec

(* Every outstanding dynamic lease is in the file, where each address has  *)
(* one owner, and none of them is a static address: no two clients hold    *)
(* the same address at once.                                               *)
LEMMA KeptIsExclusive ==
    ASSUME StoreInv, NEW m1 \in DOMAIN promise, NEW m2 \in DOMAIN promise,
           Kept(m1), Kept(m2), Outstanding(m1), Outstanding(m2),
           promise[m1].ip = promise[m2].ip
    PROVE  m1 = m2
<1>1. Fits(m1, promise[m1].ip) /\ Fits(m2, promise[m2].ip)
  BY DEF StoreInv, PromisesFit
<1>2. CASE IsStatic(m1) /\ IsStatic(m2)
  BY <1>1, <1>2, ConfigFacts DEF Fits, IsStatic
<1>3. CASE ~IsStatic(m1) /\ ~IsStatic(m2)
  BY <1>3 DEF StoreInv, OneOwner, OneMacPerIp, Kept, Covers
<1>4. CASE (IsStatic(m1) /\ ~IsStatic(m2)) \/ (~IsStatic(m1) /\ IsStatic(m2))
  <2>1. \A m : IsStatic(m) => statics[m] \in StaticIps
    BY DEF IsStatic, StaticIps
  <2> QED
    BY <1>1, <1>4, <2>1 DEF Fits, Reserved
<1> QED
  BY <1>2, <1>3, <1>4

LEMMA InvNoDoublePromise == LeaseInv => NoDoublePromise
BY LeaseInvParts, KeptIsExclusive DEF NoDoublePromise

(* A renewing client has its lease in memory; the address is in the pool,  *)
(* reserved for nothing and stored for no one else, so the allocator gives *)
(* it back.                                                                *)
LEMMA InvRenewalHonoured == LeaseInv => RenewalHonoured
<1> SUFFICES ASSUME LeaseInv, pc = "recv",
                    NEW m \in DOMAIN promise, Outstanding(m),
                    IsStatic(m) \/ ~IsQuarantined(declined, promise[m].ip, now)
             PROVE  Known(m) /\ assign_ip(by_mac, declined, m, now) = promise[m].ip
  BY DEF RenewalHonoured
<1>1. Fits(m, promise[m].ip)
  BY DEF LeaseInv, PromisesFit
<1>2. CASE IsStatic(m)
  BY <1>1, <1>2 DEF Fits, Known, assign_ip
<1>3. CASE ~IsStatic(m)
  <2>1. m \in DOMAIN by_mac /\ by_mac[m].ip = promise[m].ip
    BY <1>3 DEF LeaseInv, CoversAll, Covers
  <2>2. ~TakenByOther(by_mac, promise[m].ip, m, now)
    BY <2>1 DEF LeaseInv, OneOwner, OneMacPerIp, TakenByOther
  <2>3. KeepsOwn(by_mac, declined, m, now)
    BY <1>1, <1>3, <2>1, <2>2 DEF Fits, KeepsOwn, IsFree
  <2> QED
    BY <1>3, <2>1, <2>3 DEF Known, assign_ip
<1> QED
  BY <1>2, <1>3

(* No address is held by two clients at once, through crashes, restarts,   *)
(* sweeps and declines.                                                    *)
THEOREM PromisesAreExclusive == ASSUME NoFaults PROVE Spec => []NoDoublePromise
BY LeaseInvariant, InvNoDoublePromise, PTL

(* What a client was promised is on disk for as long as it was promised.   *)
THEOREM PromisesAreDurable == ASSUME NoFaults PROVE Spec => []PromiseDurable
<1>1. LeaseInv => PromiseDurable
  BY DEF LeaseInv, CoversAll, PromiseDurable
<1> QED
  BY <1>1, LeaseInvariant, PTL

(* Between packets, memory and file agree on every lease that counts.      *)
THEOREM RestartIsHarmless == ASSUME NoFaults PROVE Spec => []RestartLosesNothing
<1>1. LeaseInv => RestartLosesNothing
  BY DEF LeaseInv, Unsaved, RestartLosesNothing
<1> QED
  BY <1>1, LeaseInvariant, PTL

(* A client that holds an address can renew it.                            *)
THEOREM RenewalsAreHonoured == ASSUME NoFaults PROVE Spec => []RenewalHonoured
BY LeaseInvariant, InvRenewalHonoured, PTL

-----------------------------------------------------------------------------
(***************************************************************************)
(* The refinement: what is promised are tenancies, as Tenancy has them.    *)
(***************************************************************************)
(* A static client's leases are not stored: that an ACK on its way does    *)
(* not cut its lease short has to be known of the ACK itself.              *)
AckExtends ==
    reply.type = "ACK" /\ reply.mac \in DOMAIN promise /\ IsStatic(reply.mac)
        => promise[reply.mac].until <= reply.until

TenancyInv == LeaseInv /\ AckExtends

LEMMA AckExtendsStep == NoFaults /\ TenancyInv /\ [Next]_vars => AckExtends'
<1> SUFFICES ASSUME NoFaults, TenancyInv, [Next]_vars PROVE AckExtends'
  OBVIOUS
<1>1. CASE reply'.type # "ACK"
  BY <1>1 DEF AckExtends
<1>2. CASE UNCHANGED <<reply, promise>>
  BY <1>2 DEF TenancyInv, AckExtends
<1>3. CASE Tick
  <2>1. /\ reply' = reply /\ DOMAIN promise' \subseteq DOMAIN promise
        /\ \A m \in DOMAIN promise' : promise'[m] = promise[m]
    BY <1>3 DEF Tick, SetClock, Restrict
  <2> QED
    BY <2>1 DEF TenancyInv, AckExtends
<1>4. CASE Handle
  <2> PICK p \in Packets : decide(p)
    BY <1>4 DEF Handle
  <2>1. CASE AckStatic(p)
    <3>1. /\ UNCHANGED <<now, promise>> /\ reply' = Ack(p)
      BY <2>1 DEF AckStatic, Respond, history
    <3> QED
      BY <3>1 DEF TenancyInv, LeaseInv, PromisesFit, AckExtends, Ack, Message
  <2>2. CASE AckDynamic(p)
    BY <2>2 DEF AckDynamic, Respond, Ack, Message, AckExtends
  <2>3. CASE ~AckStatic(p) /\ ~AckDynamic(p)
    <3>1. reply'.type # "ACK"
      BY <2>3 DEF decide, Ignore, Offer, PoolExhausted, RequestIgnored, Nak, Release, Decline,
                  InformIgnored, InformAck, Silent, Respond, Message, NoReply
    <3> QED
      BY <3>1, <1>1
  <2> QED
    BY <2>1, <2>2, <2>3
<1>5. CASE Stop \/ Send
  <2>1. reply' = NoReply
    BY <1>5 DEF Stop, Send
  <2> QED
    BY <2>1, <1>1 DEF NoReply
<1>6. CASE Start \/ EnterRecv \/ RecvTimeout \/ Signal \/ Save \/ NothingToSweep \/ Sweep
  <2>1. UNCHANGED <<reply, promise>>
    BY <1>6 DEF Start, StartWith, EnterRecv, RecvTimeout, Signal, Save, NothingToSweep, Sweep,
                history
  <2> QED
    BY <2>1, <1>2
<1>7. CASE UNCHANGED vars
  BY <1>7, <1>2 DEF vars
<1> QED
  BY <1>3, <1>4, <1>5, <1>6, <1>7
     DEF Next, LoopStep, Environment, Crash, Exit, NoFaults, SaveFails, StartUnreadable, StepBack

LEMMA TenancyInvariant == ASSUME NoFaults PROVE Spec => []TenancyInv
<1>1. Init => TenancyInv
  BY LeaseInit DEF Init, TenancyInv, AckExtends, NoReply
<1>2. TenancyInv /\ [Next]_vars => TenancyInv'
  BY LeaseStep, AckExtendsStep DEF TenancyInv
<1> QED
  BY <1>1, <1>2, PTL DEF Spec

(* A step that takes at most one client's promise away. *)
LEMMA TakenAway ==
    ASSUME NEW m \in Mac, UNCHANGED now,
           DOMAIN promise' = DOMAIN promise \/ DOMAIN promise' = DOMAIN promise \ {m},
           \A x \in DOMAIN promise' : promise'[x] = promise[x]
    PROVE  [Promised!Next]_Promised!vars
<1> DEFINE before == {x \in DOMAIN promise : promise[x].until > now}
           after  == {x \in DOMAIN promise' : promise'[x].until > now'}
<1>1. /\ Live(promise) = [x \in before |-> promise[x]]
      /\ Live(promise)' = [x \in after |-> promise'[x]]
  BY DEF Live, Restrict
<1>2. after = before \/ (m \in before /\ after = before \ {m})
  OBVIOUS
<1>3. \A x \in after : promise'[x] = promise[x] /\ x \in before
  OBVIOUS
<1> HIDE DEF before, after
<1>4. CASE after = before
  <2>1. Live(promise)' = Live(promise)
    BY <1>1, <1>3, <1>4
  <2> QED
    BY <2>1 DEF Promised!vars
<1>5. CASE m \in before /\ after = before \ {m}
  <2>1. Live(promise)' = [x \in before \ {m} |-> promise[x]]
    BY <1>1, <1>3, <1>5
  <2>2. Live(promise)' = [x \in DOMAIN Live(promise) \ {m} |-> Live(promise)[x]]
    BY <1>1, <2>1
  <2>3. m \in DOMAIN Live(promise)
    BY <1>1, <1>5
  <2>4. Promised!GiveUp(m)
    BY <2>2, <2>3 DEF Promised!GiveUp, Promised!Remove, Promised!Restrict
  <2> QED
    BY <2>4 DEF Promised!Next
<1> QED
  BY <1>2, <1>4, <1>5

(* An ACK on its way promises no other address than the client holds, and  *)
(* for no shorter time.                                                    *)
LEMMA AckKeeps ==
    ASSUME TenancyInv, pc = "send", reply.type = "ACK", Outstanding(reply.mac)
    PROVE  promise[reply.mac].ip = reply.yiaddr /\ promise[reply.mac].until <= reply.until
<1> DEFINE m == reply.mac
<1>1. m \in DOMAIN promise /\ Fits(m, reply.yiaddr)
  BY DEF TenancyInv, LeaseInv, AckStored, Outstanding
<1>2. CASE IsStatic(m)
  BY <1>1, <1>2 DEF TenancyInv, LeaseInv, PromisesFit, Fits, AckExtends
<1>3. CASE ~IsStatic(m)
  <2>1. Covers(by_mac, m, promise[m])
    BY <1>1, <1>3 DEF TenancyInv, LeaseInv, CoversAll
  <2> QED
    BY <1>3, <2>1 DEF TenancyInv, LeaseInv, AckStored, Covers
<1> QED
  BY <1>2, <1>3

(* An ACK extends the client's lease or lets it an address no other client *)
(* holds.                                                                  *)
LEMMA AckLets ==
    ASSUME TenancyInv, NoDoublePromise', Send, reply.type = "ACK"
    PROVE  [Promised!Next]_Promised!vars
<1> DEFINE m      == reply.mac
           new    == [ip |-> reply.yiaddr, until |-> reply.until]
           before == {x \in DOMAIN promise : promise[x].until > now}
           after  == {x \in DOMAIN promise' : promise'[x].until > now'}
<1>types. /\ now \in Nat /\ lease_time \in Nat
          /\ \A x \in DOMAIN promise : x \in Mac /\ promise[x] \in Promise
  BY EntryTypes DEF TenancyInv, LeaseInv
<1>reply. m \in Mac /\ reply.until \in Nat
  BY DEF TenancyInv, LeaseInv, TypeOK, Reply, NoReply
<1>1. /\ UNCHANGED now
      /\ DOMAIN promise' = DOMAIN promise \cup {m}
      /\ promise'[m] = new
      /\ \A x \in DOMAIN promise \ {m} : promise'[x] = promise[x]
  BY DEF Send, Put
<1>2. /\ Live(promise) = [x \in before |-> promise[x]]
      /\ Live(promise)' = [x \in after |-> promise'[x]]
  BY DEF Live, Restrict
<1>3. Fits(m, reply.yiaddr) /\ reply.until <= now + lease_time
  BY DEF TenancyInv, LeaseInv, AckStored
<1>4. reply.yiaddr \in Pool \cup StaticIps
  BY <1>3 DEF Fits, IsStatic, StaticIps
<1>5. m \in before => promise[m].ip = reply.yiaddr /\ promise[m].until <= reply.until
  BY AckKeeps DEF Outstanding, Send
<1>6. CASE reply.until <= now
  <2>1. m \notin before
    BY <1>5, <1>6, <1>types, <1>reply DEF Promise
  <2>2. after = before /\ \A x \in before : promise'[x] = promise[x]
    BY <1>1, <1>6, <1>types, <1>reply, <2>1
  <2>3. Live(promise)' = Live(promise)
    <3> HIDE DEF before, after
    <3> QED
      BY <1>2, <2>2
  <2> QED
    BY <1>1, <2>3 DEF Promised!vars
<1>7. CASE reply.until > now
  <2>1. /\ after = before \cup {m} /\ promise'[m] = new
        /\ \A x \in before \ {m} : promise'[x] = promise[x]
    BY <1>1, <1>7, <1>types
  <2>2. reply.until \in now .. now + lease_time
    BY <1>3, <1>7, <1>types, <1>reply
  <2>3. CASE m \in before
    <3>1. new = [promise[m] EXCEPT !.until = reply.until]
      BY <1>5, <1>types, <2>3 DEF Promise
    <3>2. Live(promise)' = [Live(promise) EXCEPT ![m].until = reply.until]
      <4> HIDE DEF before, after, new
      <4>1. Live(promise)' = [x \in before |-> IF x = m THEN new ELSE promise[x]]
        BY <1>2, <2>1, <2>3
      <4> QED
        BY <1>2, <2>3, <3>1, <4>1
    <3>3. m \in DOMAIN Live(promise) /\ Live(promise)[m] = promise[m]
      <4> HIDE DEF before
      <4> QED
        BY <1>2, <2>3
    <3>4. m \in DOMAIN Live(promise)' /\ Live(promise)'[m] = new
      <4> HIDE DEF before, after, new
      <4> QED
        BY <1>2, <2>1, <2>3
    <3>5. CASE reply.until = promise[m].until
      <4>1. new = promise[m]
        BY <1>5, <1>types, <2>3, <3>5 DEF Promise
      <4>2. Live(promise)' = Live(promise)
        <5> HIDE DEF before, after, new
        <5> QED
          BY <1>2, <2>1, <2>3, <4>1
      <4> QED
        BY <1>1, <4>2 DEF Promised!vars
    <3>6. CASE reply.until # promise[m].until
      <4>1. reply.until \in promise[m].until + 1 .. now + lease_time
        BY <1>5, <1>types, <1>reply, <2>2, <2>3, <3>6 DEF Promise
      <4>2. Promised!Extend(m)
        BY <1>1, <3>2, <3>3, <3>4, <4>1 DEF Promised!Extend
      <4> QED
        BY <4>2, <1>reply DEF Promised!Next
    <3> QED
      BY <3>5, <3>6
  <2>4. CASE m \notin before
    <3>1. \A x \in before : promise[x].ip # reply.yiaddr
      <4> SUFFICES ASSUME NEW x \in before, promise[x].ip = reply.yiaddr PROVE FALSE
        OBVIOUS
      <4>1. x \in after /\ m \in after /\ x # m
        <5> HIDE DEF before, after, new
        <5> QED
          BY <2>1, <2>4
      <4>2. /\ x \in DOMAIN promise' /\ promise'[x].until > now'
            /\ m \in DOMAIN promise' /\ promise'[m].until > now'
        BY <4>1
      <4>3. x \in DOMAIN promise' /\ m \in DOMAIN promise' /\ promise'[x].ip = promise'[m].ip
        BY <1>1, <2>1, <2>4
      <4> QED
        BY <4>1, <4>2, <4>3 DEF NoDoublePromise, Outstanding
    <3>2. Live(promise)' = [x \in before \cup {m} |-> IF x = m THEN new ELSE promise[x]]
      <4> HIDE DEF before, after, new
      <4> QED
        BY <1>2, <2>1, <2>4
    <3>3. DOMAIN Live(promise) = before /\ \A x \in before : Live(promise)[x] = promise[x]
      <4> HIDE DEF before
      <4> QED
        BY <1>2
    <3>4. Live(promise)' = [x \in DOMAIN Live(promise) \cup {m} |->
                               IF x = m THEN new ELSE Live(promise)[x]]
      <4> HIDE DEF before, new
      <4> QED
        BY <2>4, <3>2, <3>3
    <3>5. Promised!Vacant(reply.yiaddr)
      <4> HIDE DEF before
      <4> QED
        BY <3>1, <3>3 DEF Promised!Vacant
    <3>6. m \notin DOMAIN Live(promise)
      <4> HIDE DEF before
      <4> QED
        BY <2>4, <3>3
    <3>7. m \in DOMAIN Live(promise)' /\ Live(promise)'[m] = new
      <4> HIDE DEF before, after, new
      <4> QED
        BY <1>2, <2>1
    <3>8. reply.until \in now + 1 .. now + lease_time
      BY <1>7, <2>2, <1>types, <1>reply
    <3>9. Live(promise)' = Promised!Put(Live(promise), m, Live(promise)'[m])
      <4> HIDE DEF before, after, new
      <4> QED
        BY <3>4, <3>7 DEF Promised!Put
    <3>10. Promised!Let(m)
      BY <1>1, <1>4, <3>5, <3>6, <3>7, <3>8, <3>9 DEF Promised!Let
    <3> QED
      BY <3>10, <1>reply DEF Promised!Next
  <2> QED
    BY <2>3, <2>4
<1> QED
  BY <1>6, <1>7, <1>types, <1>reply

(* Time ends tenancies and does nothing else to them. *)
LEMMA TimePassesTenancy == ASSUME TenancyInv, Tick PROVE [Promised!Next]_Promised!vars
<1> DEFINE before == {x \in DOMAIN promise : promise[x].until > now}
           after  == {x \in DOMAIN promise' : promise'[x].until > now'}
           left   == {x \in before : promise[x].until > now'}
<1>types. now \in Nat /\ \A x \in DOMAIN promise : promise[x] \in Promise
  BY EntryTypes DEF TenancyInv, LeaseInv
<1>1. /\ now' = now + 1
      /\ DOMAIN promise' = {x \in DOMAIN promise : promise[x].until > now + 1}
      /\ \A x \in DOMAIN promise' : promise'[x] = promise[x]
  BY DEF Tick, SetClock, Restrict
<1>2. /\ Live(promise) = [x \in before |-> promise[x]]
      /\ Live(promise)' = [x \in after |-> promise'[x]]
  BY DEF Live, Restrict
<1>3. after = left /\ \A x \in left : x \in before /\ promise'[x] = promise[x]
  BY <1>1, <1>types DEF Promise
<1>4. {x \in DOMAIN Live(promise) : Live(promise)[x].until > now'} = left
  BY <1>2
<1> HIDE DEF before, after, left
<1>5. Live(promise)' = [x \in left |-> Live(promise)[x]]
  BY <1>2, <1>3
<1>6. now' \in Nat /\ now' > now
  BY <1>1, <1>types
<1>7. Promised!Pass
  BY <1>4, <1>5, <1>6 DEF Promised!Pass, Promised!Restrict
<1> QED
  BY <1>7 DEF Promised!Next

LEMMA TenancyStep ==
    ASSUME NoFaults, TenancyInv, NoDoublePromise', [Next]_vars
    PROVE  [Promised!Next]_Promised!vars
<1>1. CASE UNCHANGED <<now, promise>>
  <2>1. Live(promise)' = Live(promise)
    BY <1>1 DEF Live, Restrict
  <2> QED
    BY <1>1, <2>1 DEF Promised!vars
<1>2. CASE Handle
  <2> PICK p \in Packets : decide(p)
    BY <1>2 DEF Handle
  <2>1. p.mac \in Mac
    BY ServerConstants DEF Packet
  <2>2. CASE AckDynamic(p)
    <3>1. /\ UNCHANGED now
          /\ DOMAIN promise'
               = {x \in DOMAIN promise : x # p.mac \/ promise[x].ip = Assigned(p)}
          /\ \A x \in DOMAIN promise' : promise'[x] = promise[x]
      BY <2>2 DEF AckDynamic, Restrict
    <3> QED
      BY <2>1, <3>1, TakenAway
  <2>3. CASE Release(p) \/ Decline(p)
    <3>1. /\ UNCHANGED now
          /\ DOMAIN promise' = DOMAIN promise \ {p.mac}
          /\ \A x \in DOMAIN promise' : promise'[x] = promise[x]
      BY <2>3 DEF Release, Decline, Remove, Restrict
    <3> QED
      BY <2>1, <3>1, TakenAway
  <2>4. CASE ~AckDynamic(p) /\ ~Release(p) /\ ~Decline(p)
    <3>1. UNCHANGED <<now, promise>>
      BY <2>4 DEF decide, Ignore, Offer, PoolExhausted, RequestIgnored, AckStatic, Nak,
                  InformIgnored, InformAck, history
    <3> QED
      BY <3>1, <1>1
  <2> QED
    BY <2>2, <2>3, <2>4
<1>3. CASE Send
  <2>1. CASE reply.type = "ACK"
    BY <1>3, <2>1, AckLets
  <2>2. CASE reply.type # "ACK"
    BY <1>1, <1>3, <2>2 DEF Send
  <2> QED
    BY <2>1, <2>2
<1>4. CASE Tick
  BY <1>4, TimePassesTenancy
<1>5. CASE Start \/ Stop \/ EnterRecv \/ RecvTimeout \/ Signal \/ Save \/ NothingToSweep \/ Sweep
  <2>1. UNCHANGED <<now, promise>>
    BY <1>5 DEF Start, StartWith, Stop, EnterRecv, RecvTimeout, Signal, Save, NothingToSweep,
                Sweep, history
  <2> QED
    BY <2>1, <1>1
<1>6. CASE UNCHANGED vars
  BY <1>1, <1>6 DEF vars
<1> QED
  BY <1>2, <1>3, <1>4, <1>5, <1>6
     DEF Next, LoopStep, Environment, Crash, Exit, NoFaults, SaveFails, StartUnreadable, StepBack

(* What the server promises are tenancies: an address is let to one client *)
(* at a time and never for less than it had, through crashes and restarts. *)
THEOREM PromisesAreTenancies == ASSUME NoFaults PROVE Spec => ImplementsTenancy
<1>1. Init => Promised!Init
  <2> SUFFICES ASSUME Init PROVE Promised!Init
    OBVIOUS
  <2>1. DOMAIN promise = {}
    BY DEF Init, NoEntries
  <2>2. Live(promise) = [x \in {} |-> 0]
    BY <2>1 DEF Live, Restrict
  <2> QED
    BY <2>2 DEF Init, Promised!Init, Promised!NoEntries
<1>2. TenancyInv /\ NoDoublePromise' /\ [Next]_vars => [Promised!Next]_Promised!vars
  BY TenancyStep
<1> QED
  BY <1>1, <1>2, TenancyInvariant, PromisesAreExclusive, PTL
     DEF Spec, ImplementsTenancy, Promised!Spec

-----------------------------------------------------------------------------
(***************************************************************************)
(* The quarantine.  It needs none of the above if every DECLINE names its  *)
(* address, as RFC 2131 asks: then it is honoured whatever fails.          *)
(***************************************************************************)
LEMMA HoldTypes ==
    ASSUME TypeOK
    PROVE  /\ IsQuarantineMap(declined)
           /\ \A ip \in DOMAIN hold : hold[ip] \in Nat
           /\ \A ip \in DOMAIN declined : declined[ip] \in Nat
           /\ DECLINE_QUARANTINE_SECS \in Nat
BY ServerConstants DEF TypeOK, IsQuarantineMap, IsMap

(* A purge removes no quarantine that is still running.                    *)
LEMMA PurgeDeclinedKeeps ==
    PurgeDeclined(declined, now) = [ip \in {x \in DOMAIN declined : declined[x] > now} |-> declined[ip]]
BY DEF PurgeDeclined, Restrict

(* What decide() hands to a dynamic client is under no hold.               *)
LEMMA AssignedNotHeld ==
    ASSUME TypeOK, HoldsKept, pc = "recv", NEW p, ~IsStatic(p.mac), Assigned(p) # NoIp
    PROVE  ~(Assigned(p) \in DOMAIN hold /\ hold[Assigned(p)] > now)
<1>1. ~Reserved(Assigned(p)) /\ ~IsQuarantined(declined, Assigned(p), now)
  BY AssignedIsFree DEF Assigned, IsFree
<1>2. Assigned(p) \notin StaticIps
  BY <1>1 DEF Reserved
<1>3. now \in Nat
  BY DEF TypeOK
<1> QED
  BY <1>1, <1>2, <1>3, HoldTypes DEF IsQuarantined, HoldsKept

(* RFC 2131, table 5: a DHCPDECLINE carries the address it is about.       *)
DeclinesNamed == \A p \in Packets : p.type = "DECLINE" => p.requested_ip # NoIp

(* What the quarantine rests on: the client names the address or, if it    *)
(* means the one it holds, that is the one the server looks up.            *)
Understood == DeclinesNamed \/ (NoFaults /\ LeaseInv)

LEMMA ReportedIsDeclined ==
    ASSUME Understood, pc = "recv", NEW p \in Packets, p.type = "DECLINE",
           NEW ip \in Reported(p), ip \notin StaticIps
    PROVE  DeclinedIp(p) = ip /\ ip # UNSPECIFIED
<1>1. CASE p.requested_ip # NoIp
  BY <1>1 DEF Reported, DeclinedIp
<1>2. CASE p.requested_ip = NoIp
  <2>0. LeaseInv
    BY <1>2 DEF Understood, DeclinesNamed
  <2>1. p.mac \in DOMAIN promise /\ promise[p.mac].until > now /\ promise[p.mac].ip = ip
    BY <1>2 DEF Reported
  <2>2. Fits(p.mac, ip) /\ Outstanding(p.mac)
    BY <2>0, <2>1 DEF LeaseInv, PromisesFit, Outstanding
  <2>3. ~IsStatic(p.mac)
    BY <2>2 DEF Fits, IsStatic, StaticIps
  <2>4. p.mac \in DOMAIN by_mac /\ by_mac[p.mac].ip = ip
    BY <2>0, <2>1, <2>2, <2>3 DEF LeaseInv, CoversAll, Covers
  <2>5. ip # UNSPECIFIED
    BY <2>2, <2>3, ConfigFacts DEF Fits, Pool, UNSPECIFIED, Address
  <2> QED
    BY <1>2, <2>4, <2>5 DEF DeclinedIp
<1> QED
  BY <1>1, <1>2

LEMMA QuarantineInit == Init => QuarantineInv
BY DEF Init, QuarantineInv, HoldsKept, RepliesFit, QuarantineHonoured, NoEntries, NoReply

LEMMA QuarantineStep ==
    Understood /\ TypeOK /\ TypeOK' /\ QuarantineInv /\ [Next]_vars => QuarantineInv'
<1> SUFFICES ASSUME Understood, TypeOK, TypeOK', QuarantineInv, [Next]_vars PROVE QuarantineInv'
  OBVIOUS
<1> USE DEF QuarantineInv
<1>types. /\ now \in Nat
          /\ \A ip \in DOMAIN hold : hold[ip] \in Nat
          /\ \A ip \in DOMAIN declined : declined[ip] \in Nat
          /\ DECLINE_QUARANTINE_SECS \in Nat \ {0}
  BY HoldTypes, ServerConstants DEF TypeOK
<1>1. CASE UNCHANGED <<now, declined, hold, reply>> /\ (pc' = "down" => pc = "down")
  BY <1>1 DEF HoldsKept, RepliesFit, QuarantineHonoured
<1>2. CASE Start \/ StartUnreadable
  <2>1. pc = "down" /\ pc' = "head" /\ UNCHANGED <<now, reply, hold>>
    BY <1>2 DEF Start, StartUnreadable, StartWith, history
  <2> QED
    BY <2>1 DEF HoldsKept, RepliesFit, QuarantineHonoured
<1>3. CASE Stop
  BY <1>3 DEF Stop, HoldsKept, RepliesFit, QuarantineHonoured, NoEntries, NoReply
<1>4. CASE Handle
  <2> PICK p \in Packets : decide(p)
    BY <1>4 DEF Handle
  <2>recv. pc = "recv"
    BY DEF decide, Ignore, Offer, PoolExhausted, RequestIgnored, AckStatic, AckDynamic, Nak,
           Release, Decline, InformIgnored, InformAck, ForUs
  <2>1. CASE \/ Ignore(p) \/ PoolExhausted(p) \/ RequestIgnored(p) \/ Nak(p) \/ Release(p)
             \/ InformIgnored(p) \/ InformAck(p)
    <3>1. UNCHANGED <<now, declined, hold>> /\ pc' # "down" /\ reply'.type \notin {"OFFER", "ACK"}
      BY <2>1 DEF Ignore, PoolExhausted, RequestIgnored, Nak, Release, InformIgnored, InformAck,
                  Silent, Message, Respond, AfterSave, NoReply, memory, history
    <3> QED
      BY <2>recv, <3>1 DEF HoldsKept, RepliesFit, QuarantineHonoured
  <2>2. CASE Offer(p) \/ AckStatic(p) \/ AckDynamic(p)
    <3>1. /\ UNCHANGED <<now, hold>> /\ pc' # "down"
          /\ Assigned(p) # NoIp /\ reply'.mac = p.mac /\ reply'.yiaddr = Assigned(p)
          /\ declined' \in {declined, PurgeDeclined(declined, now)}
      BY <2>2 DEF Offer, AckStatic, AckDynamic, Grants, Ack, Message, Respond, AfterSave,
                  memory, history
    <3>2. HoldsKept'
      BY <1>types, <2>recv, <3>1, PurgeDeclinedKeeps DEF HoldsKept
    <3>3. RepliesFit'
      BY <3>1, AssignedFits DEF RepliesFit
    <3>4. QuarantineHonoured'
      BY <2>recv, <3>1, AssignedNotHeld DEF QuarantineHonoured
    <3> QED
      BY <3>2, <3>3, <3>4
  <2>3. CASE Decline(p)
    <3>1. /\ now' = now /\ pc' # "down" /\ reply' = NoReply
          /\ declined' = IF DeclinedIp(p) = UNSPECIFIED THEN declined
                         ELSE Put(declined, DeclinedIp(p), now + DECLINE_QUARANTINE_SECS)
          /\ hold' = [ip \in DOMAIN hold \cup Reported(p) |->
                        IF ip \in Reported(p) THEN now + DECLINE_QUARANTINE_SECS ELSE hold[ip]]
      BY <2>3 DEF Decline, Quarantine, Respond, AfterSave
    <3>2. ASSUME NEW ip \in DOMAIN hold'
          PROVE  /\ hold'[ip] > now
                 /\ ~ClockMayStep => hold'[ip] <= now + DECLINE_QUARANTINE_SECS
                 /\ ip \notin StaticIps => ip \in DOMAIN declined' /\ declined'[ip] >= hold'[ip]
      <4>1. CASE ip \in Reported(p)
        <5>1. hold'[ip] = now + DECLINE_QUARANTINE_SECS
          BY <3>1, <4>1
        <5>2. ip \notin StaticIps =>
                 ip \in DOMAIN declined' /\ declined'[ip] = now + DECLINE_QUARANTINE_SECS
          BY <2>recv, <2>3, <3>1, <4>1, ReportedIsDeclined DEF Put, Decline, ForUs
        <5> QED
          BY <1>types, <5>1, <5>2
      <4>2. CASE ip \notin Reported(p)
        <5>1. ip \in DOMAIN hold /\ hold'[ip] = hold[ip]
          BY <3>1, <4>2
        <5>2. ASSUME ClockMayStep, ip # UNSPECIFIED PROVE DeclinedIp(p) # ip
          <6>1. p.requested_ip # NoIp
            BY <2>3, <5>2 DEF Understood, NoFaults, DeclinesNamed, Decline, ForUs
          <6> QED
            BY <4>2, <5>2, <6>1 DEF DeclinedIp, Reported
        <5>3. ip \in DOMAIN declined =>
                 /\ ip \in DOMAIN declined'
                 /\ \/ declined'[ip] = declined[ip]
                    \/ declined'[ip] = now + DECLINE_QUARANTINE_SECS /\ ~ClockMayStep
          BY <3>1, <5>2 DEF Put
        <5> QED
          BY <1>types, <5>1, <5>3 DEF HoldsKept
      <4> QED
        BY <4>1, <4>2
    <3>3. HoldsKept'
      BY <3>1, <3>2 DEF HoldsKept
    <3> QED
      BY <3>1, <3>3 DEF RepliesFit, QuarantineHonoured, NoReply
  <2> QED
    BY <2>1, <2>2, <2>3 DEF decide
<1>5. CASE Send
  <2>1. UNCHANGED <<now, declined, hold>> /\ pc' # "down" /\ pc # "down" /\ reply' = NoReply
    BY <1>5 DEF Send, memory
  <2> QED
    BY <2>1 DEF HoldsKept, RepliesFit, QuarantineHonoured, NoReply
<1>6. CASE Sweep
  <2>1. /\ UNCHANGED <<now, reply, hold>> /\ pc' # "down"
        /\ declined' = PurgeDeclined(declined, now)
    BY <1>6 DEF Sweep, history
  <2> QED
    BY <1>types, <2>1, PurgeDeclinedKeeps DEF HoldsKept, RepliesFit, QuarantineHonoured
<1>7. CASE Tick \/ StepBack
  <2>1. /\ UNCHANGED <<declined, pc, reply>>
        /\ hold' = [ip \in {x \in DOMAIN hold : hold[x] > now'} |-> hold[ip]]
        /\ ~ClockMayStep => now' = now + 1
    BY <1>7 DEF Tick, StepBack, SetClock, Restrict, memory
  <2>0. now' \in Nat
    BY DEF TypeOK
  <2>2. HoldsKept'
    BY <1>types, <2>0, <2>1 DEF HoldsKept
  <2>3. QuarantineHonoured'
    BY <1>types, <2>0, <2>1 DEF QuarantineHonoured, HoldsKept
  <2> QED
    BY <2>1, <2>2, <2>3 DEF RepliesFit
<1>8. CASE EnterRecv \/ RecvTimeout \/ Signal \/ Save \/ SaveFails \/ NothingToSweep \/ UNCHANGED vars
  <2>1. UNCHANGED <<now, declined, hold, reply>> /\ (pc' = "down" => pc = "down")
    BY <1>8 DEF EnterRecv, RecvTimeout, Signal, Save, SaveFails, AfterSaving, AfterSave, NothingToSweep,
                memory, history, vars
  <2> QED
    BY <1>1, <2>1
<1> QED
  BY <1>2, <1>3, <1>4, <1>5, <1>6, <1>7, <1>8
     DEF Next, LoopStep, Environment, Crash, Exit

(* A declined address is offered or leased to no dynamic client before its *)
(* quarantine is over or the process ends: whatever fails, if clients name *)
(* what they decline, and without failures even if they do not.            *)
THEOREM QuarantineIsHonoured ==
    ASSUME NoFaults \/ DeclinesNamed PROVE Spec => []QuarantineHonoured
<1>1. QuarantineInv => QuarantineHonoured
  BY DEF QuarantineInv
<1>2. CASE DeclinesNamed
  <2>1. TypeOK /\ TypeOK' /\ QuarantineInv /\ [Next]_vars => QuarantineInv'
    BY <1>2, QuarantineStep DEF Understood
  <2> QED
    BY <1>1, <2>1, QuarantineInit, TypeCorrect, PTL DEF Spec
<1>3. CASE NoFaults
  <2>1. LeaseInv /\ TypeOK /\ TypeOK' /\ QuarantineInv /\ [Next]_vars => QuarantineInv'
    BY <1>3, QuarantineStep DEF Understood
  <2>2. Spec => []LeaseInv
    BY <1>3, LeaseInvariant
  <2> QED
    BY <1>1, <2>1, <2>2, QuarantineInit, TypeCorrect, PTL DEF Spec
<1> QED
  BY <1>2, <1>3

=============================================================================
