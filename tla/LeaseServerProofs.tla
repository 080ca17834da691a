-------------------------- MODULE LeaseServerProofs --------------------------
(***************************************************************************)
(* Theorems about LeaseServer for every configuration, every set of        *)
(* packets, every interval and every bound on the clock.                   *)
(***************************************************************************)
EXTENDS LeaseServer, FiniteSetTheorems, WellFoundedInduction, TLAPS

(***************************************************************************)
(* Facts about the configuration, the store's operators and the allocation *)
(* policy.                                                                 *)
(***************************************************************************)

(* What a usable configuration gives, with the fields by their names.      *)
LEMMA ConfigFacts ==
    /\ {server_ip, network, broadcast, pool_start, pool_end} \subseteq Address
    /\ network < pool_start /\ pool_start <= pool_end /\ pool_end < broadcast
    /\ network < server_ip /\ server_ip < broadcast
    /\ server_ip \notin Pool
    /\ lease_time \in Nat \ {0}
    /\ DOMAIN statics \subseteq Mac
    /\ \A mac \in DOMAIN statics : statics[mac] \in Address /\ network < statics[mac]
    /\ \A m1, m2 \in DOMAIN statics : statics[m1] = statics[m2] => m1 = m2
BY ConfigAccepted DEF Usable, Config, Pool

(* The empty store is a map whatever its keys and values.                  *)
LEMMA NoEntriesIsMap == \A Key, Value : IsMap(NoEntries, Key, Value)
BY DEF IsMap, NoEntries

(* Inserting an entry keeps a map a map and changes no other entry.        *)
LEMMA PutIsMap ==
    ASSUME NEW Key, NEW Value, NEW f, IsMap(f, Key, Value),
           NEW k \in Key, NEW v \in Value
    PROVE  /\ IsMap(Put(f, k, v), Key, Value)
           /\ DOMAIN Put(f, k, v) = DOMAIN f \cup {k}
           /\ Put(f, k, v)[k] = v
           /\ \A j \in DOMAIN f \ {k} : Put(f, k, v)[j] = f[j]
BY DEF IsMap, Put

(* Keeping only some entries keeps a map a map and changes none of them.   *)
LEMMA RestrictIsMap ==
    ASSUME NEW Key, NEW Value, NEW f, IsMap(f, Key, Value),
           NEW S, S \subseteq DOMAIN f
    PROVE  /\ IsMap(Restrict(f, S), Key, Value)
           /\ DOMAIN Restrict(f, S) = S
           /\ \A k \in S : Restrict(f, S)[k] = f[k]
BY DEF IsMap, Restrict

(* purge_expired removes the leases that have expired and touches no other.*)
LEMMA PurgeLeasesIsMap ==
    ASSUME NEW leases, IsLeaseMap(leases, Mac), NEW t \in Nat
    PROVE  /\ IsLeaseMap(PurgeLeases(leases, t), Mac)
           /\ DOMAIN PurgeLeases(leases, t)
                = {mac \in DOMAIN leases : leases[mac].expires_at > t}
           /\ \A mac \in DOMAIN PurgeLeases(leases, t) :
                 PurgeLeases(leases, t)[mac] = leases[mac]
BY RestrictIsMap DEF IsLeaseMap, PurgeLeases

(* A non-empty set of numbers has a least element, so that the loop over   *)
(* start..=end has a first free address whenever there is one.             *)
LEMMA LeastElement ==
    ASSUME NEW S, S \subseteq Nat, S # {}
    PROVE  \E x \in S : \A y \in S : x <= y
<1>1. \A x, y \in Nat : x < y => <<x, y>> \in OpToRel(<, Nat)
  BY DEF OpToRel
<1>2. \E x \in S : \A y \in S : ~ (<<y, x>> \in OpToRel(<, Nat))
  BY NatLessThanWellFounded, WFMin
<1>3. PICK x \in S : \A y \in S : ~ (<<y, x>> \in OpToRel(<, Nat))
  BY <1>2
<1>4. \A y \in S : ~ (y < x)
  BY <1>1, <1>3, Zenon
<1>5. \A y \in S : x <= y
  BY <1>4
<1> QED
  BY <1>5

(* What the allocator gives a dynamic client is inside the pool and free.  *)
LEMMA AssignedIsFree ==
    ASSUME NEW leases, NEW held, NEW mac, NEW t,
           ~IsStatic(mac), assign_ip(leases, held, mac, t) # NoIp
    PROVE  /\ assign_ip(leases, held, mac, t) \in Pool
           /\ IsFree(leases, held, assign_ip(leases, held, mac, t), mac, t)
<1>1. CASE KeepsOwn(leases, held, mac, t)
  BY <1>1 DEF assign_ip, KeepsOwn
<1>2. CASE ~KeepsOwn(leases, held, mac, t)
  <2> DEFINE free == {ip \in Pool : IsFree(leases, held, ip, mac, t)}
  <2>1. assign_ip(leases, held, mac, t) = FirstFree(leases, held, mac, t)
    BY <1>2 DEF assign_ip
  <2>2. free # {}
    BY <2>1 DEF FirstFree
  <2>3. free \subseteq Nat
    BY ConfigFacts DEF Pool, Address
  <2>4. \E ip \in free : \A other \in free : ip <= other
    BY <2>2, <2>3, LeastElement
  <2>5. FirstFree(leases, held, mac, t)
          = CHOOSE ip \in free : \A other \in free : ip <= other
    BY <2>2 DEF FirstFree
  <2>6. FirstFree(leases, held, mac, t) \in free
    BY <2>4, <2>5
  <2> QED
    BY <2>1, <2>6
<1> QED
  BY <1>1, <1>2

(* The allocator returns an address or none.                               *)
LEMMA AssignedType ==
    ASSUME NEW leases, NEW held, NEW mac, NEW t
    PROVE  assign_ip(leases, held, mac, t) \in Address \cup {NoIp}
<1>1. CASE IsStatic(mac)
  BY <1>1, ConfigFacts DEF assign_ip, IsStatic
<1>2. CASE ~IsStatic(mac)
  BY <1>2, AssignedIsFree, ConfigFacts DEF Pool, Address
<1> QED
  BY <1>1, <1>2

-----------------------------------------------------------------------------
(***************************************************************************)
(* The server.                                                             *)
(***************************************************************************)

(* What the purged store keeps, and that committing a lease keeps the      *)
(* store a store.                                                          *)
LEMMA CommitIsMap ==
    ASSUME IsLeaseMap(by_mac, Mac), now \in Nat, NEW mac \in Mac, NEW ip \in Address
    PROVE  /\ IsLeaseMap(Commit(mac, ip), Mac)
           /\ DOMAIN Commit(mac, ip) = DOMAIN PurgeLeases(by_mac, now) \cup {mac}
           /\ Commit(mac, ip)[mac] = [ip |-> ip, expires_at |-> now + lease_time]
           /\ \A m \in DOMAIN PurgeLeases(by_mac, now) \ {mac} :
                 Commit(mac, ip)[m] = by_mac[m]
<1> DEFINE purged == PurgeLeases(by_mac, now)
           lease  == [ip |-> ip, expires_at |-> now + lease_time]
<1>1. lease \in Lease
  BY ConfigFacts DEF Lease, Address
<1>2. IsMap(purged, Mac, Lease)
  BY PurgeLeasesIsMap DEF IsLeaseMap
<1>3. Commit(mac, ip) = Put(purged, mac, lease)
  BY DEF Commit, Insert
<1>4. \A m \in DOMAIN purged : purged[m] = by_mac[m]
  BY PurgeLeasesIsMap
<1>5. /\ IsMap(Put(purged, mac, lease), Mac, Lease)
      /\ DOMAIN Put(purged, mac, lease) = DOMAIN purged \cup {mac}
      /\ Put(purged, mac, lease)[mac] = lease
      /\ \A m \in DOMAIN purged \ {mac} : Put(purged, mac, lease)[m] = purged[m]
  <2> HIDE DEF purged, lease
  <2> QED
    BY <1>1, <1>2 DEF Put, IsMap
<1> QED
  BY <1>3, <1>4, <1>5 DEF IsLeaseMap

(* Dropping a client's lease keeps the store a store.                      *)
LEMMA DropIsMap ==
    ASSUME IsLeaseMap(by_mac, Mac), NEW mac
    PROVE  /\ IsLeaseMap(Drop(mac), Mac)
           /\ DOMAIN Drop(mac) = IF HasLease(mac) THEN DOMAIN by_mac \ {mac} ELSE DOMAIN by_mac
           /\ \A m \in DOMAIN Drop(mac) : Drop(mac)[m] = by_mac[m]
BY RestrictIsMap DEF Drop, Remove, IsLeaseMap

(* Every reply decide() builds is a reply.                                 *)
LEMMA MessageType ==
    ASSUME NEW p \in Packets, now \in Nat
    PROVE  /\ Assigned(p) # NoIp =>
                /\ Message("OFFER", p, Assigned(p), Broadcast, now + lease_time) \in Reply
                /\ Ack(p) \in Reply
           /\ Message("NAK", p, UNSPECIFIED, Broadcast, 0) \in Reply
           /\ Message("INFORM_ACK", p, UNSPECIFIED, p.ciaddr, 0) \in Reply
<1>1. p \in Packet
  BY ServerConstants
<1>2. now + lease_time \in Nat
  BY ConfigFacts
<1>3. Assigned(p) # NoIp => Assigned(p) \in Address
  BY AssignedType DEF Assigned
<1>4. ack_dst(p) \in Address \cup {Broadcast}
  BY <1>1 DEF ack_dst, Packet, Broadcast
<1> QED
  BY <1>1, <1>2, <1>3, <1>4 DEF Message, Ack, Reply, Packet, Address, UNSPECIFIED, Broadcast

(* Where the loop goes after decide().                                     *)
LEMMA RespondType ==
    ASSUME NEW r \in Reply \cup {NoReply}, NEW save \in BOOLEAN, Respond(r, save)
    PROVE  /\ pc' \in PC
           /\ reply' \in Reply \cup {NoReply}
           /\ reply' # NoReply => pc' \in {"save", "send"}
BY DEF Respond, AfterSave, PC

-----------------------------------------------------------------------------
LEMMA TypeInit == Init => TypeOK
<1> SUFFICES ASSUME Init PROVE TypeOK
  OBVIOUS
<1>1. IsLeaseMap(file, Mac) /\ IsLeaseMap(by_mac, Mac)
  BY ServerConstants, NoEntriesIsMap DEF Init, IsLeaseMap
<1>2. IsQuarantineMap(declined) /\ IsQuarantineMap(hold) /\ IsMap(promise, Mac, Promise)
  BY NoEntriesIsMap DEF Init, IsQuarantineMap
<1> QED
  BY <1>1, <1>2 DEF Init, TypeOK, PC

LEMMA TypeStep == TypeOK /\ [Next]_vars => TypeOK'
<1> SUFFICES ASSUME TypeOK, [Next]_vars PROVE TypeOK'
  OBVIOUS
<1> USE DEF TypeOK
<1>unchanged. CASE UNCHANGED vars
  BY <1>unchanged DEF vars
<1>start. ASSUME NEW loaded, IsLeaseMap(loaded, Mac), StartWith(loaded) PROVE TypeOK'
  <2>1. IsLeaseMap(by_mac', Mac)
    BY <1>start, PurgeLeasesIsMap DEF StartWith
  <2>2. IsQuarantineMap(declined')
    BY <1>start, NoEntriesIsMap DEF StartWith, IsQuarantineMap
  <2>3. next_purge' \in Nat
    BY <1>start, ServerConstants DEF StartWith
  <2> QED
    BY <1>start, <2>1, <2>2, <2>3 DEF StartWith, disk, history, PC
<1>1. CASE Start
  BY <1>1, <1>start DEF Start
<1>2. CASE StartUnreadable
  BY <1>2, <1>start, NoEntriesIsMap DEF StartUnreadable, IsLeaseMap
<1>3. CASE Stop
  <2>1. IsLeaseMap(by_mac', Mac) /\ IsQuarantineMap(declined') /\ IsQuarantineMap(hold')
    BY <1>3, NoEntriesIsMap DEF Stop, IsLeaseMap, IsQuarantineMap
  <2> QED
    BY <1>3, <2>1 DEF Stop, disk, PC
<1>4. CASE EnterRecv \/ RecvTimeout \/ Signal \/ NothingToSweep
  BY <1>4 DEF EnterRecv, RecvTimeout, Signal, NothingToSweep, disk, memory, history, PC
<1>5. CASE Handle
  <2> PICK p \in Packets : decide(p)
    BY <1>5 DEF Handle
  <2>p. p \in Packet /\ p.mac \in Mac
    BY ServerConstants DEF Packet
  <2>1. CASE Ignore(p) \/ PoolExhausted(p) \/ RequestIgnored(p) \/ InformIgnored(p)
    BY <2>1, RespondType
       DEF Ignore, PoolExhausted, RequestIgnored, InformIgnored, Silent, disk, memory, history
  <2>2. CASE Offer(p) \/ AckStatic(p) \/ Nak(p) \/ InformAck(p)
    BY <2>2, RespondType, MessageType
       DEF Offer, AckStatic, Grants, Nak, InformAck, disk, memory, history
  <2>3. CASE AckDynamic(p)
    <3>1. Assigned(p) \in Address
      BY <2>3, AssignedType DEF AckDynamic, Grants, Assigned
    <3>2. IsLeaseMap(by_mac', Mac)
      BY <2>3, <2>p, <3>1, CommitIsMap DEF AckDynamic
    <3>3. IsQuarantineMap(declined')
      BY <2>3, RestrictIsMap DEF AckDynamic, PurgeDeclined, IsQuarantineMap
    <3>4. IsMap(promise', Mac, Promise)
      BY <2>3, RestrictIsMap DEF AckDynamic
    <3>5. /\ pc' \in PC
          /\ reply' \in Reply \cup {NoReply}
          /\ reply' # NoReply => pc' \in {"save", "send"}
      BY <2>3, RespondType, MessageType DEF AckDynamic, Grants
    <3> QED
      BY <2>3, <3>2, <3>3, <3>4, <3>5 DEF AckDynamic, disk
  <2>4. CASE Release(p)
    <3>1. IsLeaseMap(by_mac', Mac)
      BY <2>4, DropIsMap DEF Release
    <3>2. IsMap(promise', Mac, Promise)
      BY <2>4, RestrictIsMap DEF Release, Remove
    <3>3. /\ pc' \in PC
          /\ reply' \in Reply \cup {NoReply}
          /\ reply' # NoReply => pc' \in {"save", "send"}
      BY <2>4, RespondType DEF Release, HasLease
    <3> QED
      BY <2>4, <3>1, <3>2, <3>3 DEF Release, disk
  <2>5. CASE Decline(p)
    <3>1. IsLeaseMap(by_mac', Mac)
      BY <2>5, DropIsMap DEF Decline
    <3>2. IsMap(promise', Mac, Promise)
      BY <2>5, RestrictIsMap DEF Decline, Remove
    <3>3. /\ pc' \in PC
          /\ reply' \in Reply \cup {NoReply}
          /\ reply' # NoReply => pc' \in {"save", "send"}
      BY <2>5, RespondType DEF Decline, HasLease
    <3>4. now + DECLINE_QUARANTINE_SECS \in Nat
      BY ServerConstants
    <3>5. DeclinedIp(p) \in Nat
      BY <2>p DEF DeclinedIp, Packet, Address, IsLeaseMap, IsMap, Lease
    <3>6. IsQuarantineMap(declined')
      BY <2>5, <3>4, <3>5, PutIsMap DEF Decline, Quarantine, IsQuarantineMap
    <3>7. Reported(p) \subseteq Nat
      BY <2>p DEF Reported, Packet, Address, IsMap, Promise
    <3>8. IsQuarantineMap(hold')
      BY <2>5, <3>4, <3>7 DEF Decline, IsQuarantineMap, IsMap
    <3> QED
      BY <2>5, <3>1, <3>2, <3>3, <3>6, <3>8 DEF Decline, disk
  <2> QED
    BY <2>1, <2>2, <2>3, <2>4, <2>5 DEF decide
<1>6. CASE Save \/ SaveFails
  BY <1>6 DEF Save, SaveFails, AfterSaving, AfterSave, disk, memory, history, PC
<1>7. CASE Send
  <2>1. reply.type = "ACK" =>
          reply.mac \in Mac /\ [ip |-> reply.yiaddr, until |-> reply.until] \in Promise
    BY DEF Reply, NoReply, Promise
  <2>2. IsMap(promise', Mac, Promise)
    BY <1>7, <2>1, PutIsMap DEF Send
  <2> QED
    BY <1>7, <2>2 DEF Send, disk, memory, PC
<1>8. CASE Sweep
  <2>1. IsLeaseMap(by_mac', Mac)
    BY <1>8, PurgeLeasesIsMap DEF Sweep
  <2>2. IsQuarantineMap(declined')
    BY <1>8, RestrictIsMap DEF Sweep, PurgeDeclined, IsQuarantineMap
  <2>3. next_purge' \in Nat
    BY <1>8, ServerConstants DEF Sweep
  <2> QED
    BY <1>8, <2>1, <2>2, <2>3 DEF Sweep, disk, history, PC
<1>9. ASSUME NEW t \in Nat, SetClock(t) PROVE TypeOK'
  <2>1. IsMap(promise', Mac, Promise)
    BY <1>9, RestrictIsMap DEF SetClock
  <2>2. IsQuarantineMap(hold')
    BY <1>9, RestrictIsMap DEF SetClock, IsQuarantineMap
  <2> QED
    BY <1>9, <2>1, <2>2 DEF SetClock, disk, memory
<1>10. CASE Tick \/ StepBack
  BY <1>9, <1>10 DEF Tick, StepBack
<1> QED
  BY <1>unchanged, <1>1, <1>2, <1>3, <1>4, <1>5, <1>6, <1>7, <1>8, <1>10
     DEF Next, LoopStep, Environment, Crash, Exit

(* Every variable of the daemon keeps its type, whatever fails.            *)
THEOREM TypeCorrect == Spec => []TypeOK
<1> QED
  BY TypeInit, TypeStep, PTL DEF Spec

-----------------------------------------------------------------------------
(* Removing leases, expired or not, gives no address a second owner.       *)
LEMMA PurgeHasOneOwner ==
    ASSUME NEW leases, NEW t \in Nat, IsLeaseMap(leases, Mac), OneMacPerIp(leases)
    PROVE  OneMacPerIp(PurgeLeases(leases, t))
<1> DEFINE kept == PurgeLeases(leases, t)
<1>1. DOMAIN kept \subseteq DOMAIN leases /\ \A m \in DOMAIN kept : kept[m] = leases[m]
  BY DEF PurgeLeases, Restrict
<1> HIDE DEF kept
<1>2. OneMacPerIp(kept)
  BY <1>1 DEF OneMacPerIp
<1> QED
  BY <1>2 DEF kept

LEMMA DropHasOneOwner ==
    ASSUME IsLeaseMap(by_mac, Mac), OneMacPerIp(by_mac), NEW mac
    PROVE  OneMacPerIp(Drop(mac))
<1> DEFINE kept == Drop(mac)
<1>1. DOMAIN kept \subseteq DOMAIN by_mac /\ \A m \in DOMAIN kept : kept[m] = by_mac[m]
  BY DropIsMap
<1> HIDE DEF kept
<1>2. OneMacPerIp(kept)
  BY <1>1 DEF OneMacPerIp
<1> QED
  BY <1>2 DEF kept

(* decide() stores a lease of a free address in a purged store: none of    *)
(* the leases that are left has that address.                              *)
LEMMA CommitHasOneOwner ==
    ASSUME IsLeaseMap(by_mac, Mac), now \in Nat, OneMacPerIp(by_mac),
           NEW p \in Packets, ~IsStatic(p.mac), Assigned(p) # NoIp
    PROVE  OneMacPerIp(Commit(p.mac, Assigned(p)))
<1> DEFINE new == Commit(p.mac, Assigned(p))
           kept == DOMAIN PurgeLeases(by_mac, now)
<1>1. p.mac \in Mac /\ Assigned(p) \in Address
  BY ServerConstants, AssignedType DEF Packet, Assigned
<1>2. /\ DOMAIN new = kept \cup {p.mac}
      /\ new[p.mac] = [ip |-> Assigned(p), expires_at |-> now + lease_time]
      /\ \A m \in kept \ {p.mac} : new[m] = by_mac[m]
  BY <1>1, CommitIsMap
<1>3. kept = {m \in DOMAIN by_mac : by_mac[m].expires_at > now}
  BY PurgeLeasesIsMap
<1>4. ~TakenByOther(by_mac, Assigned(p), p.mac, now)
  BY AssignedIsFree DEF Assigned, IsFree
<1>5. \A m \in kept \ {p.mac} : by_mac[m].ip # Assigned(p)
  BY <1>3, <1>4 DEF TakenByOther
<1> QED
  <2> HIDE DEF new, kept
  <2>1. kept \subseteq DOMAIN by_mac
    BY <1>3
  <2>2. OneMacPerIp(new)
    BY <1>2, <1>5, <2>1 DEF OneMacPerIp
  <2> QED
    BY <2>2 DEF new

LEMMA OwnerInit == Init => OneOwner
BY ServerConstants DEF Init, OneOwner, OneMacPerIp, NoEntries

LEMMA OwnerStep == TypeOK /\ OneOwner /\ [Next]_vars => OneOwner'
<1> SUFFICES ASSUME TypeOK, OneOwner, [Next]_vars PROVE OneOwner'
  OBVIOUS
<1> USE DEF OneOwner
<1>maps. now \in Nat /\ IsLeaseMap(by_mac, Mac) /\ IsLeaseMap(file, Mac)
  BY DEF TypeOK
<1>none. OneMacPerIp(NoEntries)
  BY DEF OneMacPerIp, NoEntries
<1>start. ASSUME NEW loaded, IsLeaseMap(loaded, Mac), OneMacPerIp(loaded), StartWith(loaded)
          PROVE  OneOwner'
  <2>1. OneMacPerIp(PurgeLeases(loaded, now))
    BY <1>maps, <1>start, PurgeHasOneOwner
  <2> QED
    BY <1>start, <2>1 DEF StartWith, disk
<1>1. CASE Start
  BY <1>1, <1>maps, <1>start DEF Start
<1>2. CASE StartUnreadable
  BY <1>2, <1>none, <1>start, NoEntriesIsMap DEF StartUnreadable, IsLeaseMap
<1>3. CASE Stop
  BY <1>3, <1>none DEF Stop, disk
<1>4. CASE Handle
  <2> PICK p \in Packets : decide(p)
    BY <1>4 DEF Handle
  <2>1. CASE AckDynamic(p)
    <3>1. OneMacPerIp(Commit(p.mac, Assigned(p)))
      BY <1>maps, <2>1, CommitHasOneOwner DEF AckDynamic, Grants
    <3> QED
      BY <2>1, <3>1 DEF AckDynamic, disk
  <2>2. CASE Release(p) \/ Decline(p)
    <3>1. OneMacPerIp(Drop(p.mac))
      BY <1>maps, DropHasOneOwner
    <3> QED
      BY <2>2, <3>1 DEF Release, Decline, disk
  <2>3. CASE UNCHANGED <<disk, memory>>
    BY <2>3 DEF disk, memory
  <2> QED
    BY <2>1, <2>2, <2>3
       DEF decide, Ignore, Offer, PoolExhausted, RequestIgnored, AckStatic, Nak,
           InformIgnored, InformAck
<1>5. CASE Save
  BY <1>5 DEF Save, memory
<1>6. CASE Sweep
  <2>1. OneMacPerIp(PurgeLeases(by_mac, now))
    BY <1>maps, PurgeHasOneOwner
  <2> QED
    BY <1>6, <2>1 DEF Sweep, disk
<1>7. CASE UNCHANGED <<disk, memory>>
  BY <1>7 DEF disk, memory
<1> QED
  BY <1>1, <1>2, <1>3, <1>4, <1>5, <1>6, <1>7
     DEF Next, LoopStep, Environment, Crash, Exit, EnterRecv, RecvTimeout, Signal, SaveFails,
         Send, NothingToSweep, Tick, StepBack, SetClock, vars, disk, memory

(* No address is stored for two clients, in memory or on disk: in every    *)
(* behaviour, those with failing saves and loads and a clock set back      *)
(* included.                                                               *)
THEOREM OneOwnerAlways == Spec => []OneOwner
<1>1. Init => TypeOK /\ OneOwner
  BY TypeInit, OwnerInit
<1>2. TypeOK /\ OneOwner /\ [Next]_vars => (TypeOK /\ OneOwner)'
  BY TypeStep, OwnerStep
<1> QED
  BY <1>1, <1>2, PTL DEF Spec

(* Every address that the allocator could give but does not is the address *)
(* of another client's unexpired lease, and of two such addresses the      *)
(* leases are two.                                                         *)
LEMMA RefusalIsCounted ==
    ASSUME NEW leases, NEW held, NEW mac, NEW t, IsFiniteSet(DOMAIN leases),
           assign_ip(leases, held, mac, t) = NoIp
    PROVE  Cardinality({ip \in Pool : ~Reserved(ip) /\ ~IsQuarantined(held, ip, t)})
             <= Cardinality({m \in DOMAIN leases \ {mac} : leases[m].expires_at > t})
<1> DEFINE room   == {ip \in Pool : ~Reserved(ip) /\ ~IsQuarantined(held, ip, t)}
           others == {m \in DOMAIN leases \ {mac} : leases[m].expires_at > t}
           free   == {ip \in Pool : IsFree(leases, held, ip, mac, t)}
<1>1. ~IsStatic(mac) /\ ~KeepsOwn(leases, held, mac, t) /\ FirstFree(leases, held, mac, t) = NoIp
  BY ConfigFacts DEF assign_ip, IsStatic, KeepsOwn, NoIp, Pool, Address
<1>2. free = {}
  <2> SUFFICES ASSUME free # {} PROVE FALSE
    OBVIOUS
  <2>1. free \subseteq Nat
    BY ConfigFacts DEF Pool, Address
  <2>2. \E ip \in free : \A other \in free : ip <= other
    BY <2>1, LeastElement
  <2>3. FirstFree(leases, held, mac, t) = CHOOSE ip \in free : \A other \in free : ip <= other
    BY DEF FirstFree
  <2>4. NoIp \in free
    BY <1>1, <2>2, <2>3
  <2> QED
    BY <2>1, <2>4 DEF NoIp
<1>3. \A ip \in room : \E m \in others : leases[m].ip = ip
  BY <1>2 DEF IsFree, TakenByOther
<1>4. IsFiniteSet(others)
  BY FS_Subset
<1> HIDE DEF room, others, free
<1> DEFINE holder == [ip \in room |-> CHOOSE m \in others : leases[m].ip = ip]
<1>5. \A ip \in room : holder[ip] \in others /\ leases[holder[ip]].ip = ip
  BY <1>3
<1>6. holder \in Injection(room, others)
  <2> HIDE DEF holder
  <2>1. holder \in [room -> others]
    BY <1>5 DEF holder
  <2>2. \A ip1, ip2 \in room : holder[ip1] = holder[ip2] => ip1 = ip2
    BY <1>5
  <2> QED
    BY <2>1, <2>2 DEF Injection, IsInjective
<1>7. Cardinality(room) <= Cardinality(others)
  <2> HIDE DEF holder
  <2> QED
    BY <1>4, <1>6, FS_Injection
<1> QED
  BY <1>7 DEF room, others

(* Only leases and quarantines use addresses up, whatever fails: a client  *)
(* is refused only while others have as many unexpired leases as there are *)
(* addresses to give (assign_ip).  There are finitely many MACs.           *)
THEOREM RefusalIsForWant ==
    ASSUME IsFiniteSet(Mac)
    PROVE  Spec => []RefusedForWant
<1>1. TypeOK => RefusedForWant
  <2> SUFFICES ASSUME TypeOK PROVE RefusedForWant
    OBVIOUS
  <2>1. DOMAIN by_mac \subseteq Mac
    BY DEF TypeOK, IsLeaseMap, IsMap
  <2>2. IsFiniteSet(DOMAIN by_mac)
    BY <2>1, FS_Subset
  <2> QED
    BY <2>2, RefusalIsCounted DEF RefusedForWant
<1> QED
  BY <1>1, TypeCorrect, PTL

=============================================================================
