----------------------------- MODULE LeaseStore -----------------------------
(***************************************************************************)
(* The lease store (src/lease/store.rs, src/lease/model.rs) as operators   *)
(* on its two hash maps:                                                   *)
(*   by_mac    from a MAC to the one lease stored for it,                  *)
(*   declined  from an address to the end of its quarantine.               *)
(* A lease keeps its address and expiry; its MAC is the key, its hostname  *)
(* is display only, and every stored lease is dynamic.                     *)
(***************************************************************************)
EXTENDS Integers, Functions

Lease == [ip : Nat, expires_at : Nat]

NoEntries == [key \in {} |-> 0]

Put(map, key, value) ==
    [k \in DOMAIN map \cup {key} |-> IF k = key THEN value ELSE map[k]]

(* LeaseStore::insert: the lease replaces the one stored for its MAC.      *)
Insert(by_mac, mac, lease) == Put(by_mac, mac, lease)

(* LeaseStore::remove *)
Remove(by_mac, mac) == Restrict(by_mac, DOMAIN by_mac \ {mac})

(***************************************************************************)
(* LeaseStore::purge_expired, one operator for each of the two maps.       *)
(***************************************************************************)
PurgeLeases(by_mac, now) ==
    Restrict(by_mac, {mac \in DOMAIN by_mac : by_mac[mac].expires_at > now})

PurgeDeclined(declined, now) ==
    Restrict(declined, {ip \in DOMAIN declined : declined[ip] > now})

(* LeaseStore::quarantine *)
Quarantine(declined, ip, until) == Put(declined, ip, until)

(* LeaseStore::is_quarantined *)
IsQuarantined(declined, ip, now) == ip \in DOMAIN declined /\ declined[ip] > now

(***************************************************************************)
(* The values the maps range over.                                         *)
(***************************************************************************)
IsMap(map, Key, Value) ==
    /\ DOMAIN map \subseteq Key
    /\ map = [k \in DOMAIN map |-> map[k]]
    /\ \A k \in DOMAIN map : map[k] \in Value

IsLeaseMap(by_mac, Macs) == IsMap(by_mac, Macs, Lease)

IsQuarantineMap(declined) == IsMap(declined, Nat, Nat)

(* No address is stored for two MACs.                                      *)
OneMacPerIp(by_mac) ==
    \A m1, m2 \in DOMAIN by_mac : by_mac[m1].ip = by_mac[m2].ip => m1 = m2

=============================================================================
