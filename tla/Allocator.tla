------------------------------ MODULE Allocator ------------------------------
(***************************************************************************)
(* The address allocation policy (src/lease/allocator.rs): static binding, *)
(* then the address already stored for the MAC, then the first free one.   *)
(***************************************************************************)
EXTENDS DhcpConfig, LeaseStore

Reserved(ip) == ip \in {network, broadcast, server_ip} \cup StaticIps

(* Mutant: the expiry compared the wrong way round. *)
BugTakenByOther(by_mac, ip, mac, now) ==
    \E m \in DOMAIN by_mac \ {mac} :
        by_mac[m].ip = ip /\ by_mac[m].expires_at < now

TakenByOther(by_mac, ip, mac, now) ==
    \E m \in DOMAIN by_mac \ {mac} :
        by_mac[m].ip = ip /\ by_mac[m].expires_at > now

(* The three tests that both the stored address and a new one must pass.   *)
IsFree(by_mac, declined, ip, mac, now) ==
    /\ ~Reserved(ip)
    /\ ~TakenByOther(by_mac, ip, mac, now)
    /\ ~IsQuarantined(declined, ip, now)

(* Mutants of KeepsOwn: the stored address reused without asking for a     *)
(* quarantine; the last address of the pool taken for outside it.          *)
BugKeepsQuarantined(by_mac, declined, mac, now) ==
    /\ mac \in DOMAIN by_mac
    /\ by_mac[mac].ip \in Pool
    /\ ~Reserved(by_mac[mac].ip)
    /\ ~TakenByOther(by_mac, by_mac[mac].ip, mac, now)

BugPoolEndExcluded(by_mac, declined, mac, now) ==
    /\ mac \in DOMAIN by_mac
    /\ by_mac[mac].ip \in pool_start .. pool_end - 1
    /\ IsFree(by_mac, declined, by_mac[mac].ip, mac, now)

(* Step 2: the stored lease counts even when it has expired.               *)
KeepsOwn(by_mac, declined, mac, now) ==
    /\ mac \in DOMAIN by_mac
    /\ by_mac[mac].ip \in Pool
    /\ IsFree(by_mac, declined, by_mac[mac].ip, mac, now)

(* Step 3: the loop over start..=end.                                      *)
FirstFree(by_mac, declined, mac, now) ==
    LET free == {ip \in Pool : IsFree(by_mac, declined, ip, mac, now)}
    IN  IF free = {} THEN NoIp
                     ELSE CHOOSE ip \in free : \A other \in free : ip <= other

assign_ip(by_mac, declined, mac, now) ==
    IF IsStatic(mac) THEN statics[mac]
    ELSE IF KeepsOwn(by_mac, declined, mac, now) THEN by_mac[mac].ip
    ELSE FirstFree(by_mac, declined, mac, now)

=============================================================================
