---------------------------- MODULE MCLeaseServer ----------------------------
(***************************************************************************)
(* Small instances of LeaseServer: a subnet 1..6 with the server at 2 and  *)
(* the pool 3..5; two dynamic clients and one with a static address in the *)
(* middle of the pool, so two addresses are free for two clients.          *)
(***************************************************************************)
EXTENDS LeaseServer, TLC

CONSTANTS a, b, s

MCStatics == s :> 4

Dynamic == {a, b}

PoolIps == Pool \ StaticIps

Blank(type, mac) ==
    [type |-> type, mac |-> mac, server_id |-> NoIp, requested_ip |-> NoIp,
     ciaddr |-> UNSPECIFIED, giaddr |-> UNSPECIFIED, wants_broadcast |-> FALSE]

Selecting(mac, ip)  == [Blank("REQUEST", mac) EXCEPT !.server_id = server_ip, !.requested_ip = ip]
InitReboot(mac, ip) == [Blank("REQUEST", mac) EXCEPT !.requested_ip = ip]
Renewing(mac, ip)   == [Blank("REQUEST", mac) EXCEPT !.ciaddr = ip]
OtherServer(mac)    == [Blank("REQUEST", mac) EXCEPT !.server_id = network]
Declining(mac, ip)  == [Blank("DECLINE", mac) EXCEPT !.requested_ip = ip]

Requests(mac, ips) ==
    {Selecting(mac, ip) : ip \in ips} \cup {Renewing(mac, ip) : ip \in ips}
        \cup {InitReboot(mac, CHOOSE ip \in ips : TRUE), Blank("REQUEST", mac)}

FromClient(mac, ips) ==
    Requests(mac, ips)
        \cup {Blank("DISCOVER", mac), Blank("RELEASE", mac), Blank("DECLINE", mac)}
        \cup {Declining(mac, ip) : ip \in ips}

(* Packets that change nothing on the server. *)
Inert ==
    {Blank("OTHER", s), [Blank("DISCOVER", s) EXCEPT !.giaddr = server_ip], OtherServer(s),
     Blank("INFORM", s), [Blank("INFORM", s) EXCEPT !.ciaddr = 4],
     [Renewing(s, 4) EXCEPT !.wants_broadcast = TRUE]}

(* The static client declines nothing: no other client is given its        *)
(* address, whether it is quarantined or not.                              *)
MCPackets ==
    Inert \cup UNION {FromClient(mac, PoolIps) : mac \in Dynamic}
        \cup {p \in FromClient(s, {4}) : p.type # "DECLINE"}

(* For the instances with failures and for liveness: what moves leases, and *)
(* no more.                                                                *)
MCBindingPackets ==
    UNION {{Selecting(mac, ip) : ip \in PoolIps} : mac \in Dynamic}
        \cup {Blank("RELEASE", mac) : mac \in Dynamic}

MCLeasePackets == MCBindingPackets \cup {Declining(mac, 3) : mac \in Dynamic}

(* Fresh start; a lease of an address that is now static next to a lease   *)
(* of a client that is now static, as a change of configuration leaves     *)
(* them.                                                                   *)
MCOldFiles ==
    {NoEntries} \cup {(c :> [ip |-> 4, expires_at |-> 2]) @@ (s :> [ip |-> 3, expires_at |-> 2])
                         : c \in Dynamic}

(* The two dynamic clients are interchangeable. *)
MCSymmetry == Permutations(Dynamic)

=============================================================================
