---------------------------- MODULE ConfigValidate ----------------------------
(***************************************************************************)
(* config::validate (src/config/validate.rs).  The code collects a message *)
(* for every problem; here it is whether there is one.                     *)
(***************************************************************************)
EXTENDS Cidr, ConfigRules, Sequences

CONSTANTS
    Mac,
    Name,            \* interfaces and paths
    Empty            \* the empty one

ASSUME EmptyName == Empty \in Name

Binding == [mac : Mac, ip : Word]

(* A parsed DhcpConfig.  dns is the number of servers listed; router is    *)
(* NoIp when it is not given.                                              *)
ParsedConfig ==
    [interface : Name, server_ip : Word, subnet : Subnet, subnet_mask : Word,
     pool_start : Word, pool_end : Word, router : Word \cup {NoIp}, dns : Nat,
     lease_time : Nat, lease_file : Name, allow_unbound : BOOLEAN, statics : Seq(Binding)]

(* Mutant: one server too many. *)
bug_more_dns == 64

MaxDns == 63

(* The server's address, both ends of the pool and the router. *)
KeyAddresses(cfg) ==
    {cfg.server_ip, cfg.pool_start, cfg.pool_end} \cup ({cfg.router} \ {NoIp})

(* Mutant: the broadcast address passes. *)
bug_IsEdge(cfg, ip) == ip = network(cfg.subnet)

IsEdge(cfg, ip) == ip = network(cfg.subnet) \/ ip = broadcast(cfg.subnet)

(* Mutant: only one end of the pool is compared. *)
bug_ServerInPool(cfg) == cfg.server_ip >= cfg.pool_start

ServerInPool(cfg) == cfg.server_ip >= cfg.pool_start /\ cfg.server_ip <= cfg.pool_end

UniqueStatics(cfg) ==
    \A i, j \in DOMAIN cfg.statics :
        i # j => /\ cfg.statics[i].mac # cfg.statics[j].mac
                 /\ cfg.statics[i].ip # cfg.statics[j].ip

(* Ok(()) *)
validate(cfg) ==
    /\ cfg.interface # Empty
    /\ cfg.lease_file # Empty
    /\ cfg.dns <= MaxDns
    /\ mask(cfg.subnet) = cfg.subnet_mask
    /\ \A ip \in KeyAddresses(cfg) : contains(cfg.subnet, ip) /\ ~IsEdge(cfg, ip)
    /\ cfg.pool_start <= cfg.pool_end
    /\ cfg.lease_time # 0
    /\ ~ServerInPool(cfg)
    /\ \A i \in DOMAIN cfg.statics :
          contains(cfg.subnet, cfg.statics[i].ip) /\ ~IsEdge(cfg, cfg.statics[i].ip)
    /\ UniqueStatics(cfg)

-----------------------------------------------------------------------------
(* static_for: the first binding of a MAC, for those that have one. *)
StaticMacs(cfg) == {cfg.statics[i].mac : i \in DOMAIN cfg.statics}

static_for(cfg, mac) ==
    cfg.statics[CHOOSE i \in DOMAIN cfg.statics :
                   /\ cfg.statics[i].mac = mac
                   /\ \A j \in DOMAIN cfg.statics : j < i => cfg.statics[j].mac # mac]

(* The configuration as the allocator uses it. *)
Effective(cfg) ==
    [server_ip |-> cfg.server_ip,
     network |-> network(cfg.subnet), broadcast |-> broadcast(cfg.subnet),
     pool_start |-> cfg.pool_start, pool_end |-> cfg.pool_end,
     lease_time |-> cfg.lease_time,
     statics |-> [mac \in StaticMacs(cfg) |-> static_for(cfg, mac).ip]]

=============================================================================
