----------------------------- MODULE DhcpConfig -----------------------------
(***************************************************************************)
(* The configuration a nanodhcp server runs with (src/config/model.rs), as *)
(* constants: it is read once, validated, and never changes while the      *)
(* server runs.  Addresses are natural numbers, the u32 values the code    *)
(* compares them as (util::ip::to_u32).  The fields that only fill the     *)
(* options of a reply (mask, router, dns) are left out.                    *)
(***************************************************************************)
EXTENDS ConfigRules

CONSTANTS
    Mac,             \* client hardware addresses
    server_ip,
    network,         \* subnet.network()
    broadcast,       \* subnet.broadcast()
    pool_start,
    pool_end,
    lease_time,      \* seconds
    statics          \* the static bindings, a function from some MACs to addresses

Pool == pool_start .. pool_end

(***************************************************************************)
(* static_for(mac).is_some(): validate refuses duplicate MACs, so the list *)
(* of bindings is a function.                                              *)
(***************************************************************************)
IsStatic(mac) == mac \in DOMAIN statics

StaticIps == {statics[mac] : mac \in DOMAIN statics}

(* The configuration as ConfigRules speaks of it. *)
Config ==
    [server_ip |-> server_ip, network |-> network, broadcast |-> broadcast,
     pool_start |-> pool_start, pool_end |-> pool_end, lease_time |-> lease_time,
     statics |-> statics]

(* The server starts only with a configuration that config::validate       *)
(* accepts; StartupProofs shows that such a one is usable.                 *)
ASSUME ConfigAccepted ==
    /\ Usable(Config)
    /\ DOMAIN statics \subseteq Mac

=============================================================================
