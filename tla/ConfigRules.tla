----------------------------- MODULE ConfigRules -----------------------------
(***************************************************************************)
(* What address allocation relies on in a configuration.  It is what the   *)
(* modules of the server assume (DhcpConfig) and what the modules of its   *)
(* startup establish (Startup).                                            *)
(***************************************************************************)
EXTENDS Integers

Address == Nat

UNSPECIFIED == 0     \* 0.0.0.0

NoIp == -1           \* Option::<Ipv4Addr>::None: an option that is not there, no free address

(* The pool and the server lie between the two ends of the subnet, apart   *)
(* from each other, and no two clients share a static address.  Validation *)
(* does not compare a static address with the server's own, nor forbid one *)
(* inside the pool: neither is relied on.                                  *)
Usable(config) ==
    /\ {config.server_ip, config.network, config.broadcast,
        config.pool_start, config.pool_end} \subseteq Address
    /\ config.network < config.pool_start
    /\ config.pool_start <= config.pool_end
    /\ config.pool_end < config.broadcast
    /\ config.network < config.server_ip /\ config.server_ip < config.broadcast
    /\ config.server_ip \notin config.pool_start .. config.pool_end
    /\ config.lease_time \in Nat \ {0}
    /\ \A mac \in DOMAIN config.statics :
          /\ config.statics[mac] \in Address
          /\ config.network < config.statics[mac]
          /\ config.statics[mac] < config.broadcast
    /\ \A m1, m2 \in DOMAIN config.statics :
          config.statics[m1] = config.statics[m2] => m1 = m2

=============================================================================
