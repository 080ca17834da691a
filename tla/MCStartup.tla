------------------------------ MODULE MCStartup ------------------------------
(***************************************************************************)
(* Instances of Main with addresses of three bits: one file varies the     *)
(* addresses, one the subnet alone, and one everything else.               *)
(***************************************************************************)
EXTENDS Main, TLC

CONSTANTS m1, m2, eth0, leases

(* The upper half, given by an address inside it; all addresses; a block   *)
(* of two, which has no host.                                              *)
Addresses ==
    [interface |-> {eth0}, lease_file |-> {leases}, lease_time |-> {1},
     allow_unbound |-> {}, dns |-> {},
     subnet |-> {[addr |-> 5, prefix |-> 1], [addr |-> 0, prefix |-> 0],
                 [addr |-> 6, prefix |-> 2]},
     subnet_mask |-> {4, 0, 6}, server_ip |-> {1, 6}, pool_start |-> {5, 6},
     pool_end |-> {5, 6, 7}, router |-> {5, 7},
     static |-> [mac : {m1, m2}, ip : {5, 3}]]

Options ==
    [interface |-> {eth0, Empty}, lease_file |-> {leases, Empty}, lease_time |-> {0, 1},
     allow_unbound |-> BOOLEAN, dns |-> {1, 63},
     subnet |-> {[addr |-> 4, prefix |-> 1]}, subnet_mask |-> {4}, server_ip |-> {5},
     pool_start |-> {6}, pool_end |-> {6}, router |-> {5},
     static |-> {[mac |-> m1, ip |-> 6], [mac |-> m1, ip |-> 5]}]

Subnets ==
    [Options EXCEPT !.interface = {eth0}, !.lease_file = {leases}, !.lease_time = {1},
                    !.allow_unbound = {}, !.dns = {}, !.static = {},
                    !.subnet = Subnet, !.subnet_mask = Word]

MCTexts == {Addresses, Options, Subnets}

MCWords == {"run", "check", "help", "-c", "-q", "-v", "-x", "lan.conf"}

MCIsOption(word) == word \in {"-c", "-q", "-v", "-x"}

Bits == INSTANCE CidrBits

(* The bit operations of Cidr amount to cutting the addresses into blocks, *)
(* also for the shortest and the longest prefix and for a subnet given by  *)
(* an address inside it (util/ip.rs).                                      *)
BitsAgree ==
    LET c == cfg.subnet IN
    phase = "parsed" =>
        /\ Bits!mask(c) = mask(c)
        /\ Bits!network(c) = network(c)
        /\ Bits!broadcast(c) = broadcast(c)
        /\ \A ip \in Word :
              /\ Bits!contains(c, ip) <=> contains(c, ip)
              /\ Bits!contains(c, ip) <=> ip \in network(c) .. broadcast(c)

=============================================================================
