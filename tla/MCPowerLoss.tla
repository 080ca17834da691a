----------------------------- MODULE MCPowerLoss -----------------------------
(***************************************************************************)
(* A small instance of PowerLoss: two clients that select, renew and give  *)
(* up the only address of the pool.                                        *)
(***************************************************************************)
EXTENDS PowerLoss, TLC

CONSTANTS a, b

MCNoStatics == NoEntries

MCOldFiles == {NoEntries}

Blank(type, mac) ==
    [type |-> type, mac |-> mac, server_id |-> NoIp, requested_ip |-> NoIp,
     ciaddr |-> UNSPECIFIED, giaddr |-> UNSPECIFIED, wants_broadcast |-> FALSE]

MCPackets ==
    UNION {{[Blank("REQUEST", mac) EXCEPT !.server_id = server_ip],
            [Blank("REQUEST", mac) EXCEPT !.ciaddr = pool_start],
            Blank("RELEASE", mac)} : mac \in Mac}

MCSymmetry == Permutations(Mac)

=============================================================================
