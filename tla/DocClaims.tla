------------------------------ MODULE DocClaims ------------------------------
(***************************************************************************)
(* A statement of the documentation that the server does not keep, checked *)
(* alone by a run that is expected to find a behaviour against it.         *)
(***************************************************************************)
EXTENDS MCLeaseServer

(* docs/leases.md: "An address is never handed out if it is: ... currently *)
(* leased to a different MAC and not yet expired".  handle() sends the ACK *)
(* even if the lease could not be saved; after a restart the address is    *)
(* free again.                                                             *)
NeverHandsOutLeased ==
    reply.type = "ACK" =>
        \A mac \in DOMAIN promise \ {reply.mac} :
            Outstanding(mac) => promise[mac].ip # reply.yiaddr

=============================================================================
