------------------------------- MODULE Tenancy -------------------------------
(***************************************************************************)
(* What a DHCP server is for: each address is let to one tenant at a time, *)
(* for a limited time; a tenancy may be extended but is never cut short,   *)
(* except that the tenant may give it up.  LeaseServer shows that the      *)
(* promises the server makes are such tenancies, and Lan that what the     *)
(* clients make of them at the other end of the network is one too.        *)
(***************************************************************************)
EXTENDS LeaseStore

CONSTANTS
    Tenants,
    Addresses,
    term             \* the longest time an address is let for

VARIABLES
    now,
    tenancy          \* address and end of each tenant's tenancy

vars == <<now, tenancy>>

Init == now = 0 /\ tenancy = NoEntries

Vacant(ip) == \A t \in DOMAIN tenancy : tenancy[t].ip # ip

Let(t) ==
    /\ UNCHANGED now
    /\ t \in DOMAIN tenancy' \ DOMAIN tenancy
    /\ tenancy'[t].ip \in Addresses /\ Vacant(tenancy'[t].ip)
    /\ tenancy'[t].until \in now + 1 .. now + term
    /\ tenancy' = Put(tenancy, t, tenancy'[t])

Extend(t) ==
    /\ UNCHANGED now
    /\ t \in DOMAIN tenancy /\ t \in DOMAIN tenancy'
    /\ tenancy'[t].until \in tenancy[t].until + 1 .. now + term
    /\ tenancy' = [tenancy EXCEPT ![t].until = tenancy'[t].until]

GiveUp(t) ==
    /\ UNCHANGED now
    /\ t \in DOMAIN tenancy
    /\ tenancy' = Remove(tenancy, t)

Pass ==
    /\ now' \in Nat /\ now' > now
    /\ tenancy' = Restrict(tenancy, {t \in DOMAIN tenancy : tenancy[t].until > now'})

Next ==
    \/ \E t \in Tenants : Let(t) \/ Extend(t) \/ GiveUp(t)
    \/ Pass

Spec == Init /\ [][Next]_vars

=============================================================================
