--------------------------------- MODULE MCLan ---------------------------------
(***************************************************************************)
(* Small instances of Lan: two clients that want two or three addresses,   *)
(* in a subnet with the server at 2 and the pool from 3.                   *)
(***************************************************************************)
EXTENDS Lan

CONSTANTS a, b

MCNoStatics == NoEntries

MCOldFiles == {NoEntries}

MCClients == {a, b}

MCPackets == ClientPackets

=============================================================================
