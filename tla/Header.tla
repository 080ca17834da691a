-------------------------------- MODULE Header --------------------------------
(***************************************************************************)
(* The fixed part of a datagram, byte by byte: what DhcpPacket::parse      *)
(* accepts and reads of it (src/dhcp/packet.rs) and base_reply writes      *)
(* (src/dhcp/builder.rs).                                                  *)
(***************************************************************************)
EXTENDS Integers, Sequences

CONSTANTS
    BOOTREQUEST, BOOTREPLY, HTYPE_ETHERNET, HLEN_ETHERNET,
    MAGIC_COOKIE

ASSUME HeaderConstants ==
    /\ {BOOTREQUEST, BOOTREPLY, HTYPE_ETHERNET, HLEN_ETHERNET} \subseteq Nat
    /\ MAGIC_COOKIE \in [1 .. 4 -> Nat]

COOKIE_OFFSET == 236

MIN_LEN == 240

Zero(n) == [k \in 1 .. n |-> 0]

UNSPECIFIED == Zero(4)

(* buf[from..to], whose first byte has index 0 in the code. *)
Slice(buf, from, to) == SubSeq(buf, from + 1, to)

-----------------------------------------------------------------------------
(* DhcpPacket::parse *)
IsRequest(buf) ==
    /\ Len(buf) >= MIN_LEN
    /\ Slice(buf, 0, 3) = <<BOOTREQUEST, HTYPE_ETHERNET, HLEN_ETHERNET>>
    /\ Slice(buf, COOKIE_OFFSET, MIN_LEN) = MAGIC_COOKIE

parse(buf) ==
    [xid    |-> Slice(buf, 4, 8),
     flags  |-> Slice(buf, 10, 12),
     ciaddr |-> Slice(buf, 12, 16),
     giaddr |-> Slice(buf, 24, 28),
     chaddr |-> Slice(buf, 28, 34)]

-----------------------------------------------------------------------------
(* A field is copied to its place. *)
Write(buf, offset, bytes) ==
    [k \in DOMAIN buf |-> IF k - offset \in DOMAIN bytes THEN bytes[k - offset] ELSE buf[k]]

(* Mutant: chaddr starts where giaddr does. *)
bug_base_reply(req, server_ip, yiaddr) ==
    LET start  == Write(Zero(MIN_LEN), 0, <<BOOTREPLY, HTYPE_ETHERNET, HLEN_ETHERNET, 0>>)
        xid    == Write(start, 4, req.xid)
        flags  == Write(xid, 10, req.flags)
        given  == Write(flags, 16, yiaddr)
        siaddr == Write(given, 20, server_ip)
        giaddr == Write(siaddr, 24, req.giaddr)
        chaddr == Write(giaddr, 24, req.chaddr)
    IN  Write(chaddr, COOKIE_OFFSET, MAGIC_COOKIE)

base_reply(req, server_ip, yiaddr) ==
    LET start  == Write(Zero(MIN_LEN), 0, <<BOOTREPLY, HTYPE_ETHERNET, HLEN_ETHERNET, 0>>)
        xid    == Write(start, 4, req.xid)
        flags  == Write(xid, 10, req.flags)
        given  == Write(flags, 16, yiaddr)
        siaddr == Write(given, 20, server_ip)
        giaddr == Write(siaddr, 24, req.giaddr)
        chaddr == Write(giaddr, 28, req.chaddr)
    IN  Write(chaddr, COOKIE_OFFSET, MAGIC_COOKIE)

=============================================================================
