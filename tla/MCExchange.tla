------------------------------ MODULE MCExchange ------------------------------
(***************************************************************************)
(* Instance of Datagram with options of bytes of four bits: every short    *)
(* options area over the bytes that mean something, and longer ones put    *)
(* together of whole and broken options; and a fixed part whose bytes are  *)
(* all different, the same with any one byte changed or its end cut off.   *)
(***************************************************************************)
EXTENDS Datagram, TLC

CONSTANTS
    MaxArea,
    Changes          \* what a byte of the fixed part may be changed to

(* PAD, the codes of message type and parameter request list, which are    *)
(* lengths as well, the code of the router, and END.                       *)
Alphabet == {0, 1, 2, 3, U8_MAX}

ShortAreas == UNION {[1 .. n -> Alphabet] : n \in 0 .. MaxArea}

(* Message types DISCOVER, REQUEST and INFORM, request lists of the        *)
(* router, of router and DNS, and of nothing, an option of unknown code    *)
(* whose value looks like END and PAD, one that runs past the area, a code *)
(* without its length.                                                     *)
Pieces == {<<>>, <<1, 1, 1>>, <<1, 1, 3>>, <<1, 1, 8>>, <<2, 1, 3>>, <<2, 2, 3, 4>>, <<2, 0>>,
           <<9, 2, U8_MAX, 0>>, <<0>>, <<U8_MAX>>, <<2, 5, 3>>, <<2>>}

MCRequests == ShortAreas \cup {a \o b \o c : a, b, c \in Pieces}

(* Octets that look like PAD, END and codes. *)
Ip(n) == <<0, U8_MAX, 1, n>>

(* The longest DNS list that fits an option, or none. *)
MCConfigs ==
    {[server_ip |-> Ip(2), lease_time |-> <<0, 0, 1, 0>>, subnet_mask |-> Ip(0),
      router |-> router, dns |-> dns] :
        router \in {{Ip(1)}, {}}, dns \in {<<Ip(5), Ip(6), Ip(1)>>, <<>>}}

-----------------------------------------------------------------------------
MCUsual ==
    Write(Write([k \in 1 .. MIN_LEN |-> IF k \in 25 .. 28 THEN 0 ELSE k],
                0, <<BOOTREQUEST, HTYPE_ETHERNET, HLEN_ETHERNET>>),
          COOKIE_OFFSET, MAGIC_COOKIE)

MCDatagrams ==
    {[MCUsual EXCEPT ![k] = byte] : k \in 1 .. MIN_LEN, byte \in Changes}
        \cup {SubSeq(MCUsual, 1, n) : n \in {0, 4, COOKIE_OFFSET, MIN_LEN - 1, MIN_LEN}}

(* A REQUEST. *)
MCUsualArea == <<1, 1, 3>>

MCAddresses == {<<251, 252, 253, 254>>}

MCCookie == <<99, 130, 83, 99>>

=============================================================================
