------------------------------- MODULE Datagram -------------------------------
(***************************************************************************)
(* A whole datagram and its whole answer: the fixed part of Header in      *)
(* front of the options of Exchange.                                       *)
(***************************************************************************)
EXTENDS Exchange, Header

CONSTANTS
    Datagrams,       \* fixed parts that may be received, cut off or not
    Usual,           \* the one that comes with every options area of Requests
    UsualArea,       \* and the options area that comes with every fixed part
    Addresses        \* what clients are given

ASSUME DatagramConstants ==
    /\ Datagrams \cup {Usual} \subseteq Seq(Nat)
    /\ Addresses \subseteq [1 .. 4 -> Nat]

VARIABLES
    datagram,        \* the fixed part of the datagram received
    reply            \* and of the answer, once there is one

fixed_vars == <<datagram, reply>>

DatagramInit ==
    /\ Init
    /\ datagram \in IF request = UsualArea THEN Datagrams ELSE {Usual}
    /\ reply = <<>>

Accept == AcceptHeader /\ IsRequest(datagram) /\ UNCHANGED fixed_vars

Reject == RejectHeader /\ ~IsRequest(datagram) /\ UNCHANGED fixed_vars

Relayed == parse(datagram).giaddr # UNSPECIFIED

(* What decide() leaves without an answer; a relayed datagram always. *)
GiveNone == Silent /\ UNCHANGED fixed_vars

(* build(): OFFER and ACK grant an address, NAK and the answer to INFORM   *)
(* pass none.                                                              *)
Build ==
    /\ Answer
    /\ ~Relayed
    /\ \E answer \in UNION {Answers[type] : type \in DOMAIN Answers},
          ip \in Addresses \cup {UNSPECIFIED} :
             /\ options' = build(answer)
             /\ ip = UNSPECIFIED <=> answer \notin {"OFFER", "ACK"}
             /\ reply' = base_reply(parse(datagram), cfg.server_ip, ip)
    /\ UNCHANGED datagram

Walk == (SkipPad \/ TakeOption \/ EndWalk) /\ UNCHANGED fixed_vars

Lay == (PushOption \/ finish) /\ UNCHANGED fixed_vars

DatagramNext == Accept \/ Reject \/ Walk \/ GiveNone \/ Build \/ Lay

(* handle() runs to its end. *)
DatagramSpec ==
    DatagramInit /\ [][DatagramNext]_<<vars, fixed_vars>> /\ WF_<<vars, fixed_vars>>(DatagramNext)

-----------------------------------------------------------------------------
(* Where a client looks for them (RFC 2131) the answer has the client's    *)
(* transaction id, flags and hardware address and the server's address; no *)
(* field has run into another, and no answer leaves through a relay.  The  *)
(* client finds an address there exactly if the options grant it for a     *)
(* time (base_reply, build_offer, build_ack, build_nak, build_inform_ack). *)
AnswersTheClient ==
    phase = "done" =>
        /\ Len(reply) = MIN_LEN
        /\ \A field \in {<<4, 8>>, <<10, 12>>, <<28, 34>>, <<236, 240>>} :
              Slice(reply, field[1], field[2]) = Slice(datagram, field[1], field[2])
        /\ Slice(reply, 0, 4) = <<BOOTREPLY, HTYPE_ETHERNET, HLEN_ETHERNET, 0>>
        /\ Slice(reply, 20, 24) = cfg.server_ip
        /\ \A k \in 9 .. 10 \cup 13 .. 16 \cup 25 .. 28 \cup 35 .. 236 : reply[k] = 0
        /\ Slice(reply, 16, 20) \in IF Granted(OPT_LEASE_TIME) THEN Addresses ELSE {UNSPECIFIED}

=============================================================================
