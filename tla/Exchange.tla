------------------------------- MODULE Exchange -------------------------------
(***************************************************************************)
(* One datagram and its answer, byte by byte: the options of the request   *)
(* are walked (src/dhcp/packet.rs, src/dhcp/options.rs), the answer that   *)
(* decide() chooses is built (src/dhcp/builder.rs), and a client walks the *)
(* options of the answer with the same parser, as the tests of             *)
(* builder.rs do.  Which answer decide() chooses is left open here.        *)
(***************************************************************************)
EXTENDS Options

CONSTANTS
    Requests,        \* options areas that may be received
    Configs          \* the configured parameters

VARIABLES
    phase,
    cfg,
    request,         \* the options area of the datagram
    buf,             \* the area being walked or written
    i,               \* where the walk is
    items,           \* Options.items
    options,         \* the codes and values the answer gets
    laid             \* history: where push put them

vars == <<phase, cfg, request, buf, i, items, options, laid>>

Octets == [1 .. 4 -> Byte]

(* router is the set of at most one router; validate bounds the DNS list.  *)
ASSUME ExchangeConstants ==
    /\ \A r \in Requests : r \in Seq(Byte)
    /\ \A c \in Configs :
          /\ c.server_ip \in Octets /\ c.lease_time \in Octets /\ c.subnet_mask \in Octets
          /\ c.router \subseteq Octets
          /\ c.dns \in Seq(Octets) /\ 4 * Len(c.dns) <= U8_MAX

Final == {"ignored", "panicked", "done"}

Init ==
    /\ phase = "header"
    /\ cfg \in Configs
    /\ request \in Requests
    /\ buf = request
    /\ i = 1
    /\ items = <<>> /\ options = <<>> /\ laid = <<>>

-----------------------------------------------------------------------------
(* The length, op, htype, hlen and magic cookie are right, or not. *)
AcceptHeader ==
    /\ phase = "header"
    /\ phase' = "request"
    /\ UNCHANGED <<cfg, request, buf, i, items, options, laid>>

RejectHeader ==
    /\ phase = "header"
    /\ phase' = "ignored"
    /\ UNCHANGED <<cfg, request, buf, i, items, options, laid>>

(***************************************************************************)
(* Options::parse.                                                         *)
(***************************************************************************)
Walking == phase \in {"request", "reply"}

(* Mutant: the walk stays where it is. *)
BugSkipPad ==
    /\ Walking /\ ~WalkOver(buf, i)
    /\ buf[i] = OPT_PAD
    /\ UNCHANGED vars

SkipPad ==
    /\ Walking /\ ~WalkOver(buf, i)
    /\ buf[i] = OPT_PAD
    /\ i' = i + 1
    /\ UNCHANGED <<phase, cfg, request, buf, items, options, laid>>

(* Mutant: the length byte is not counted. *)
BugTakeOption ==
    /\ Walking /\ ~WalkOver(buf, i)
    /\ buf[i] # OPT_PAD
    /\ items' = Append(items, OptionAt(buf, i))
    /\ i' = OptionAt(buf, i).to
    /\ UNCHANGED <<phase, cfg, request, buf, options, laid>>

TakeOption ==
    /\ Walking /\ ~WalkOver(buf, i)
    /\ buf[i] # OPT_PAD
    /\ items' = Append(items, OptionAt(buf, i))
    /\ i' = OptionAt(buf, i).to + 1
    /\ UNCHANGED <<phase, cfg, request, buf, options, laid>>

EndWalk ==
    /\ Walking /\ WalkOver(buf, i)
    /\ phase' = IF phase = "request" THEN "decide" ELSE "done"
    /\ UNCHANGED <<cfg, request, buf, i, items, options, laid>>

-----------------------------------------------------------------------------
(***************************************************************************)
(* The answer.                                                             *)
(***************************************************************************)
Answers == [DISCOVER |-> {"OFFER"}, REQUEST |-> {"ACK", "NAK"}, INFORM |-> {"INFORM_ACK"}]

wants(code) == \A list \in param_request_list(buf, items) : \E n \in DOMAIN list : list[n] = code

Push(code, data) == <<[code |-> code, data |-> data]>>

(* builder::build, the options it pushes; build_offer and build_ack        *)
(* include the lease, build_inform_ack does not.                           *)
build(answer) ==
    LET type == IF answer = "INFORM_ACK" THEN "ACK" ELSE answer
        include_lease == answer \in {"OFFER", "ACK"}
        head == Push(OPT_MSG_TYPE, <<to_u8(type)>>) \o Push(OPT_SERVER_ID, cfg.server_ip)
        lease == IF include_lease THEN Push(OPT_LEASE_TIME, cfg.lease_time) ELSE <<>>
        router == IF cfg.router # {} /\ wants(OPT_ROUTER)
                  THEN Push(OPT_ROUTER, CHOOSE ip \in cfg.router : TRUE) ELSE <<>>
        dns == IF cfg.dns # <<>> /\ wants(OPT_DNS)
               THEN Push(OPT_DNS, octets(cfg.dns)) ELSE <<>>
    IN  IF type = "NAK" THEN head
        ELSE head \o lease \o Push(OPT_SUBNET_MASK, cfg.subnet_mask) \o router \o dns

(* A packet that asks for no answer, or gets none: without a message type, *)
(* not for this server, no address free.                                   *)
Silent ==
    /\ phase = "decide"
    /\ phase' = "ignored"
    /\ UNCHANGED <<cfg, request, buf, i, items, options, laid>>

Answer ==
    /\ phase = "decide"
    /\ \E type \in msg_type(buf, items) \cap DOMAIN Answers :
          \E answer \in Answers[type] : options' = build(answer)
    /\ phase' = "build"
    /\ buf' = <<>> /\ i' = 1 /\ items' = <<>> /\ laid' = <<>>
    /\ UNCHANGED <<cfg, request>>

(* The next option to push. *)
Pending == options[Len(laid) + 1]

(* The assertion of push ends the process; otherwise the option is laid    *)
(* at the end of what is written.                                          *)
PushOption ==
    /\ phase = "build" /\ Len(laid) < Len(options)
    /\ IF Len(Pending.data) > U8_MAX
       THEN phase' = "panicked" /\ UNCHANGED <<buf, laid>>
       ELSE /\ buf' = pushed(buf, Pending.code, Pending.data)
            /\ laid' = Append(laid, [code |-> Pending.code, from |-> Len(buf) + 3,
                                     to |-> Len(buf) + 2 + Len(Pending.data)])
            /\ UNCHANGED phase
    /\ UNCHANGED <<cfg, request, i, items, options>>

finish ==
    /\ phase = "build" /\ Len(laid) = Len(options)
    /\ buf' = Append(buf, OPT_END)
    /\ phase' = "reply"
    /\ UNCHANGED <<cfg, request, i, items, options, laid>>

Next ==
    \/ AcceptHeader \/ RejectHeader
    \/ SkipPad \/ TakeOption \/ EndWalk
    \/ Silent \/ Answer
    \/ PushOption \/ finish

Steps == Init /\ [][Next]_vars

(* handle() runs to its end. *)
Spec == Steps /\ WF_vars(Next)

-----------------------------------------------------------------------------
(***************************************************************************)
(* Properties.                                                             *)
(***************************************************************************)
(* The type invariant, with the bounds of the two positions that index     *)
(* sequences.                                                              *)
TypeOK ==
    /\ phase \in {"header", "request", "decide", "build", "reply"} \cup Final
    /\ cfg \in Configs /\ request \in Requests
    /\ buf \in Seq(Byte)
    /\ i \in Nat \ {0}
    /\ items \in Seq(Option)
    /\ options \in Seq([code : OptionCode, data : Seq(Byte)])
    /\ laid \in Seq(Option) /\ Len(laid) <= Len(options)

(* The walk never reads outside the buffer, whatever lengths the options   *)
(* claim (options.rs: "The parser never reads outside the buffer").        *)
NeverOverreads ==
    /\ i <= Len(buf) + 1
    /\ \A k \in DOMAIN items : items[k].from >= 3 /\ items[k].to <= Len(buf)

(* The assertion of push never fires, and a client that reads the answer   *)
(* finds the options that were pushed, in order and with their values: no  *)
(* value is taken for an option, and no length byte is wrong.              *)
RoundTrip ==
    /\ phase # "panicked"
    /\ phase = "done" =>
          /\ items = laid /\ Len(items) = Len(options)
          /\ \A k \in DOMAIN items : /\ items[k].code = options[k].code
                                     /\ value(buf, items[k]) = options[k].data

(* What an options area says, from its end to its beginning: the options   *)
(* from a position on are the one there, if it is whole, and those after   *)
(* it.                                                                     *)
SaidFrom(area) ==
    LET from[p \in 1 .. Len(area) + 1] ==
            IF p > Len(area) \/ area[p] = OPT_END THEN <<>>
            ELSE IF area[p] = OPT_PAD THEN from[p + 1]
            ELSE IF p = Len(area) \/ area[p + 1] > Len(area) - p - 1 THEN <<>>
            ELSE <<[code |-> area[p], data |-> SubSeq(area, p + 2, p + 1 + area[p + 1])]>>
                     \o from[p + 2 + area[p + 1]]
    IN  from

Said(area) == SaidFrom(area)[1]

(* The walk finds what the request says, malformed ends included.          *)
WalkFollowsGrammar ==
    phase = "decide" =>
        [k \in DOMAIN items |-> [code |-> items[k].code, data |-> value(buf, items[k])]]
            = Said(request)

(* The first parameter request list counts; an empty one asks for all.     *)
Asked(code) ==
    LET said  == Said(request)
        lists == {k \in DOMAIN said : said[k].code = OPT_PARAM_REQUEST_LIST}
    IN  \A k \in lists : (\A j \in lists : k <= j) =>
            \/ said[k].data = <<>>
            \/ \E n \in DOMAIN said[k].data : said[k].data[n] = code

Granted(code) == \E k \in DOMAIN items : items[k].code = code

(* A client reads a router or DNS servers exactly if they are configured,  *)
(* it asked for them, and it was not refused (docs/protocol.md, Options).  *)
ParametersAsked ==
    phase = "done" /\ "NAK" \notin msg_type(buf, items) =>
        /\ Granted(OPT_ROUTER) <=> cfg.router # {} /\ Asked(OPT_ROUTER)
        /\ Granted(OPT_DNS) <=> cfg.dns # <<>> /\ Asked(OPT_DNS)

(* No datagram keeps the receive loop from its next one: the walk of any   *)
(* area ends.                                                              *)
Terminates == <>(phase \in Final)

=============================================================================
