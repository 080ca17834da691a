-------------------------------- MODULE Options --------------------------------
(***************************************************************************)
(* The options area of a DHCP message (src/dhcp/options.rs): a byte string *)
(* of options, each a code, a length and that many bytes of value.  Bytes  *)
(* run to U8_MAX, so that lengths can overflow on a small instance.        *)
(***************************************************************************)
EXTENDS Integers, Sequences

CONSTANTS
    U8_MAX,
    OPT_SUBNET_MASK, OPT_ROUTER, OPT_DNS, OPT_LEASE_TIME, OPT_MSG_TYPE, OPT_SERVER_ID,
    OPT_PARAM_REQUEST_LIST

OPT_PAD == 0
OPT_END == U8_MAX

Byte == 0 .. U8_MAX

OptionCode == Byte \ {OPT_PAD, OPT_END}

Codes == {OPT_SUBNET_MASK, OPT_ROUTER, OPT_DNS, OPT_LEASE_TIME, OPT_MSG_TYPE, OPT_SERVER_ID,
          OPT_PARAM_REQUEST_LIST}

(* The message types have numbers up to 8, and the codes of what not every *)
(* answer has are no other's.                                              *)
ASSUME ByteConstants ==
    /\ U8_MAX \in Nat /\ U8_MAX > 8
    /\ Codes \subseteq OptionCode
    /\ OPT_ROUTER \notin {OPT_DNS, OPT_LEASE_TIME} /\ OPT_DNS # OPT_LEASE_TIME
    /\ {OPT_ROUTER, OPT_DNS, OPT_LEASE_TIME} \cap {OPT_MSG_TYPE, OPT_SERVER_ID, OPT_SUBNET_MASK} = {}

(* A parsed option: its value is buf[from .. to], empty if to = from - 1.  *)
Option == [code : OptionCode, from : Nat, to : Nat]

-----------------------------------------------------------------------------
(* One option at position i of buf. *)
HasLength(buf, i) == i + 1 <= Len(buf)

(* Mutant: the length byte is taken for the first byte of the value. *)
bug_Fits(buf, i) == i + buf[i + 1] <= Len(buf)

Fits(buf, i) == i + 1 + buf[i + 1] <= Len(buf)

OptionAt(buf, i) == [code |-> buf[i], from |-> i + 2, to |-> i + 1 + buf[i + 1]]

(* Mutant: END is an option like any other. *)
bug_WalkOver(buf, i) ==
    i <= Len(buf) => buf[i] # OPT_PAD /\ (HasLength(buf, i) => ~Fits(buf, i))

(* Where the walk ends: at END, or where no whole option is left. *)
WalkOver(buf, i) ==
    i <= Len(buf) =>
        \/ buf[i] = OPT_END
        \/ buf[i] # OPT_PAD /\ (HasLength(buf, i) => ~Fits(buf, i))

-----------------------------------------------------------------------------
(* What is read from the parsed options: a set of at most one element, as  *)
(* the code has an Option.                                                 *)
value(buf, option) == SubSeq(buf, option.from, option.to)

(* Mutant: the last option with the code counts. *)
bug_get(buf, items, code) ==
    {value(buf, items[k]) :
        k \in {n \in DOMAIN items : /\ items[n].code = code
                                    /\ \A j \in DOMAIN items : j > n => items[j].code # code}}

get(buf, items, code) ==
    {value(buf, items[k]) :
        k \in {n \in DOMAIN items : /\ items[n].code = code
                                    /\ \A j \in 1 .. n - 1 : items[j].code # code}}

from_u8 == <<"DISCOVER", "OFFER", "REQUEST", "DECLINE", "ACK", "NAK", "RELEASE", "INFORM">>

to_u8(type) == CHOOSE n \in DOMAIN from_u8 : from_u8[n] = type

msg_type(buf, items) ==
    {from_u8[v[1]] : v \in {d \in get(buf, items, OPT_MSG_TYPE) :
                               Len(d) = 1 /\ d[1] \in DOMAIN from_u8}}

param_request_list(buf, items) == get(buf, items, OPT_PARAM_REQUEST_LIST) \ {<<>>}

-----------------------------------------------------------------------------
(* Mutant: the length counts the code and itself. *)
bug_pushed(buf, code, data) == buf \o <<code, Len(data) + 2>> \o data

(* OptionsWriter::push appends code, length and value. *)
pushed(buf, code, data) == buf \o <<code, Len(data)>> \o data

(* push_ipv4_list: the octets of the addresses, one after the other. *)
octets(ips) == [n \in 1 .. 4 * Len(ips) |-> ips[((n - 1) \div 4) + 1][((n - 1) % 4) + 1]]

=============================================================================
