---------------------------------- MODULE Lan ----------------------------------
(***************************************************************************)
(* The server of LeaseServer among DHCP clients, on a network that loses,  *)
(* repeats, delays and reorders datagrams.  A client goes through the      *)
(* exchange that docs/protocol.md shows: DISCOVER, OFFER, REQUEST, ACK; it *)
(* renews, reboots, releases, and declines an address that some other host *)
(* uses.                                                                   *)
(*                                                                         *)
(* A client accepts replies to its latest message only: a reply echoes the *)
(* transaction id of its request (base_reply), and a client takes a new    *)
(* one for each message.  Transaction ids appear only as that difference:  *)
(* a message is current or outdated.                                       *)
(***************************************************************************)
EXTENDS LeaseServer, FiniteSets

CONSTANTS
    Client,          \* the clients, dynamic or static
    Eager,           \* the clients that want an address
    Squatted,        \* addresses used by hosts that do not speak DHCP
    Impatient,       \* the clients that may give up while an answer is on its way
    Leaving,         \* the clients that release their addresses and reboot
    MaxOutdated,     \* bound on the outdated messages on their way
    MaxCrashes       \* bound on the crashes of the server

VARIABLES
    client,          \* state, address and lease of each client
    wire,            \* messages on their way to the server
    air,             \* replies on their way to clients that await them
    echoes,          \* the reply being prepared answers a current message
    crashes,
    undone           \* history: clients whose lease an outdated message ended

network_vars == <<wire, air, echoes>>
lan_vars == <<vars, client, network_vars, crashes, undone>>

Waiting == {"SELECTING", "REQUESTING", "RENEWING"}

Bound == {"BOUND", "RENEWING"}

ClientState == [state : {"INIT"} \cup Waiting \cup Bound, ip : Address,
                asked_at : Nat, until : Nat]

Idle == [state |-> "INIT", ip |-> UNSPECIFIED, asked_at |-> 0, until |-> 0]

(* A client uses an address until the lease it knows of ends. *)
Holds(c) == client[c].state \in Bound /\ client[c].until > now

-----------------------------------------------------------------------------
(* What clients send. *)
Blank(type, c) ==
    [type |-> type, mac |-> c, server_id |-> NoIp, requested_ip |-> NoIp,
     ciaddr |-> UNSPECIFIED, giaddr |-> UNSPECIFIED, wants_broadcast |-> FALSE]

Discovering(c)    == Blank("DISCOVER", c)
Selecting(c, ip)  == [Blank("REQUEST", c) EXCEPT !.server_id = server_ip, !.requested_ip = ip]
Rebooting(c, ip)  == [Blank("REQUEST", c) EXCEPT !.requested_ip = ip]
Renewing(c, ip)   == [Blank("REQUEST", c) EXCEPT !.ciaddr = ip]
Releasing(c, ip)  == [Blank("RELEASE", c) EXCEPT !.server_id = server_ip, !.ciaddr = ip]
Declining(c, ip)  == [Blank("DECLINE", c) EXCEPT !.server_id = server_ip, !.requested_ip = ip]

ClientPackets ==
    UNION {{Discovering(c)} \cup
           UNION {{Selecting(c, ip), Rebooting(c, ip), Renewing(c, ip), Releasing(c, ip),
                   Declining(c, ip)} : ip \in Pool \cup StaticIps} : c \in Client}

ASSUME LanConstants ==
    /\ Client \subseteq Mac
    /\ Eager \subseteq Client /\ Leaving \subseteq Client /\ Impatient \subseteq Client
    /\ ClientPackets \subseteq Packets
    /\ Squatted \subseteq Address
    /\ MaxOutdated \in Nat /\ MaxCrashes \in Nat

LanInit ==
    /\ Init
    /\ client = [c \in Client |-> Idle]
    /\ wire = {} /\ air = {} /\ echoes = FALSE
    /\ crashes = 0
    /\ undone = {}

-----------------------------------------------------------------------------
(***************************************************************************)
(* The network.  A new message of a client makes its older ones outdated;  *)
(* some of them may be lost by then.  Replies to them will be ignored.     *)
(***************************************************************************)
From(c) == {m \in wire : m.packet.mac = c}

(* The replies under way to a client are of no more interest. *)
Forget(c) ==
    /\ air' = {r \in air : r.mac # c}
    /\ echoes' = (echoes /\ reply.mac # c)

StopWaiting(c) == Forget(c) /\ UNCHANGED wire

SendToServer(c, packet) ==
    /\ \E kept \in SUBSET {[packet |-> m.packet, current |-> FALSE] : m \in From(c)} :
          /\ Cardinality({m \in wire \ From(c) : ~m.current} \cup kept) <= MaxOutdated
          /\ wire' = (wire \ From(c)) \cup kept \cup {[packet |-> packet, current |-> TRUE]}
    /\ Forget(c)

(* A message may be lost.  That it is lost in front of the server, and not *)
(* on its way there, makes no difference to anyone.                        *)
Lose ==
    /\ pc = "recv"
    /\ \E m \in wire : wire' = wire \ {m}
    /\ UNCHANGED <<vars, client, air, echoes, crashes, undone>>

(* Nothing is under way that a client waits for: an answer, or a DECLINE   *)
(* on its way (RFC 2131 asks for ten seconds before a client starts over). *)
Unanswered(c) ==
    /\ \A m \in From(c) : m.current => m.packet.type = "RELEASE"
    /\ \A r \in air : r.mac # c
    /\ ~(echoes /\ reply.mac = c)

MayGiveUp(c) == c \in Impatient \/ Unanswered(c)

-----------------------------------------------------------------------------
(***************************************************************************)
(* The clients.                                                            *)
(***************************************************************************)
Become(c, record) ==
    /\ client' = [client EXCEPT ![c] = record]
    /\ UNCHANGED <<vars, crashes, undone>>

Discover(c) ==
    /\ client[c].state = "INIT"
    /\ MayGiveUp(c)
    /\ Become(c, [Idle EXCEPT !.state = "SELECTING"])
    /\ SendToServer(c, Discovering(c))

(* No answer: start again. *)
Timeout(c) ==
    /\ client[c].state \in {"SELECTING", "REQUESTING"}
    /\ MayGiveUp(c)
    /\ Become(c, Idle)
    /\ StopWaiting(c)

HearOffer(c) ==
    /\ client[c].state = "SELECTING"
    /\ \E r \in air :
          /\ r.mac = c /\ r.type = "OFFER"
          /\ Become(c, [state |-> "REQUESTING", ip |-> r.yiaddr, asked_at |-> now, until |-> 0])
          /\ SendToServer(c, Selecting(c, r.yiaddr))

Granted(c, r) ==
    /\ client[c].state \in {"REQUESTING", "RENEWING"}
    /\ r.mac = c /\ r.type = "ACK"

(* The lease counts from when the client asked for it. *)
HearAck(c) ==
    \E r \in air :
        /\ Granted(c, r) /\ r.yiaddr \notin Squatted
        /\ Become(c, [state |-> "BOUND", ip |-> r.yiaddr, asked_at |-> 0,
                      until |-> client[c].asked_at + lease_time])
        /\ StopWaiting(c)

FindSquatted(c) ==
    \E r \in air :
        /\ Granted(c, r) /\ r.yiaddr \in Squatted
        /\ Become(c, Idle)
        /\ SendToServer(c, Declining(c, r.yiaddr))

HearNak(c) ==
    /\ client[c].state \in {"REQUESTING", "RENEWING"}
    /\ \E r \in air : r.mac = c /\ r.type = "NAK"
    /\ Become(c, Idle)
    /\ StopWaiting(c)

Expire(c) ==
    /\ client[c].state \in Bound /\ ~Holds(c)
    /\ Become(c, Idle)
    /\ StopWaiting(c)

(* For the first time, or again. *)
Renew(c) ==
    /\ client[c].state \in Bound /\ Holds(c)
    /\ client[c].state = "RENEWING" => MayGiveUp(c)
    /\ client[c].until < now + lease_time
    /\ Become(c, [client[c] EXCEPT !.state = "RENEWING", !.asked_at = now])
    /\ SendToServer(c, Renewing(c, client[c].ip))

Reboot(c) ==
    /\ c \in Leaving
    /\ client[c].state = "BOUND"
    /\ Become(c, [state |-> "REQUESTING", ip |-> client[c].ip, asked_at |-> now, until |-> 0])
    /\ SendToServer(c, Rebooting(c, client[c].ip))

Leave(c) ==
    /\ c \in Leaving
    /\ client[c].state = "BOUND" /\ Holds(c)
    /\ Become(c, Idle)
    /\ SendToServer(c, Releasing(c, client[c].ip))

ClientStep(c) ==
    \/ Discover(c) \/ Timeout(c)
    \/ HearOffer(c) \/ HearAck(c) \/ FindSquatted(c) \/ HearNak(c)
    \/ Expire(c) \/ Renew(c) \/ Reboot(c) \/ Leave(c)

-----------------------------------------------------------------------------
(***************************************************************************)
(* The server, on the wire.  A message may be delivered again later.       *)
(***************************************************************************)
EndsLease(p) == p.type \in {"RELEASE", "DECLINE"}

(* Mutant: an answer is taken to come where none does. *)
BugReceive(m) ==
    /\ decide(m.packet)
    /\ wire' \in {wire, wire \ {m}}
    /\ echoes' = m.current
    /\ undone' = IF EndsLease(m.packet) /\ ~m.current
                 THEN undone \cup ({m.packet.mac} \cap DOMAIN promise) ELSE undone
    /\ UNCHANGED <<client, air, crashes>>

Receive(m) ==
    /\ decide(m.packet)
    /\ wire' \in {wire, wire \ {m}}
    /\ echoes' = (m.current /\ reply' # NoReply)
    /\ undone' = IF EndsLease(m.packet) /\ ~m.current
                 THEN undone \cup ({m.packet.mac} \cap DOMAIN promise) ELSE undone
    /\ UNCHANGED <<client, air, crashes>>

(* Mutants: the transaction id is not echoed; it is that of the exchange   *)
(* the client is in, whatever message is answered.                         *)
bug_base_reply(r) ==
    [type |-> r.type, mac |-> r.mac, yiaddr |-> r.yiaddr, current |-> FALSE]

bug_xid(r) ==
    [type |-> r.type, mac |-> r.mac, yiaddr |-> r.yiaddr, current |-> TRUE]

(* The fields of the reply that a client looks at: its transaction id and  *)
(* hardware address are those of the request.                              *)
base_reply(r) ==
    [type |-> r.type, mac |-> r.mac, yiaddr |-> r.yiaddr, current |-> echoes]

Awaited(r) == r.current /\ r.mac \in Client /\ client[r.mac].state \in Waiting

(* A broadcast reaches everyone, a unicast the host that uses the address. *)
Reaches(c, dst) == dst = Broadcast \/ (Holds(c) /\ client[c].ip = dst)

(* A new promise: the client's lease is what it believes again, if it      *)
(* does not hear of a refusal first.                                       *)
Refused(c) == \E r \in air : r.mac = c /\ r.type = "NAK"

Renewed ==
    IF reply.type = "ACK" /\ echoes /\ ~Refused(reply.mac) THEN undone \ {reply.mac} ELSE undone

SendHeard ==
    /\ Send
    /\ Awaited(base_reply(reply)) /\ Reaches(reply.mac, reply.dst)
    /\ air' = air \cup {base_reply(reply)}
    /\ echoes' = FALSE /\ undone' = Renewed
    /\ UNCHANGED <<wire, client, crashes>>

SendLost ==
    /\ Send
    /\ echoes' = FALSE /\ undone' = Renewed
    /\ UNCHANGED <<wire, air, client, crashes>>

Local == EnterRecv \/ RecvTimeout \/ Save \/ SaveFails \/ NothingToSweep \/ Sweep

ServerStep ==
    \/ Local /\ UNCHANGED <<client, network_vars, crashes, undone>>
    \/ \E m \in wire : Receive(m)
    \/ SendHeard \/ SendLost

ServerStart == Start /\ UNCHANGED <<client, network_vars, crashes, undone>>

ServerCrash ==
    /\ crashes < MaxCrashes
    /\ Crash
    /\ crashes' = crashes + 1
    /\ echoes' = FALSE
    /\ UNCHANGED <<client, wire, air, undone>>

TimePasses == Tick /\ UNCHANGED <<client, network_vars, crashes, undone>>

LanNext ==
    \/ \E c \in Client : ClientStep(c)
    \/ ServerStep \/ ServerStart \/ ServerCrash
    \/ Lose \/ TimePasses

LanSpec == LanInit /\ [][LanNext]_lan_vars

-----------------------------------------------------------------------------
(***************************************************************************)
(* Properties.                                                             *)
(***************************************************************************)
(* The type invariant of the clients and the network: clients that have an *)
(* address have a lease, replies under way answer clients that wait, and   *)
(* of each client one message at most is current.                          *)
LanTypeOK ==
    /\ client \in [Client -> ClientState]
    /\ \A c \in Client : client[c].state = "INIT" => client[c] = Idle
    /\ wire \subseteq [packet : ClientPackets, current : BOOLEAN]
    /\ \A m1, m2 \in wire : m1.current /\ m2.current /\ m1.packet.mac = m2.packet.mac => m1 = m2
    /\ air \subseteq [type : {"OFFER", "ACK", "NAK", "INFORM_ACK"}, mac : Client, yiaddr : Address,
                      current : {TRUE}]
    /\ \A r \in air : Awaited(r)
    /\ echoes \in BOOLEAN /\ (echoes => reply # NoReply)
    /\ crashes \in 0 .. MaxCrashes
    /\ undone \subseteq Client

(* Two hosts never use one address at a time, whatever the network and the *)
(* server go through, with one exception: a RELEASE or DECLINE that comes  *)
(* late ends the lease its sender was given since, because decide() drops  *)
(* the lease of the sender whatever it was sent for.                       *)
NoConflict ==
    \A c1, c2 \in Client \ undone :
        Holds(c1) /\ Holds(c2) /\ client[c1].ip = client[c2].ip => c1 = c2

(* What a client believes about its lease the server has promised: lost,   *)
(* repeated and late messages never leave a client with an address that    *)
(* the server has given up, or for longer.                                 *)
BeliefsPromised ==
    \A c \in Client \ undone :
        Holds(c) => /\ c \in DOMAIN promise
                    /\ promise[c].ip = client[c].ip
                    /\ promise[c].until >= client[c].until

Believers == {c \in Client \ undone : Holds(c)}

Beliefs == [c \in Believers |-> [ip |-> client[c].ip, until |-> client[c].until]]

Believed == INSTANCE Tenancy WITH
    Tenants <- Client, Addresses <- Pool \cup StaticIps, term <- lease_time,
    tenancy <- Beliefs

(* At the other end of the network the leases are tenancies as well: a     *)
(* client gets an address only when no other uses it, and keeps it for as  *)
(* long as it was told or renews, through crashes of the server and all    *)
(* the network does.                                                       *)
TenancyBelieved == Believed!Spec

(* A client that renews in time is never refused, whatever the messages of *)
(* others and its own late ones did meanwhile, unless they ended its lease *)
(* as above.                                                               *)
NoEviction ==
    \A r \in air :
        r.type = "NAK" /\ client[r.mac].state = "RENEWING" /\ Holds(r.mac)
            => r.mac \in undone

-----------------------------------------------------------------------------
(***************************************************************************)
(* Liveness.  The process runs and is restarted (Restart=on-failure in     *)
(* packaging/nanodhcp.service).  An eager client keeps trying; of its      *)
(* messages of one kind, and of the replies to them, the network lets some *)
(* through, and it repeats none for ever.  Other clients do as they like.  *)
(***************************************************************************)
ReceiveFrom(c, type) ==
    \E m \in From(c) :
        /\ m.current /\ m.packet.type = type
        /\ Receive(m)
        /\ wire' = wire \ {m}

HeardBy(c, type) == reply.type = type /\ reply.mac = c /\ SendHeard

ClientFairness(c) ==
    /\ WF_lan_vars(ClientStep(c))
    /\ \A type \in {"DISCOVER", "REQUEST", "DECLINE"} : SF_lan_vars(ReceiveFrom(c, type))
    /\ \A type \in {"OFFER", "ACK"} : SF_lan_vars(HeardBy(c, type))

LanFairness ==
    /\ WF_lan_vars(ServerStep) /\ WF_lan_vars(ServerStart)
    /\ \A c \in Eager : ClientFairness(c)

LanFairSpec == LanSpec /\ LanFairness

(* An eager client gets an address in the end, though an offer reserves    *)
(* nothing, another client may be given the address first, and the first   *)
(* address may be in use by others: a refusal and a declined address lead  *)
(* to another one (decide, quarantine).                                    *)
Served == \A c \in Eager : client[c].state = "SELECTING" ~> Holds(c)

=============================================================================
