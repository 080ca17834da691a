------------------------------- MODULE LanProofs -------------------------------
(***************************************************************************)
(* What the clients at the other end of the network can rely on, proved    *)
(* for any number of clients, every configuration and every bound on the   *)
(* messages under way, under NoFaults: the server may crash and restart at *)
(* any step, but its saves and loads succeed and its clock does not go     *)
(* back.                                                                   *)
(***************************************************************************)
EXTENDS Lan, PromiseProofs

-----------------------------------------------------------------------------
(***************************************************************************)
(* The inductive invariant behind these properties, for a server whose     *)
(* saves and loads succeed and whose clock does not go back.               *)
(***************************************************************************)
(* Of the lease until that time, the server has promised what c counts on. *)
Backed(c, until) ==
    until > now /\ c \notin undone =>
        /\ c \in DOMAIN promise
        /\ promise[c].ip = client[c].ip
        /\ promise[c].until >= until

Asking == {"REQUESTING", "RENEWING"}

Acked(c) == client[c].ip \notin Squatted /\ \E r \in air : r.mac = c /\ r.type = "ACK"

(* A client counts on the lease it has, and will count on the one that an  *)
(* ACK on its way announces.                                               *)
LeasesBacked ==
    \A c \in Client :
        /\ client[c].state \in Bound => Backed(c, client[c].until)
        /\ Acked(c) => Backed(c, client[c].asked_at + lease_time)

ClientsFit ==
    \A c \in Client :
        /\ client[c].state \in Asking \cup Bound => client[c].ip \in Pool \cup StaticIps
        /\ client[c].state \in Asking => client[c].asked_at <= now
        /\ client[c].state \in Bound =>
              client[c].ip \notin Squatted /\ client[c].until <= now + lease_time
        /\ client[c].state = "RENEWING" => client[c].until <= client[c].asked_at + lease_time

(* A current message says what its sender waits for, or has been told.     *)
WireFits ==
    \A m \in wire :
        /\ m.packet.type = "DECLINE" => m.packet.requested_ip \in Squatted
        /\ LET c == client[m.packet.mac] IN
           m.current =>
               /\ c.state = "SELECTING" => m.packet.type = "DISCOVER"
               /\ c.state \in Asking \cup Bound =>
                     m.packet.type = "REQUEST" /\ Requested(m.packet) = c.ip

AirFits ==
    \A r \in air :
        /\ r.type \in {"OFFER", "ACK"} => r.yiaddr \in Pool \cup StaticIps
        /\ r.type = "ACK" => client[r.mac].state \in Asking /\ r.yiaddr = client[r.mac].ip

(* So does an answer that is being prepared for a current message.         *)
EchoFits ==
    echoes =>
        /\ reply.mac \in Client
        /\ LET c == client[reply.mac] IN
           /\ reply.type = "ACK" =>
                 /\ c.state # "SELECTING"
                 /\ c.state \in Asking \cup Bound => reply.yiaddr = c.ip
                 /\ c.state \in Asking => reply.until >= c.asked_at + lease_time
                 /\ c.state \in Bound => reply.until >= c.until
           /\ reply.type = "NAK" /\ c.state = "RENEWING" /\ Holds(reply.mac) =>
                 reply.mac \in undone

LanInv ==
    /\ LanTypeOK
    /\ DOMAIN declined \subseteq Squatted
    /\ ClientsFit
    /\ WireFits /\ AirFits /\ EchoFits
    /\ LeasesBacked
    /\ NoEviction

(* What is known of the server alone. *)
ServerInv == TenancyInv /\ QuarantineInv

LEMMA ServerInits == Init => ServerInv
BY LeaseInit, QuarantineInit DEF Init, ServerInv, TenancyInv, AckExtends, NoReply

LEMMA ServerKeeps == NoFaults /\ ServerInv /\ [Next]_vars => ServerInv'
<1>1. LeaseInv => TypeOK
  BY DEF LeaseInv
<1>2. LeaseInv' => TypeOK'
  BY DEF LeaseInv
<1> QED
  BY <1>1, <1>2, LeaseStep, AckExtendsStep, QuarantineStep DEF ServerInv, TenancyInv, Understood

LEMMA ServerTypes ==
    ASSUME ServerInv
    PROVE  /\ TypeOK /\ LeaseInv /\ TenancyInv /\ RepliesFit
           /\ now \in Nat /\ lease_time \in Nat \ {0}
           /\ \A c \in DOMAIN promise : promise[c].until \in Nat
           /\ reply.type \in {"OFFER", "ACK", "NAK", "INFORM_ACK"} =>
                 reply.mac \in Mac /\ reply.yiaddr \in Address /\ reply.until \in Nat
           /\ reply # NoReply => reply.type \in {"OFFER", "ACK", "NAK", "INFORM_ACK"}
           /\ NoReply.type = "NONE"
<1>1. TypeOK /\ LeaseInv /\ TenancyInv /\ RepliesFit
  BY DEF ServerInv, TenancyInv, LeaseInv, QuarantineInv
<1>2. \A c \in DOMAIN promise : promise[c].until \in Nat
  BY <1>1, EntryTypes DEF Promise
<1> QED
  BY <1>1, <1>2, ConfigFacts DEF TypeOK, Reply, NoReply

-----------------------------------------------------------------------------
(***************************************************************************)
(* Messages.                                                               *)
(***************************************************************************)
(* The fields of what clients send that the server or the network look at. *)
LEMMA Fields ==
    ASSUME NEW c, NEW ip \in Nat
    PROVE  /\ Discovering(c).mac = c /\ Discovering(c).type = "DISCOVER"
           /\ \A p \in {Selecting(c, ip), Rebooting(c, ip), Renewing(c, ip)} :
                 p.mac = c /\ p.type = "REQUEST" /\ Requested(p) = ip
           /\ Releasing(c, ip).mac = c /\ Releasing(c, ip).type = "RELEASE"
           /\ Declining(c, ip).mac = c /\ Declining(c, ip).type = "DECLINE"
           /\ Declining(c, ip).requested_ip = ip
           /\ \A p \in {Discovering(c), Selecting(c, ip), Rebooting(c, ip), Renewing(c, ip),
                        Releasing(c, ip), Declining(c, ip)} :
                 p.giaddr = UNSPECIFIED /\ p.server_id \in {NoIp, server_ip}
<1> ip # NoIp
  BY DEF NoIp
<1>1. /\ Discovering(c).mac = c /\ Discovering(c).type = "DISCOVER"
      /\ Discovering(c).giaddr = UNSPECIFIED /\ Discovering(c).server_id = NoIp
  BY DEF Discovering, Blank
<1>2. /\ Selecting(c, ip).mac = c /\ Selecting(c, ip).type = "REQUEST"
      /\ Selecting(c, ip).requested_ip = ip
      /\ Selecting(c, ip).giaddr = UNSPECIFIED /\ Selecting(c, ip).server_id = server_ip
  BY DEF Selecting, Blank
<1>3. /\ Rebooting(c, ip).mac = c /\ Rebooting(c, ip).type = "REQUEST"
      /\ Rebooting(c, ip).requested_ip = ip
      /\ Rebooting(c, ip).giaddr = UNSPECIFIED /\ Rebooting(c, ip).server_id = NoIp
  BY DEF Rebooting, Blank
<1>4. /\ Renewing(c, ip).mac = c /\ Renewing(c, ip).type = "REQUEST"
      /\ Renewing(c, ip).requested_ip = NoIp /\ Renewing(c, ip).ciaddr = ip
      /\ Renewing(c, ip).giaddr = UNSPECIFIED /\ Renewing(c, ip).server_id = NoIp
  BY DEF Renewing, Blank
<1>5. /\ Releasing(c, ip).mac = c /\ Releasing(c, ip).type = "RELEASE"
      /\ Releasing(c, ip).giaddr = UNSPECIFIED /\ Releasing(c, ip).server_id = server_ip
  BY DEF Releasing, Blank
<1>6. /\ Declining(c, ip).mac = c /\ Declining(c, ip).type = "DECLINE"
      /\ Declining(c, ip).requested_ip = ip
      /\ Declining(c, ip).giaddr = UNSPECIFIED /\ Declining(c, ip).server_id = server_ip
  BY DEF Declining, Blank
<1> QED
  BY <1>1, <1>2, <1>3, <1>4, <1>5, <1>6 DEF Requested

LEMMA LanAddresses == Pool \cup StaticIps \subseteq Nat \ {0}
BY ConfigFacts DEF Pool, StaticIps, Address

(* Clients send nothing else. *)
LEMMA PacketIs ==
    ASSUME NEW p \in ClientPackets
    PROVE  /\ p.mac \in Client /\ p \in Packets /\ p.giaddr = UNSPECIFIED
           /\ p.server_id \in {NoIp, server_ip}
           /\ p.type \in {"DISCOVER", "REQUEST", "RELEASE", "DECLINE"}
           /\ p.type = "DECLINE" => p.requested_ip # NoIp
<1>1. PICK c \in Client :
         \/ p = Discovering(c)
         \/ \E ip \in Pool \cup StaticIps :
               p \in {Selecting(c, ip), Rebooting(c, ip), Renewing(c, ip), Releasing(c, ip),
                      Declining(c, ip)}
  BY DEF ClientPackets
<1>2. p \in Packets
  BY LanConstants
<1>3. CASE p = Discovering(c)
  BY <1>2, <1>3, Fields
<1>4. ASSUME NEW ip \in Pool \cup StaticIps,
             p \in {Selecting(c, ip), Rebooting(c, ip), Renewing(c, ip), Releasing(c, ip),
                    Declining(c, ip)}
      PROVE  /\ p.mac \in Client /\ p.giaddr = UNSPECIFIED
             /\ p.server_id \in {NoIp, server_ip}
             /\ p.type \in {"REQUEST", "RELEASE", "DECLINE"}
             /\ p.type = "DECLINE" => p.requested_ip # NoIp
  <2>1. ip \in Nat /\ ip # NoIp
    BY LanAddresses DEF NoIp
  <2> QED
    BY <1>4, <2>1, Fields
<1> QED
  BY <1>1, <1>2, <1>3, <1>4

LEMMA Sendable ==
    ASSUME NEW c \in Client, NEW ip \in Pool \cup StaticIps
    PROVE  /\ ip \in Nat
           /\ {Discovering(c), Selecting(c, ip), Rebooting(c, ip), Renewing(c, ip),
               Releasing(c, ip), Declining(c, ip)} \subseteq ClientPackets
<1> DEFINE About(x, i) == {Selecting(x, i), Rebooting(x, i), Renewing(x, i), Releasing(x, i),
                           Declining(x, i)}
           Of(x) == {Discovering(x)} \cup UNION {About(x, i) : i \in Pool \cup StaticIps}
<1>1. ip \in Nat
  BY LanAddresses
<1>2. ClientPackets = UNION {Of(x) : x \in Client}
  BY DEF ClientPackets
<1>3. Discovering(c) \in Of(c) /\ About(c, ip) \subseteq Of(c)
  <2> HIDE DEF About
  <2> QED
    OBVIOUS
<1>4. Of(c) \subseteq ClientPackets
  <2> HIDE DEF Of
  <2> QED
    BY <1>2
<1> QED
  BY <1>1, <1>3, <1>4

(* Every step of the composition is a step of the server, or leaves it     *)
(* alone.                                                                  *)
LEMMA StepsOfServer == ASSUME LanTypeOK, [LanNext]_lan_vars PROVE [Next]_vars
<1>1. \A c \in Client : ClientStep(c) => UNCHANGED vars
  BY DEF ClientStep, Discover, Timeout, HearOffer, HearAck, FindSquatted, HearNak, Expire, Renew,
         Reboot, Leave, Become
<1>2. \A m \in wire : Receive(m) => Handle
  BY PacketIs DEF Receive, Handle, LanTypeOK
<1>3. ServerStep => Next
  BY <1>2 DEF ServerStep, Local, SendHeard, SendLost, Next, LoopStep
<1>4. ServerStart \/ ServerCrash \/ TimePasses => Next
  BY DEF ServerStart, ServerCrash, TimePasses, Next, Environment
<1> QED
  BY <1>1, <1>3, <1>4 DEF LanNext, Lose, lan_vars

-----------------------------------------------------------------------------
(***************************************************************************)
(* The clients.  A client becomes what it is after a step, its older       *)
(* messages outdated, the answers to them of no interest.                  *)
(***************************************************************************)
RecordFits(record) ==
    /\ record \in ClientState
    /\ record.state = "INIT" => record = Idle
    /\ record.state \in Asking \cup Bound => record.ip \in Pool \cup StaticIps
    /\ record.state \in Asking => record.asked_at <= now
    /\ record.state \in Bound => record.ip \notin Squatted /\ record.until <= now + lease_time
    /\ record.state = "RENEWING" => record.until <= record.asked_at + lease_time

(* The same lease, for a client that is about to have that record. *)
RecordBacked(c, record) ==
    record.state \in Bound /\ record.until > now /\ c \notin undone =>
        /\ c \in DOMAIN promise
        /\ promise[c].ip = record.ip
        /\ promise[c].until >= record.until

(* A message a client with that record may have on the wire. *)
MessageFits(m, record) ==
    /\ m.packet.type = "DECLINE" => m.packet.requested_ip \in Squatted
    /\ m.current =>
          /\ record.state = "SELECTING" => m.packet.type = "DISCOVER"
          /\ record.state \in Asking \cup Bound =>
                m.packet.type = "REQUEST" /\ Requested(m.packet) = record.ip

WireMoves(c, record) ==
    /\ wire' \subseteq [packet : ClientPackets, current : BOOLEAN]
    /\ \A m \in wire' : m.packet.mac = c => MessageFits(m, record)
    /\ \A m \in wire' : m.packet.mac # c => m \in wire
    /\ \A m1, m2 \in wire' :
          m1.current /\ m2.current /\ m1.packet.mac = c /\ m2.packet.mac = c => m1 = m2

LEMMA ClientMove ==
    ASSUME LanInv, NEW c \in Client, NEW record,
           Become(c, record), Forget(c),
           RecordFits(record), RecordBacked(c, record), WireMoves(c, record)
    PROVE  LanInv'
<1>1. /\ UNCHANGED <<now, reply, promise, declined, crashes, undone>>
      /\ client' = [client EXCEPT ![c] = record]
      /\ air' = {r \in air : r.mac # c}
      /\ echoes' = (echoes /\ reply.mac # c)
  BY DEF Become, Forget, vars
<1>2. /\ client \in [Client -> ClientState]
      /\ wire \subseteq [packet : ClientPackets, current : BOOLEAN]
      /\ air \subseteq [type : {"OFFER", "ACK", "NAK", "INFORM_ACK"}, mac : Client,
                        yiaddr : Address, current : {TRUE}]
      /\ \A r \in air : Awaited(r)
  BY DEF LanInv, LanTypeOK
<1>3. /\ client' \in [Client -> ClientState]
      /\ client'[c] = record
      /\ \A x \in Client \ {c} : client'[x] = client[x]
  BY <1>1, <1>2 DEF RecordFits
<1>4. \A m \in wire : m.packet.mac \in Client
  BY <1>2, PacketIs
<1>5. \A r \in air' : r \in air /\ r.mac \in Client \ {c}
  BY <1>1, <1>2
<1> HIDE DEF Become, Forget
<1>6. LanTypeOK'
  <2>1. \A x \in Client : client'[x].state = "INIT" => client'[x] = Idle
    BY <1>3 DEF LanInv, LanTypeOK, RecordFits
  <2>2. wire' \subseteq [packet : ClientPackets, current : BOOLEAN]
    BY DEF WireMoves
  <2>3. \A m1, m2 \in wire' :
           m1.current /\ m2.current /\ m1.packet.mac = m2.packet.mac => m1 = m2
    BY DEF WireMoves, LanInv, LanTypeOK
  <2>4. \A r \in air' : Awaited(r)'
    BY <1>2, <1>3, <1>5 DEF Awaited
  <2>5. echoes' \in BOOLEAN /\ (echoes' => reply' # NoReply)
    BY <1>1 DEF LanInv, LanTypeOK
  <2>6. air' \subseteq [type : {"OFFER", "ACK", "NAK", "INFORM_ACK"}, mac : Client,
                        yiaddr : Address, current : {TRUE}]
    BY <1>1, <1>2
  <2>7. crashes' \in 0 .. MaxCrashes /\ undone' \subseteq Client
    BY <1>1 DEF LanInv, LanTypeOK
  <2> QED
    BY <1>3, <2>1, <2>2, <2>3, <2>4, <2>5, <2>6, <2>7 DEF LanTypeOK
<1>7. ClientsFit'
  BY <1>1, <1>3 DEF LanInv, ClientsFit, RecordFits
<1>8. WireFits'
  <2> SUFFICES ASSUME NEW m \in wire' PROVE MessageFits(m, client'[m.packet.mac])
    BY DEF WireFits, MessageFits
  <2>1. CASE m.packet.mac = c
    BY <1>3, <2>1 DEF WireMoves
  <2>2. CASE m.packet.mac # c
    <3>1. m \in wire /\ m.packet.mac \in Client \ {c}
      BY <1>4, <2>2 DEF WireMoves
    <3>2. MessageFits(m, client[m.packet.mac])
      BY <3>1 DEF LanInv, WireFits, MessageFits
    <3> QED
      BY <1>3, <3>1, <3>2
  <2> QED
    BY <2>1, <2>2
<1>9. AirFits' /\ NoEviction'
  BY <1>1, <1>3, <1>5 DEF LanInv, AirFits, NoEviction, Holds
<1>10. EchoFits'
  <2> SUFFICES ASSUME echoes' PROVE EchoFits'
    BY DEF EchoFits
  <2>1. echoes /\ reply.mac \in Client \ {c} /\ reply' = reply
    BY <1>1 DEF LanInv, EchoFits
  <2>2. client'[reply.mac] = client[reply.mac] /\ now' = now /\ undone' = undone
    BY <1>1, <1>3, <2>1
  <2> QED
    BY <2>1, <2>2 DEF LanInv, EchoFits, Holds
<1>11. LeasesBacked'
  <2> SUFFICES ASSUME NEW x \in Client
               PROVE  /\ client'[x].state \in Bound => Backed(x, client[x].until)'
                      /\ Acked(x)' => Backed(x, client[x].asked_at + lease_time)'
    BY DEF LeasesBacked
  <2>1. CASE x = c
    <3>1. ~Acked(c)'
      BY <1>5 DEF Acked
    <3> QED
      BY <1>1, <1>3, <2>1, <3>1 DEF RecordBacked, Backed
  <2>2. CASE x # c
    <3>1. client'[x] = client[x] /\ (Acked(x)' => Acked(x))
      BY <1>3, <1>5, <2>2 DEF Acked
    <3> QED
      BY <1>1, <3>1 DEF LanInv, LeasesBacked, Backed
  <2> QED
    BY <2>1, <2>2
<1> QED
  BY <1>1, <1>6, <1>7, <1>8, <1>9, <1>10, <1>11 DEF LanInv

(* Sending a message to the server. *)
LEMMA Sending ==
    ASSUME LanInv, NEW c \in Client, NEW packet \in ClientPackets, NEW record,
           packet.mac = c, SendToServer(c, packet),
           MessageFits([packet |-> packet, current |-> TRUE], record)
    PROVE  Forget(c) /\ WireMoves(c, record)
<1> DEFINE new == [packet |-> packet, current |-> TRUE]
           Old(m) == [packet |-> m.packet, current |-> FALSE]
           Messages == [packet : ClientPackets, current : BOOLEAN]
<1>1. Forget(c)
  BY DEF SendToServer
<1>2. PICK kept \in SUBSET {Old(m) : m \in From(c)} :
         wire' = (wire \ From(c)) \cup kept \cup {new}
  BY DEF SendToServer
<1>3. wire \subseteq Messages
  BY DEF LanInv, LanTypeOK
<1>4. ASSUME NEW m \in From(c)
      PROVE  Old(m) \in Messages /\ Old(m).packet.mac = c /\ MessageFits(Old(m), record)
  <2>1. m \in wire /\ m.packet.mac = c /\ m \in Messages
    BY <1>3 DEF From
  <2>2. m.packet.type = "DECLINE" => m.packet.requested_ip \in Squatted
    BY <2>1 DEF LanInv, WireFits
  <2>3. Old(m) \in Messages
    BY <2>1
  <2> QED
    BY <2>1, <2>2, <2>3 DEF MessageFits
<1>5. \A m \in From(c) : ~Old(m).current
  OBVIOUS
<1> HIDE DEF Old
<1>6. \A m \in kept : m \in Messages /\ m.packet.mac = c /\ ~m.current /\ MessageFits(m, record)
  BY <1>2, <1>4, <1>5
<1>7. \A m \in wire \ From(c) : m \in Messages /\ m.packet.mac # c
  BY <1>3 DEF From
<1>8. new \in Messages /\ new.packet.mac = c /\ MessageFits(new, record)
  OBVIOUS
<1> HIDE DEF new
<1>9. WireMoves(c, record)
  BY <1>2, <1>6, <1>7, <1>8 DEF WireMoves
<1> QED
  BY <1>1, <1>9

(* Sending nothing, and starting over or using the address asked for. *)
LEMMA NotSending ==
    ASSUME LanInv, NEW c \in Client, NEW record, StopWaiting(c),
           \/ record.state = "INIT"
           \/ client[c].state \in Asking /\ record.state = "BOUND" /\ record.ip = client[c].ip
    PROVE  Forget(c) /\ WireMoves(c, record)
<1>1. Forget(c) /\ wire' = wire
  BY DEF StopWaiting
<1>2. ASSUME NEW m \in wire, m.packet.mac = c PROVE MessageFits(m, record)
  BY <1>2 DEF LanInv, WireFits, MessageFits, Asking, Bound
<1>3. WireMoves(c, record)
  BY <1>1, <1>2 DEF LanInv, LanTypeOK, WireMoves
<1> QED
  BY <1>1, <1>3

LEMMA IdleFits == RecordFits(Idle) /\ \A c : RecordBacked(c, Idle)
BY DEF RecordFits, RecordBacked, Idle, ClientState, Waiting, Asking, Bound, UNSPECIFIED, Address

LEMMA ClientKeeps ==
    ASSUME ServerInv, LanInv, NEW c \in Client, ClientStep(c)
    PROVE  LanInv'
<1> DEFINE lease == client[c]
           Usable_ip == Pool \cup StaticIps
<1>1. now \in Nat /\ lease_time \in Nat \ {0}
  BY ServerTypes
<1>2. /\ lease \in ClientState
      /\ lease.state \in Asking \cup Bound => lease.ip \in Usable_ip
      /\ lease.state \in Asking => lease.asked_at <= now
      /\ lease.state \in Bound => lease.ip \notin Squatted /\ lease.until <= now + lease_time
      /\ lease.state = "RENEWING" => lease.until <= lease.asked_at + lease_time
  BY DEF LanInv, LanTypeOK, ClientsFit
<1>3. Usable_ip \subseteq Address /\ Usable_ip \subseteq Nat
  BY ConfigFacts DEF Pool, StaticIps, Address
<1>4. ASSUME Become(c, Idle), StopWaiting(c) PROVE LanInv'
  BY <1>4, ClientMove, NotSending, IdleFits DEF Idle
<1>5. ASSUME NEW packet \in ClientPackets, Become(c, Idle), SendToServer(c, packet),
             packet.mac = c, packet.type = "DECLINE" => packet.requested_ip \in Squatted
      PROVE  LanInv'
  <2>1. MessageFits([packet |-> packet, current |-> TRUE], Idle)
    BY <1>5 DEF MessageFits, Idle, Asking, Bound
  <2> QED
    BY <1>5, <2>1, ClientMove, Sending, IdleFits
<1>6. CASE Discover(c)
  <2> DEFINE record == [Idle EXCEPT !.state = "SELECTING"]
  <2>1. /\ record = [state |-> "SELECTING", ip |-> UNSPECIFIED, asked_at |-> 0, until |-> 0]
        /\ record.state = "SELECTING"
    BY DEF Idle
  <2>2. RecordFits(record) /\ RecordBacked(c, record)
    BY <2>1 DEF RecordFits, RecordBacked, ClientState, Waiting, Asking, Bound, UNSPECIFIED, Address
  <2>3. Discovering(c) \in ClientPackets
    BY DEF ClientPackets
  <2>4. Discovering(c).mac = c /\ Discovering(c).type = "DISCOVER"
    BY DEF Discovering, Blank
  <2>5. MessageFits([packet |-> Discovering(c), current |-> TRUE], record)
    BY <2>1, <2>4 DEF MessageFits, Asking, Bound
  <2> HIDE DEF record
  <2> QED
    BY <1>6, <2>2, <2>3, <2>4, <2>5, ClientMove, Sending DEF Discover, record
<1>7. CASE Timeout(c) \/ HearNak(c) \/ Expire(c)
  BY <1>4, <1>7 DEF Timeout, HearNak, Expire
<1>8. CASE HearOffer(c)
  <2>1. PICK r \in air :
           /\ r.type = "OFFER"
           /\ Become(c, [state |-> "REQUESTING", ip |-> r.yiaddr, asked_at |-> now, until |-> 0])
           /\ SendToServer(c, Selecting(c, r.yiaddr))
    BY <1>8 DEF HearOffer
  <2> DEFINE record == [state |-> "REQUESTING", ip |-> r.yiaddr, asked_at |-> now, until |-> 0]
             packet == Selecting(c, r.yiaddr)
  <2>2. r.yiaddr \in Usable_ip
    BY <2>1 DEF LanInv, AirFits
  <2>3. RecordFits(record) /\ RecordBacked(c, record)
    BY <1>1, <1>3, <2>2 DEF RecordFits, RecordBacked, ClientState, Waiting, Asking, Bound
  <2>4. packet \in ClientPackets /\ packet.mac = c
        /\ packet.type = "REQUEST" /\ Requested(packet) = r.yiaddr
    BY <1>3, <2>2, Sendable, Fields
  <2>5. MessageFits([packet |-> packet, current |-> TRUE], record)
    <3> HIDE DEF packet
    <3> QED
      BY <2>4 DEF MessageFits
  <2> HIDE DEF packet, record
  <2> QED
    BY <2>1, <2>3, <2>4, <2>5, ClientMove, Sending DEF packet, record
<1>9. CASE HearAck(c)
  <2>1. PICK r \in air :
           /\ Granted(c, r) /\ r.yiaddr \notin Squatted
           /\ Become(c, [state |-> "BOUND", ip |-> r.yiaddr, asked_at |-> 0,
                         until |-> lease.asked_at + lease_time])
           /\ StopWaiting(c)
    BY <1>9 DEF HearAck
  <2> DEFINE record == [state |-> "BOUND", ip |-> r.yiaddr, asked_at |-> 0,
                        until |-> lease.asked_at + lease_time]
  <2>2. r.mac = c /\ r.type = "ACK" /\ lease.state \in Asking /\ r.yiaddr = lease.ip
    BY <2>1 DEF Granted, LanInv, AirFits
  <2>3. lease.asked_at \in Nat /\ lease.asked_at <= now
    BY <1>2, <2>2 DEF ClientState
  <2>4. RecordFits(record)
    BY <1>1, <1>2, <1>3, <2>1, <2>2, <2>3 DEF RecordFits, ClientState, Waiting, Asking, Bound
  <2>5. Backed(c, lease.asked_at + lease_time)
    BY <2>1, <2>2 DEF LanInv, LeasesBacked, Acked
  <2>6. RecordBacked(c, record)
    BY <2>2, <2>5 DEF RecordBacked, Backed
  <2>7. record.state = "BOUND" /\ record.ip = lease.ip
    BY <2>2
  <2> HIDE DEF record, lease
  <2> QED
    BY <2>1, <2>2, <2>4, <2>6, <2>7, ClientMove, NotSending DEF record, lease
<1>10. CASE FindSquatted(c)
  <2>1. PICK r \in air :
           /\ Granted(c, r) /\ r.yiaddr \in Squatted
           /\ Become(c, Idle) /\ SendToServer(c, Declining(c, r.yiaddr))
    BY <1>10 DEF FindSquatted
  <2>2. r.yiaddr \in Usable_ip
    BY <2>1 DEF Granted, LanInv, AirFits
  <2>3. /\ Declining(c, r.yiaddr) \in ClientPackets /\ Declining(c, r.yiaddr).mac = c
        /\ Declining(c, r.yiaddr).requested_ip = r.yiaddr
    BY <1>3, <2>2, Sendable, Fields
  <2> QED
    BY <1>5, <2>1, <2>3
<1>11. CASE Renew(c)
  <2> DEFINE record == [lease EXCEPT !.state = "RENEWING", !.asked_at = now]
             packet == Renewing(c, lease.ip)
  <2>1. /\ lease.state \in Bound /\ lease.until > now /\ lease.until < now + lease_time
        /\ Become(c, record) /\ SendToServer(c, packet)
    BY <1>11 DEF Renew, Holds
  <2>2. /\ record \in ClientState /\ record.state = "RENEWING" /\ record.asked_at = now
        /\ record.ip = lease.ip /\ record.until = lease.until
    BY <1>1, <1>2 DEF ClientState, Waiting
  <2>3. lease.ip \in Usable_ip /\ lease.until \in Nat
    BY <1>2, <2>1 DEF ClientState
  <2>4. packet \in ClientPackets /\ packet.mac = c
        /\ packet.type = "REQUEST" /\ Requested(packet) = lease.ip
    BY <1>3, <2>3, Sendable, Fields
  <2> HIDE DEF record, packet
  <2>5. RecordFits(record)
    BY <1>1, <1>2, <2>1, <2>2, <2>3 DEF RecordFits, Asking, Bound
  <2>6. RecordBacked(c, record)
    BY <2>1, <2>2 DEF RecordBacked, LanInv, LeasesBacked, Backed
  <2>7. MessageFits([packet |-> packet, current |-> TRUE], record)
    BY <2>2, <2>4 DEF MessageFits
  <2> QED
    BY <2>1, <2>4, <2>5, <2>6, <2>7, ClientMove, Sending
<1>12. CASE Reboot(c)
  <2> DEFINE record == [state |-> "REQUESTING", ip |-> lease.ip, asked_at |-> now, until |-> 0]
             packet == Rebooting(c, lease.ip)
  <2>1. lease.state = "BOUND" /\ Become(c, record) /\ SendToServer(c, packet)
    BY <1>12 DEF Reboot
  <2>2. record.state = "REQUESTING" /\ record.ip = lease.ip
    OBVIOUS
  <2>3. lease.ip \in Usable_ip
    BY <1>2, <2>1 DEF Bound
  <2>4. RecordFits(record) /\ RecordBacked(c, record)
    BY <1>1, <1>3, <2>3 DEF RecordFits, RecordBacked, ClientState, Waiting, Asking, Bound
  <2>5. packet \in ClientPackets /\ packet.mac = c
        /\ packet.type = "REQUEST" /\ Requested(packet) = lease.ip
    BY <1>3, <2>3, Sendable, Fields
  <2> HIDE DEF record, packet
  <2>6. MessageFits([packet |-> packet, current |-> TRUE], record)
    BY <2>2, <2>5 DEF MessageFits
  <2> QED
    BY <2>1, <2>4, <2>5, <2>6, ClientMove, Sending
<1>13. CASE Leave(c)
  <2>1. lease.state = "BOUND" /\ Become(c, Idle) /\ SendToServer(c, Releasing(c, lease.ip))
    BY <1>13 DEF Leave
  <2>2. lease.ip \in Usable_ip
    BY <1>2, <2>1 DEF Bound
  <2>3. /\ Releasing(c, lease.ip) \in ClientPackets /\ Releasing(c, lease.ip).mac = c
        /\ Releasing(c, lease.ip).type = "RELEASE"
    BY <1>3, <2>2, Sendable, Fields
  <2> QED
    BY <1>5, <2>1, <2>3
<1> QED
  BY <1>6, <1>7, <1>8, <1>9, <1>10, <1>11, <1>12, <1>13 DEF ClientStep

-----------------------------------------------------------------------------
(***************************************************************************)
(* The server.                                                             *)
(***************************************************************************)
(* A client that counts on its lease, or is about to. *)
CountsOn(c) ==
    /\ c \in Client \ undone
    /\ client[c].state \in Asking \cup Bound
    /\ client[c].ip \notin Squatted
    /\ Outstanding(c) /\ promise[c].ip = client[c].ip

LEMMA Counting ==
    ASSUME ServerInv, LanInv, NEW c \in Client \ undone, NEW until, until > now,
           \/ client[c].state \in Bound /\ until = client[c].until
           \/ Acked(c) /\ until = client[c].asked_at + lease_time
    PROVE  CountsOn(c) /\ promise[c].until >= until
<1>1. /\ now \in Nat /\ lease_time \in Nat
      /\ \A x \in DOMAIN promise : promise[x].until \in Nat
      /\ client[c].until \in Nat /\ client[c].asked_at \in Nat
  BY ServerTypes DEF LanInv, LanTypeOK, ClientState
<1>2. Acked(c) => client[c].state \in Asking /\ client[c].ip \notin Squatted
  BY DEF Acked, LanInv, AirFits
<1>3. client[c].state \in Bound => client[c].ip \notin Squatted
  BY DEF LanInv, ClientsFit
<1>4. Backed(c, until)
  BY DEF LanInv, LeasesBacked
<1> QED
  BY <1>1, <1>2, <1>3, <1>4 DEF Backed, CountsOn, Outstanding

(* Such a client the server would give the same address again. *)
LEMMA Honoured ==
    ASSUME ServerInv, LanInv, pc = "recv", NEW c, CountsOn(c)
    PROVE  assign_ip(by_mac, declined, c, now) = client[c].ip
<1>1. RenewalHonoured
  BY ServerTypes, InvRenewalHonoured
<1>2. ~IsQuarantined(declined, promise[c].ip, now)
  BY DEF LanInv, CountsOn, IsQuarantined
<1> QED
  BY <1>1, <1>2 DEF RenewalHonoured, CountsOn, Outstanding

(* Steps that leave the clients and what is on its way to them alone.      *)
LEMMA LanFrame ==
    ASSUME LanInv,
           UNCHANGED <<client, air, now>>, wire' \subseteq wire,
           echoes' \in BOOLEAN, echoes' => reply' # NoReply,
           crashes' \in 0 .. MaxCrashes,
           undone \subseteq undone', undone' \subseteq Client,
           DOMAIN declined' \subseteq Squatted,
           EchoFits', LeasesBacked'
    PROVE  LanInv'
<1>1. LanTypeOK'
  BY DEF LanInv, LanTypeOK, Awaited
<1>2. ClientsFit' /\ WireFits' /\ AirFits'
  BY DEF LanInv, ClientsFit, WireFits, AirFits
<1>3. NoEviction'
  BY DEF LanInv, NoEviction, Holds
<1> QED
  BY <1>1, <1>2, <1>3 DEF LanInv

LEMMA QuietKeeps ==
    ASSUME LanInv, UNCHANGED <<client, air, now, promise, undone>>, wire' \subseteq wire,
           \/ UNCHANGED <<echoes, reply, crashes>>
           \/ echoes' = FALSE /\ crashes' \in 0 .. MaxCrashes,
           DOMAIN declined' \subseteq DOMAIN declined
    PROVE  LanInv'
<1>1. EchoFits' /\ LeasesBacked'
  BY DEF LanInv, EchoFits, LeasesBacked, Backed, Acked, Holds
<1>2. undone' \subseteq Client /\ DOMAIN declined' \subseteq Squatted
  BY DEF LanInv, LanTypeOK
<1>3. echoes \in BOOLEAN /\ (echoes => reply # NoReply) /\ crashes \in 0 .. MaxCrashes
  BY DEF LanInv, LanTypeOK
<1>4. echoes' \in BOOLEAN /\ (echoes' => reply' # NoReply) /\ crashes' \in 0 .. MaxCrashes
  <2>1. CASE UNCHANGED <<echoes, reply, crashes>>
    BY <1>3, <2>1
  <2>2. CASE echoes' = FALSE /\ crashes' \in 0 .. MaxCrashes
    BY <2>2, Zenon
  <2> QED
    BY <2>1, <2>2
<1> QED
  BY <1>1, <1>2, <1>4, LanFrame

LEMMA LocalKeeps == ASSUME LanInv, Local \/ Start, UNCHANGED <<client, network_vars, crashes, undone>> PROVE LanInv'
<1>1. UNCHANGED <<now, reply, promise>>
  BY DEF Local, EnterRecv, RecvTimeout, Save, SaveFails, NothingToSweep, Sweep, Start, StartWith,
         history
<1>2. DOMAIN declined' \subseteq DOMAIN declined
  BY DEF Local, EnterRecv, RecvTimeout, Save, SaveFails, NothingToSweep, Sweep, Start, StartWith,
         PurgeDeclined, Restrict, NoEntries, memory
<1> QED
  BY <1>1, <1>2, QuietKeeps DEF network_vars

LEMMA CrashKeeps == ASSUME LanInv, ServerCrash PROVE LanInv'
<1>1. UNCHANGED <<now, promise>> /\ DOMAIN declined' \subseteq DOMAIN declined
  BY DEF ServerCrash, Crash, Stop, NoEntries
<1>2. crashes' \in 0 .. MaxCrashes
  BY LanConstants DEF ServerCrash, LanInv, LanTypeOK
<1> QED
  BY <1>1, <1>2, QuietKeeps DEF ServerCrash

LEMMA LoseKeeps == ASSUME LanInv, Lose PROVE LanInv'
BY QuietKeeps DEF Lose, vars

LEMMA TimeKeeps == ASSUME ServerInv, LanInv, TimePasses PROVE LanInv'
<1>1. /\ UNCHANGED <<client, wire, air, echoes, crashes, undone, reply, declined>>
      /\ now' = now + 1
      /\ DOMAIN promise' = {x \in DOMAIN promise : promise[x].until > now + 1}
      /\ \A x \in DOMAIN promise' : promise'[x] = promise[x]
  BY DEF TimePasses, Tick, SetClock, Restrict, memory, network_vars
<1>2. /\ now \in Nat /\ lease_time \in Nat
      /\ \A x \in DOMAIN promise : promise[x].until \in Nat
      /\ \A c \in Client : client[c].until \in Nat /\ client[c].asked_at \in Nat
  BY ServerTypes DEF LanInv, LanTypeOK, ClientState
<1>3. \A c \in Client : Holds(c)' => Holds(c)
  BY <1>1, <1>2 DEF Holds
<1>4. LanTypeOK' /\ WireFits' /\ AirFits'
  BY <1>1 DEF LanInv, LanTypeOK, WireFits, AirFits, Awaited
<1>5. ClientsFit'
  BY <1>1, <1>2 DEF LanInv, ClientsFit, Asking, Bound
<1>6. EchoFits'
  BY <1>1, <1>3 DEF LanInv, EchoFits
<1>7. NoEviction'
  BY <1>1, <1>3 DEF LanInv, LanTypeOK, NoEviction
<1>8. LeasesBacked'
  <2> SUFFICES ASSUME NEW c \in Client
               PROVE  /\ client[c].state \in Bound => Backed(c, client[c].until)'
                      /\ Acked(c) => Backed(c, client[c].asked_at + lease_time)'
    BY <1>1 DEF LeasesBacked, Acked
  <2>1. client[c].until \in Nat /\ client[c].asked_at + lease_time \in Nat
    BY <1>2
  <2> QED
    BY <1>1, <1>2, <2>1 DEF LanInv, LeasesBacked, Backed
<1> QED
  BY <1>1, <1>4, <1>5, <1>6, <1>7, <1>8 DEF LanInv

(* What decide() does, as far as the clients are concerned. *)
LEMMA Decided ==
    ASSUME ServerInv, NEW p \in ClientPackets, decide(p)
    PROVE  /\ pc = "recv" /\ UNCHANGED now
           /\ reply' # NoReply => reply'.mac = p.mac
           /\ reply'.type = "ACK" =>
                 /\ p.type = "REQUEST" /\ Requested(p) \in {UNSPECIFIED, reply'.yiaddr}
                 /\ reply'.until = now + lease_time
           /\ reply'.type = "NAK" => p.type = "REQUEST" /\ ~Grants(p)
           /\ DOMAIN declined' \subseteq DOMAIN declined \cup
                 {ip \in {p.requested_ip} : p.type = "DECLINE"}
           /\ DOMAIN promise' \subseteq DOMAIN promise
           /\ \A x \in DOMAIN promise' : promise'[x] = promise[x]
           /\ \A x \in DOMAIN promise \ DOMAIN promise' :
                 /\ x = p.mac
                 /\ p.type \in {"RELEASE", "DECLINE"} \/ promise[x].ip # Assigned(p)
<1> DEFINE Others(type) ==
        /\ UNCHANGED <<now, declined, promise>>
        /\ pc = "recv" /\ reply'.type = type /\ (reply' # NoReply => reply'.mac = p.mac)
<1>1. CASE Ignore(p) \/ PoolExhausted(p) \/ RequestIgnored(p) \/ InformIgnored(p)
  <2>1. UNCHANGED <<now, declined, promise>> /\ pc = "recv" /\ reply' = NoReply
    BY <1>1 DEF Ignore, PoolExhausted, RequestIgnored, InformIgnored, ForUs, Silent, Respond,
                memory, history
  <2> QED
    BY <2>1 DEF NoReply
<1>2. CASE Offer(p)
  <2>1. Others("OFFER")
    BY <1>2 DEF Offer, ForUs, Respond, Message, memory, history
  <2> QED
    BY <2>1
<1>3. CASE InformAck(p)
  <2>1. Others("INFORM_ACK")
    BY <1>3 DEF InformAck, ForUs, Respond, Message, memory, history
  <2> QED
    BY <2>1
<1>4. CASE Nak(p)
  <2>1. Others("NAK") /\ p.type = "REQUEST" /\ ~Grants(p)
    BY <1>4 DEF Nak, ForUs, Respond, Message, memory, history
  <2> QED
    BY <2>1
<1>5. CASE AckStatic(p)
  <2>1. /\ UNCHANGED <<now, declined, promise>>
        /\ pc = "recv" /\ p.type = "REQUEST" /\ reply' = Ack(p) /\ Grants(p)
    BY <1>5 DEF AckStatic, ForUs, Respond, memory, history
  <2> QED
    BY <2>1 DEF Ack, Message, Grants
<1>6. CASE AckDynamic(p)
  <2>1. /\ UNCHANGED now
        /\ pc = "recv" /\ p.type = "REQUEST" /\ reply' = Ack(p) /\ Grants(p)
    BY <1>6 DEF AckDynamic, ForUs, Respond
  <2>2. DOMAIN declined' \subseteq DOMAIN declined
    BY <1>6 DEF AckDynamic, PurgeDeclined, Restrict
  <2>3. /\ DOMAIN promise' = {x \in DOMAIN promise : x # p.mac \/ promise[x].ip = Assigned(p)}
        /\ \A x \in DOMAIN promise' : promise'[x] = promise[x]
    BY <1>6 DEF AckDynamic, Restrict
  <2> QED
    BY <2>1, <2>2, <2>3 DEF Ack, Message, Grants
<1>7. CASE Release(p) \/ Decline(p)
  <2>1. /\ UNCHANGED now
        /\ pc = "recv" /\ p.type \in {"RELEASE", "DECLINE"} /\ reply' = NoReply
    BY <1>7 DEF Release, Decline, ForUs, Respond
  <2>2. DOMAIN declined' \subseteq DOMAIN declined \cup {ip \in {p.requested_ip} : p.type = "DECLINE"}
    BY <1>7, PacketIs DEF Release, Decline, ForUs, DeclinedIp, Quarantine, Put
  <2>3. /\ DOMAIN promise' = DOMAIN promise \ {p.mac}
        /\ \A x \in DOMAIN promise' : promise'[x] = promise[x]
    BY <1>7 DEF Release, Decline, Remove, Restrict
  <2> QED
    BY <2>1, <2>2, <2>3 DEF NoReply
<1> QED
  BY <1>1, <1>2, <1>3, <1>4, <1>5, <1>6, <1>7 DEF decide

LEMMA ReceiveKeeps ==
    ASSUME ServerInv, LanInv, NEW m \in wire, Receive(m)
    PROVE  LanInv'
<1> DEFINE p == m.packet
           c == p.mac
<1>1. /\ m.current \in BOOLEAN /\ p \in ClientPackets /\ c \in Client
      /\ decide(p) /\ wire' \subseteq wire
      /\ UNCHANGED <<client, air, crashes>>
      /\ echoes' = (m.current /\ reply' # NoReply)
      /\ undone' = IF EndsLease(p) /\ ~m.current
                   THEN undone \cup ({c} \cap DOMAIN promise) ELSE undone
  BY PacketIs DEF Receive, LanInv, LanTypeOK
<1> HIDE DEF p
<1>2. /\ pc = "recv" /\ UNCHANGED now
      /\ reply' # NoReply => reply'.mac = c
      /\ reply'.type = "ACK" =>
            /\ p.type = "REQUEST" /\ Requested(p) \in {UNSPECIFIED, reply'.yiaddr}
            /\ reply'.until = now + lease_time
      /\ reply'.type = "NAK" => p.type = "REQUEST" /\ ~Grants(p)
      /\ DOMAIN declined' \subseteq DOMAIN declined \cup
            {ip \in {p.requested_ip} : p.type = "DECLINE"}
      /\ DOMAIN promise' \subseteq DOMAIN promise
      /\ \A x \in DOMAIN promise' : promise'[x] = promise[x]
      /\ \A x \in DOMAIN promise \ DOMAIN promise' :
            /\ x = c
            /\ p.type \in {"RELEASE", "DECLINE"} \/ promise[x].ip # Assigned(p)
  BY <1>1, Decided
<1>3. /\ p.type = "DECLINE" => p.requested_ip \in Squatted
      /\ m.current =>
            /\ client[c].state = "SELECTING" => p.type = "DISCOVER"
            /\ client[c].state \in Asking \cup Bound =>
                  p.type = "REQUEST" /\ Requested(p) = client[c].ip
  BY DEF LanInv, WireFits, p
<1>4. /\ now \in Nat /\ lease_time \in Nat
      /\ client[c].state \in Asking => client[c].asked_at \in Nat /\ client[c].asked_at <= now
      /\ client[c].state \in Bound => client[c].until \in Nat /\ client[c].until <= now + lease_time
      /\ client[c].state \in Asking \cup Bound => client[c].ip # UNSPECIFIED
  BY <1>1, ServerTypes, LanAddresses
     DEF LanInv, LanTypeOK, ClientState, ClientsFit, UNSPECIFIED
<1>5. CountsOn(c) => Assigned(p) = client[c].ip
  BY <1>2, Honoured DEF Assigned
<1>6. DOMAIN declined' \subseteq Squatted
  BY <1>2, <1>3 DEF LanInv
<1>7. undone \subseteq undone' /\ undone' \subseteq Client
  BY <1>1 DEF LanInv, LanTypeOK
<1>8. ASSUME NEW x, CountsOn(x), x \notin undone'
      PROVE  x \in DOMAIN promise' /\ promise'[x] = promise[x]
  <2> SUFFICES ASSUME x \in DOMAIN promise \ DOMAIN promise' PROVE FALSE
    BY <1>2, <1>8 DEF CountsOn, Outstanding
  <2>1. x = c /\ (p.type \in {"RELEASE", "DECLINE"} \/ promise[c].ip # Assigned(p))
    BY <1>2
  <2>2. promise[c].ip = Assigned(p)
    BY <1>5, <1>8, <2>1 DEF CountsOn
  <2>3. EndsLease(p) /\ p.type # "REQUEST"
    BY <2>1, <2>2 DEF EndsLease
  <2>4. ~m.current
    BY <1>3, <1>8, <2>1, <2>3 DEF CountsOn
  <2> QED
    BY <1>1, <1>8, <2>1, <2>3, <2>4
<1>9. LeasesBacked'
  <2> SUFFICES ASSUME NEW x \in Client \ undone', NEW until, until > now,
                      \/ client[x].state \in Bound /\ until = client[x].until
                      \/ Acked(x) /\ until = client[x].asked_at + lease_time
               PROVE  /\ x \in DOMAIN promise' /\ promise'[x].ip = client[x].ip
                      /\ promise'[x].until >= until
    BY <1>1, <1>2 DEF LeasesBacked, Backed, Acked
  <2>1. CountsOn(x) /\ promise[x].until >= until
    BY <1>7, Counting
  <2> QED
    BY <1>8, <2>1 DEF CountsOn
<1>10. EchoFits'
  <2> SUFFICES ASSUME echoes'
               PROVE  /\ reply'.type = "ACK" =>
                            /\ client[c].state # "SELECTING"
                            /\ client[c].state \in Asking \cup Bound => reply'.yiaddr = client[c].ip
                            /\ client[c].state \in Asking =>
                                  reply'.until >= client[c].asked_at + lease_time
                            /\ client[c].state \in Bound => reply'.until >= client[c].until
                      /\ reply'.type = "NAK" /\ client[c].state = "RENEWING" /\ Holds(c) =>
                            c \in undone'
    BY <1>1, <1>2 DEF EchoFits, Holds
  <2>1. m.current
    BY <1>1
  <2>2. ASSUME reply'.type = "ACK"
        PROVE  /\ client[c].state # "SELECTING"
               /\ client[c].state \in Asking \cup Bound => reply'.yiaddr = client[c].ip
               /\ client[c].state \in Asking => reply'.until >= client[c].asked_at + lease_time
               /\ client[c].state \in Bound => reply'.until >= client[c].until
    BY <1>2, <1>3, <1>4, <2>1, <2>2
  <2>3. ASSUME reply'.type = "NAK", client[c].state = "RENEWING", Holds(c), c \notin undone'
        PROVE  FALSE
    <3>1. CountsOn(c)
      BY <1>1, <1>7, <2>3, Counting DEF Holds
    <3>2. Assigned(p) = client[c].ip /\ Requested(p) = client[c].ip
      BY <1>3, <1>5, <2>1, <3>1 DEF CountsOn
    <3>3. client[c].ip # NoIp
      BY <1>1, <2>3, LanAddresses DEF LanInv, ClientsFit, Asking, NoIp
    <3> QED
      BY <1>2, <2>3, <3>2, <3>3 DEF Grants
  <2> QED
    BY <2>2, <2>3
<1>11. /\ echoes' \in BOOLEAN /\ (echoes' => reply' # NoReply) /\ crashes' \in 0 .. MaxCrashes
  BY <1>1 DEF LanInv, LanTypeOK
<1> QED
  BY <1>1, <1>2, <1>6, <1>7, <1>9, <1>10, <1>11, LanFrame

LEMMA SendKeeps ==
    ASSUME ServerInv, LanInv, SendHeard \/ SendLost
    PROVE  LanInv'
<1> DEFINE c   == reply.mac
           new == base_reply(reply)
<1>1. /\ UNCHANGED <<client, wire, crashes, now, declined>>
      /\ pc = "send" /\ echoes' = FALSE /\ undone' = Renewed
      /\ promise' = IF reply.type = "ACK"
                    THEN Put(promise, c, [ip |-> reply.yiaddr, until |-> reply.until])
                    ELSE promise
  BY DEF SendHeard, SendLost, Send, memory
<1>2. /\ TenancyInv /\ RepliesFit /\ now \in Nat /\ lease_time \in Nat
      /\ \A x \in DOMAIN promise : promise[x].until \in Nat
      /\ reply.type = "ACK" => reply.until \in Nat
  BY ServerTypes
<1>3. /\ new.type = reply.type /\ new.mac = c /\ new.yiaddr = reply.yiaddr
      /\ new.current = echoes
      /\ echoes => new \in [type : {"OFFER", "ACK", "NAK", "INFORM_ACK"}, mac : Mac,
                            yiaddr : Address, current : {TRUE}]
  <2>1. echoes => /\ reply.type \in {"OFFER", "ACK", "NAK", "INFORM_ACK"}
                  /\ c \in Mac /\ reply.yiaddr \in Address
    BY ServerTypes DEF LanInv, LanTypeOK
  <2> QED
    BY <2>1 DEF base_reply, LanInv, LanTypeOK
<1>4. /\ air \subseteq air'
      /\ \A r \in air' \ air :
            r = new /\ echoes /\ c \in Client /\ client[c].state \in Waiting
  BY <1>3 DEF SendHeard, SendLost, Awaited, LanInv, LanTypeOK
<1> HIDE DEF new
<1>5. /\ undone' \subseteq undone
      /\ \A x \in undone \ undone' : x = c /\ reply.type = "ACK" /\ echoes /\ ~Refused(c)
  BY <1>1 DEF Renewed
<1>6. /\ \A x \in DOMAIN promise \ {c} : x \in DOMAIN promise' /\ promise'[x] = promise[x]
      /\ reply.type # "ACK" => promise' = promise
      /\ reply.type = "ACK" => /\ c \in DOMAIN promise'
                               /\ promise'[c] = [ip |-> reply.yiaddr, until |-> reply.until]
  BY <1>1 DEF Put
<1>7. echoes =>
        /\ reply.type = "ACK" =>
              /\ client[c].state # "SELECTING"
              /\ client[c].state \in Asking \cup Bound => reply.yiaddr = client[c].ip
              /\ client[c].state \in Asking => reply.until >= client[c].asked_at + lease_time
              /\ client[c].state \in Bound => reply.until >= client[c].until
        /\ reply.type = "NAK" /\ client[c].state = "RENEWING" /\ Holds(c) => c \in undone
  BY DEF LanInv, EchoFits
<1>8. LanTypeOK'
  <2>1. air' \subseteq [type : {"OFFER", "ACK", "NAK", "INFORM_ACK"}, mac : Client,
                        yiaddr : Address, current : {TRUE}]
    BY <1>3, <1>4 DEF LanInv, LanTypeOK
  <2>2. \A r \in air' : Awaited(r)'
    BY <1>1, <1>3, <1>4 DEF LanInv, LanTypeOK, Awaited
  <2> QED
    BY <1>1, <1>5, <2>1, <2>2 DEF LanInv, LanTypeOK
<1>9. ClientsFit' /\ WireFits' /\ EchoFits'
  BY <1>1 DEF LanInv, ClientsFit, WireFits, EchoFits
<1>10. AirFits'
  <2>1. reply.type \in {"OFFER", "ACK"} => reply.yiaddr \in Pool \cup StaticIps
    BY <1>2 DEF RepliesFit, Fits, IsStatic, StaticIps
  <2>2. new \in air' \ air =>
           /\ new.type \in {"OFFER", "ACK"} => new.yiaddr \in Pool \cup StaticIps
           /\ new.type = "ACK" => client[c].state \in Asking /\ new.yiaddr = client[c].ip
    BY <1>3, <1>4, <1>7, <2>1 DEF Waiting, Asking
  <2> QED
    BY <1>1, <1>3, <1>4, <2>2 DEF LanInv, AirFits
<1>11. NoEviction'
  <2> SUFFICES ASSUME NEW r \in air', r.type = "NAK", client[r.mac].state = "RENEWING",
                      Holds(r.mac)
               PROVE  r.mac \in undone'
    BY <1>1 DEF NoEviction, Holds
  <2>1. CASE r \in air
    BY <1>5, <2>1 DEF LanInv, NoEviction, Refused
  <2>2. CASE r \notin air
    BY <1>3, <1>4, <1>5, <1>7, <2>2
  <2> QED
    BY <2>1, <2>2
<1>12. ASSUME NEW x \in Client \ undone', NEW until, until > now,
              \/ client[x].state \in Bound /\ until = client[x].until
              \/ Acked(x)' /\ until = client[x].asked_at + lease_time
       PROVE  /\ x \in DOMAIN promise' /\ promise'[x].ip = client[x].ip
              /\ promise'[x].until >= until
  <2>types. until \in Nat
    BY <1>2, <1>12 DEF LanInv, LanTypeOK, ClientState
  <2>1. CASE x = c /\ reply.type = "ACK" /\ echoes
    <3>1. Acked(x)' => client[x].state \in Asking
      BY <1>1, <1>10, <2>1 DEF Acked, AirFits
    <3> QED
      BY <1>6, <1>7, <1>12, <2>1, <3>1
  <2>2. CASE ~(x = c /\ reply.type = "ACK" /\ echoes)
    <3>1. x \notin undone
      BY <1>5, <1>12, <2>2
    <3>2. Acked(x)' => Acked(x)
      BY <1>1, <1>3, <1>4, <2>2 DEF Acked
    <3>3. CountsOn(x) /\ promise[x].until >= until
      BY <1>12, <3>1, <3>2, Counting
    <3>4. CASE x = c /\ reply.type = "ACK"
      <4>1. promise[x].ip = reply.yiaddr /\ promise[x].until <= reply.until
        BY <1>1, <1>2, <3>3, <3>4, AckKeeps DEF CountsOn
      <4>2. promise[x].until \in Nat /\ reply.until \in Nat
        BY <1>2, <3>3, <3>4 DEF CountsOn, Outstanding
      <4> QED
        BY <1>6, <2>types, <3>3, <3>4, <4>1, <4>2 DEF CountsOn
    <3>5. CASE ~(x = c /\ reply.type = "ACK")
      BY <1>6, <3>3, <3>5 DEF CountsOn, Outstanding
    <3> QED
      BY <3>4, <3>5
  <2> QED
    BY <2>1, <2>2
<1>13. LeasesBacked'
  BY <1>1, <1>12 DEF LeasesBacked, Backed, Acked
<1> QED
  BY <1>1, <1>8, <1>9, <1>10, <1>11, <1>13 DEF LanInv

-----------------------------------------------------------------------------
LEMMA LanInits == LanInit => LanInv
<1> SUFFICES ASSUME LanInit PROVE LanInv
  OBVIOUS
<1>1. /\ client = [c \in Client |-> Idle] /\ wire = {} /\ air = {} /\ echoes = FALSE
      /\ crashes = 0 /\ undone = {} /\ DOMAIN declined = {}
  BY DEF LanInit, Init, NoEntries
<1>2. Idle \in ClientState /\ Idle.state = "INIT"
  BY DEF Idle, ClientState, Waiting, Bound, UNSPECIFIED, Address
<1>3. 0 \in 0 .. MaxCrashes
  BY LanConstants
<1>4. LanTypeOK
  BY <1>1, <1>2, <1>3 DEF LanTypeOK
<1>5. ClientsFit /\ WireFits /\ AirFits /\ EchoFits /\ LeasesBacked /\ NoEviction
  BY <1>1, <1>2 DEF ClientsFit, WireFits, AirFits, EchoFits, LeasesBacked, NoEviction, Acked,
                    Asking, Bound
<1> QED
  BY <1>1, <1>4, <1>5 DEF LanInv

LEMMA LanStep == ServerInv /\ LanInv /\ [LanNext]_lan_vars => LanInv'
<1> SUFFICES ASSUME ServerInv, LanInv, [LanNext]_lan_vars PROVE LanInv'
  OBVIOUS
<1>1. CASE \E c \in Client : ClientStep(c)
  BY <1>1, ClientKeeps
<1>2. CASE ServerStep
  BY <1>2, LocalKeeps, ReceiveKeeps, SendKeeps DEF ServerStep
<1>3. CASE ServerStart
  BY <1>3, LocalKeeps DEF ServerStart
<1>4. CASE UNCHANGED lan_vars
  BY <1>4, QuietKeeps DEF lan_vars, vars, network_vars
<1> QED
  BY <1>1, <1>2, <1>3, <1>4, CrashKeeps, LoseKeeps, TimeKeeps DEF LanNext

LEMMA LanInvariant == ASSUME NoFaults PROVE LanSpec => [](ServerInv /\ LanInv)
<1>1. LanInit => ServerInv /\ LanInv
  BY ServerInits, LanInits DEF LanInit
<1>2. ServerInv /\ LanInv /\ [LanNext]_lan_vars => (ServerInv /\ LanInv)'
  <2> SUFFICES ASSUME ServerInv, LanInv, [LanNext]_lan_vars PROVE ServerInv' /\ LanInv'
    OBVIOUS
  <2>1. [Next]_vars
    BY StepsOfServer DEF LanInv
  <2> QED
    BY <2>1, ServerKeeps, LanStep
<1> QED
  BY <1>1, <1>2, PTL DEF LanSpec

(* The composition does nothing to the server that LeaseServer does not:   *)
(* all that is proved of the server alone holds among these clients.       *)
THEOREM ServerAmongClients == ASSUME NoFaults PROVE LanSpec => Spec
<1>1. LanInit => Init
  BY DEF LanInit
<1>2. LanInv /\ [LanNext]_lan_vars => [Next]_vars
  BY StepsOfServer DEF LanInv
<1> QED
  BY <1>1, <1>2, LanInvariant, PTL DEF LanSpec, Spec

(* The variables of the clients and the network keep their types; a reply  *)
(* under way is awaited, and one message of each client is current.        *)
THEOREM LanTypeCorrect == ASSUME NoFaults PROVE LanSpec => []LanTypeOK
<1>1. LanInv => LanTypeOK
  BY DEF LanInv
<1> QED
  BY <1>1, LanInvariant, PTL

(* A client that renews in time hears of no refusal. *)
THEOREM NobodyEvicted == ASSUME NoFaults PROVE LanSpec => []NoEviction
<1>1. LanInv => NoEviction
  BY DEF LanInv
<1> QED
  BY <1>1, LanInvariant, PTL

LEMMA InvBeliefs == LanInv => BeliefsPromised
BY DEF LanInv, LeasesBacked, Backed, BeliefsPromised, Holds

(* What a client believes of its lease the server has promised, whatever   *)
(* the network loses, repeats, delays or reorders.                         *)
THEOREM BeliefsArePromised == ASSUME NoFaults PROVE LanSpec => []BeliefsPromised
BY InvBeliefs, LanInvariant, PTL

LEMMA InvConflict == ServerInv /\ LanInv => NoConflict
<1> SUFFICES ASSUME ServerInv, LanInv,
                    NEW c1 \in Client \ undone, NEW c2 \in Client \ undone,
                    Holds(c1), Holds(c2), client[c1].ip = client[c2].ip
             PROVE  c1 = c2
  BY DEF NoConflict
<1>1. /\ now \in Nat /\ \A x \in DOMAIN promise : promise[x].until \in Nat
      /\ \A c \in Client : client[c].until \in Nat
  BY ServerTypes DEF LanInv, LanTypeOK, ClientState
<1>2. \A c \in {c1, c2} : Outstanding(c) /\ promise[c].ip = client[c].ip
  BY <1>1, InvBeliefs DEF BeliefsPromised, Holds, Outstanding
<1>3. NoDoublePromise
  BY InvNoDoublePromise, ServerTypes
<1> QED
  BY <1>2, <1>3 DEF NoDoublePromise, Outstanding

(* No two clients use an address at a time. *)
THEOREM AddressesAreUnique == ASSUME NoFaults PROVE LanSpec => []NoConflict
BY InvConflict, LanInvariant, PTL

-----------------------------------------------------------------------------
(***************************************************************************)
(* The refinement: what clients believe are tenancies as well.             *)
(***************************************************************************)
(* A step that changes the belief of one client at most: the client stops  *)
(* believing, or believes no less than before, or takes a vacant address.  *)
LEMMA BeliefMoves ==
    ASSUME ServerInv', LanInv', NoConflict', LanInv, NEW c \in Client, UNCHANGED now,
           \A x \in Client \ {c} : client'[x] = client[x] /\ (x \in undone' <=> x \in undone),
           c \in Believers /\ c \in Believers' =>
               client'[c].ip = client[c].ip /\ client'[c].until >= client[c].until
    PROVE  [Believed!Next]_Believed!vars
<1> DEFINE told(x) == [ip |-> client[x].ip, until |-> client[x].until]
           hears(x) == [ip |-> client'[x].ip, until |-> client'[x].until]
           before == Believers
           after == Believers'
<1>1. /\ DOMAIN Beliefs = before /\ \A x \in before : Beliefs[x] = told(x)
      /\ Beliefs = [x \in before |-> told(x)]
  BY DEF Beliefs
<1>2. /\ DOMAIN Beliefs' = after /\ \A x \in after : Beliefs'[x] = hears(x)
      /\ Beliefs' = [x \in after |-> hears(x)]
  BY DEF Beliefs
<1>3. /\ \A x \in Client \ {c} : x \in after <=> x \in before
      /\ \A x \in before \ {c} : hears(x) = told(x)
      /\ before \subseteq Client /\ after \subseteq Client
  <2>1. before \subseteq Client /\ after \subseteq Client
    BY DEF Believers
  <2>2. \A x \in Client \ {c} : x \in after <=> x \in before
    BY DEF Believers, Holds
  <2> QED
    BY <2>1, <2>2
<1>4. /\ now \in Nat /\ lease_time \in Nat
      /\ \A x \in before : told(x).until \in Nat /\ told(x).ip = client[x].ip
      /\ \A x \in after : hears(x).until \in Nat /\ hears(x).ip = client'[x].ip
  <2>1. now' \in Nat /\ lease_time \in Nat
    BY ConfigFacts DEF ServerInv, TenancyInv, LeaseInv, TypeOK
  <2>2. \A x \in Client : client[x].until \in Nat /\ client'[x].until \in Nat
    BY DEF LanInv, LanTypeOK, ClientState
  <2> QED
    BY <1>3, <2>1, <2>2
<1>5. c \in after => /\ hears(c).until > now /\ hears(c).until <= now + lease_time
                     /\ hears(c).ip \in Pool \cup StaticIps
  BY <1>4 DEF Believers, Holds, LanInv, ClientsFit
<1>6. c \in before /\ c \in after => hears(c).ip = told(c).ip /\ hears(c).until >= told(c).until
  OBVIOUS
<1>7. \A x \in after : hears(x).ip = hears(c).ip /\ c \in after => x = c
  BY DEF Believers, NoConflict
<1> HIDE DEF told, hears, before, after
<1>8. CASE c \notin after /\ c \notin before
  <2>1. \A x : x \in after <=> x \in before
    BY <1>3, <1>8
  <2>2. after = before
    BY <2>1
  <2>3. Beliefs' = Beliefs
    BY <1>1, <1>2, <1>3, <1>8, <2>2
  <2> QED
    BY <2>3 DEF Believed!vars
<1>9. CASE c \notin after /\ c \in before
  <2>1. after = before \ {c}
    BY <1>3, <1>9
  <2>2. Beliefs' = [x \in DOMAIN Beliefs \ {c} |-> Beliefs[x]]
    BY <1>1, <1>2, <1>3, <2>1
  <2>3. Believed!GiveUp(c)
    BY <1>1, <1>9, <2>2 DEF Believed!GiveUp, Believed!Remove, Believed!Restrict
  <2> QED
    BY <2>3 DEF Believed!Next
<1>10. CASE c \in after /\ c \in before
  <2>1. after = before
    BY <1>3, <1>10
  <2>2. \A x \in before : Beliefs'[x] = IF x = c THEN hears(c) ELSE Beliefs[x]
    BY <1>1, <1>2, <1>3, <2>1
  <2>3. hears(c) = [told(c) EXCEPT !.until = hears(c).until]
    BY <1>6, <1>10 DEF told, hears
  <2>4. CASE hears(c).until = told(c).until
    <3>1. hears(c) = told(c)
      BY <1>6, <1>10, <2>4 DEF told, hears
    <3>2. Beliefs' = Beliefs
      BY <1>1, <1>2, <1>3, <2>1, <3>1
    <3> QED
      BY <3>2 DEF Believed!vars
  <2>5. CASE hears(c).until # told(c).until
    <3>1. Beliefs' = [Beliefs EXCEPT ![c].until = hears(c).until]
      BY <1>1, <1>2, <1>10, <2>1, <2>2, <2>3
    <3>2. hears(c).until \in told(c).until + 1 .. now + lease_time
      BY <1>4, <1>5, <1>6, <1>10, <2>5
    <3>3. c \in DOMAIN Beliefs /\ c \in DOMAIN Beliefs'
          /\ Beliefs[c] = told(c) /\ Beliefs'[c] = hears(c)
      BY <1>1, <1>2, <1>10
    <3>4. Believed!Extend(c)
      BY <3>1, <3>2, <3>3 DEF Believed!Extend
    <3> QED
      BY <3>4 DEF Believed!Next
  <2> QED
    BY <2>4, <2>5
<1>11. CASE c \in after /\ c \notin before
  <2>1. after = before \cup {c}
    BY <1>3, <1>11
  <2>2. Beliefs' = [x \in DOMAIN Beliefs \cup {c} |-> IF x = c THEN hears(c) ELSE Beliefs[x]]
    BY <1>1, <1>2, <1>3, <2>1
  <2>3. Beliefs' = Believed!Put(Beliefs, c, Beliefs'[c])
    BY <1>2, <1>11, <2>2 DEF Believed!Put
  <2>4. \A x \in before : Beliefs[x].ip # hears(c).ip
    <3> SUFFICES ASSUME NEW x \in before PROVE told(x).ip # hears(c).ip
      BY <1>1
    <3> QED
      BY <1>3, <1>7, <1>11, <2>1
  <2>5. Believed!Vacant(Beliefs'[c].ip)
    BY <1>1, <1>2, <1>11, <2>4 DEF Believed!Vacant
  <2>6. hears(c).until \in now + 1 .. now + lease_time
    BY <1>4, <1>5, <1>11
  <2>7. Believed!Let(c)
    BY <1>1, <1>2, <1>5, <1>11, <2>3, <2>5, <2>6 DEF Believed!Let
  <2> QED
    BY <2>7 DEF Believed!Next
<1> QED
  BY <1>8, <1>9, <1>10, <1>11

(* Hearing an ACK is the one step of a client that makes it believe more.  *)
LEMMA ClientBelieves ==
    ASSUME ServerInv, LanInv, ServerInv', LanInv', NoConflict', NEW c \in Client, ClientStep(c)
    PROVE  [Believed!Next]_Believed!vars
<1>1. UNCHANGED <<now, undone>> /\ \A x \in Client \ {c} : client'[x] = client[x]
  BY DEF ClientStep, Discover, Timeout, HearOffer, HearAck, FindSquatted, HearNak, Expire, Renew,
         Reboot, Leave, Become, vars, LanInv, LanTypeOK
<1>2. ASSUME c \in Believers, c \in Believers'
      PROVE  client'[c].ip = client[c].ip /\ client'[c].until >= client[c].until
  <2>1. /\ client[c] \in ClientState /\ client[c].state \in Bound
        /\ client'[c].state \in Bound
    BY <1>2 DEF Believers, Holds, LanInv, LanTypeOK
  <2>2. CASE HearAck(c)
    <3>1. PICK r \in air :
             /\ client[c].state \in {"REQUESTING", "RENEWING"} /\ r.mac = c /\ r.type = "ACK"
             /\ client'[c] = [state |-> "BOUND", ip |-> r.yiaddr, asked_at |-> 0,
                              until |-> client[c].asked_at + lease_time]
      BY <2>2 DEF HearAck, Granted, Become, LanInv, LanTypeOK
    <3>2. r.yiaddr = client[c].ip /\ client[c].state = "RENEWING"
      BY <2>1, <3>1 DEF LanInv, AirFits, Bound
    <3>3. client[c].until <= client[c].asked_at + lease_time
      BY <3>2 DEF LanInv, ClientsFit
    <3> QED
      BY <3>1, <3>2, <3>3
  <2>3. CASE Renew(c)
    <3>1. client'[c] = [client[c] EXCEPT !.state = "RENEWING", !.asked_at = now]
      BY <2>3 DEF Renew, Become, LanInv, LanTypeOK
    <3>2. client'[c].ip = client[c].ip /\ client'[c].until = client[c].until
      BY <2>1, <3>1 DEF ClientState
    <3> QED
      BY <2>1, <3>2 DEF ClientState
  <2>4. CASE ~HearAck(c) /\ ~Renew(c)
    <3>1. client'[c].state \in {"INIT", "SELECTING", "REQUESTING"}
      BY <2>4 DEF ClientStep, Discover, Timeout, HearOffer, FindSquatted, HearNak, Expire, Reboot,
                  Leave, Become, Idle, LanInv, LanTypeOK
    <3> QED
      BY <2>1, <3>1 DEF Bound
  <2> QED
    BY <2>2, <2>3, <2>4
<1> QED
  BY <1>1, <1>2, BeliefMoves

LEMMA BelievedStep ==
    ASSUME ServerInv, LanInv, ServerInv', LanInv', NoConflict', [LanNext]_lan_vars
    PROVE  [Believed!Next]_Believed!vars
<1>1. CASE UNCHANGED <<client, now, undone>>
  <2>1. Beliefs' = Beliefs
    BY <1>1 DEF Beliefs, Believers, Holds
  <2> QED
    BY <1>1, <2>1 DEF Believed!vars
<1>2. ASSUME NEW c, UNCHANGED <<client, now>>,
             \A x \in Client \ {c} : x \in undone' <=> x \in undone
      PROVE  [Believed!Next]_Believed!vars
  <2>1. CASE c \in Client
    <3>1. client'[c].until >= client[c].until
      BY <1>2, <2>1 DEF LanInv, LanTypeOK, ClientState
    <3> QED
      BY <1>2, <2>1, <3>1, BeliefMoves
  <2>2. CASE c \notin Client
    BY <1>1, <1>2, <2>2 DEF LanInv, LanTypeOK
  <2> QED
    BY <2>1, <2>2
<1>3. CASE \E c \in Client : ClientStep(c)
  BY <1>3, ClientBelieves
<1>4. ASSUME NEW m \in wire, Receive(m) PROVE [Believed!Next]_Believed!vars
  <2>1. UNCHANGED now
    BY <1>4, Decided DEF Receive, LanInv, LanTypeOK
  <2> QED
    BY <1>2, <1>4, <2>1 DEF Receive
<1>5. CASE SendHeard \/ SendLost
  BY <1>2, <1>5 DEF SendHeard, SendLost, Send, Renewed
<1>6. CASE TimePasses
  <2>1. now' = now + 1 /\ UNCHANGED <<client, undone>>
    BY <1>6 DEF TimePasses, Tick, SetClock
  <2>2. /\ now \in Nat
        /\ \A c \in Client : client[c].until \in Nat
    BY ServerTypes DEF LanInv, LanTypeOK, ClientState
  <2>3. Believers' = {c \in Believers : client[c].until > now'}
    BY <2>1, <2>2 DEF Believers, Holds
  <2>4. Believers' = {c \in DOMAIN Beliefs : Beliefs[c].until > now'}
    BY <2>3 DEF Beliefs
  <2>5. Believers' \subseteq Believers
    BY <2>3
  <2>6. Beliefs' = [c \in Believers' |-> Beliefs[c]]
    BY <2>1, <2>5 DEF Beliefs
  <2>7. now' \in Nat /\ now' > now
    BY <2>1, <2>2
  <2>8. Believed!Pass
    BY <2>4, <2>6, <2>7 DEF Believed!Pass, Believed!Restrict
  <2> QED
    BY <2>8 DEF Believed!Next
<1>7. CASE Local /\ UNCHANGED <<client, network_vars, crashes, undone>>
  BY <1>1, <1>7 DEF Local, EnterRecv, RecvTimeout, Save, SaveFails, NothingToSweep, Sweep
<1>8. CASE ServerStart \/ ServerCrash \/ Lose \/ UNCHANGED lan_vars
  BY <1>1, <1>8 DEF ServerStart, Start, StartWith, ServerCrash, Crash, Stop, Lose, vars, lan_vars
<1> QED
  BY <1>3, <1>4, <1>5, <1>6, <1>7, <1>8 DEF LanNext, ServerStep

(* A client gets an address only when no other uses it, and keeps it for   *)
(* as long as it was told or renews it.                                    *)
THEOREM BeliefsAreTenancies == ASSUME NoFaults PROVE LanSpec => TenancyBelieved
<1>1. LanInit => Believed!Init
  <2> SUFFICES ASSUME LanInit PROVE Believed!Init
    OBVIOUS
  <2>1. Believers = {}
    BY DEF LanInit, Believers, Holds, Idle, Bound
  <2>2. Beliefs = [x \in {} |-> 0]
    BY <2>1 DEF Beliefs
  <2> QED
    BY <2>2 DEF LanInit, Init, Believed!Init, Believed!NoEntries
<1>2. /\ ServerInv /\ LanInv /\ (ServerInv /\ LanInv)' /\ NoConflict' /\ [LanNext]_lan_vars
      => [Believed!Next]_Believed!vars
  BY BelievedStep
<1> QED
  BY <1>1, <1>2, LanInvariant, AddressesAreUnique, PTL
     DEF LanSpec, TenancyBelieved, Believed!Spec

=============================================================================
