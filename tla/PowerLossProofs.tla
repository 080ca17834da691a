---------------------------- MODULE PowerLossProofs ----------------------------
(***************************************************************************)
(* What a loss of power can do to the leases, and what it cannot, proved   *)
(* for every configuration.  The server's saves and loads succeed and its  *)
(* clock does not go back; the machine may lose its power again and again. *)
(***************************************************************************)
EXTENDS PowerLoss, PromiseProofs

(* The lease of client m is in every version that may come back. *)
Settled(m) ==
    m \in DOMAIN promise /\ Outstanding(m) /\ ~IsStatic(m) =>
        \A f \in older : Covers(f, m, promise[m])

(* The inductive invariant. *)
LossInv ==
    /\ StoreInv
    /\ \A f \in older : IsLeaseMap(f, Mac) /\ OneMacPerIp(f)
    /\ \A m : m \notin lost => Kept(m)
    /\ \A m : m \notin at_risk \cup lost => Settled(m)

LEMMA LossInits == LossInit => LossInv
<1> SUFFICES ASSUME LossInit PROVE LossInv
  OBVIOUS
<1>1. older = {} /\ StoreInv /\ \A m : Kept(m)
  BY LeaseInit, LeaseInvParts DEF LossInit
<1> QED
  BY <1>1 DEF LossInv, Settled

(* Nothing but an ACK to the client makes more of a promise. *)
LEMMA PromiseStays ==
    ASSUME TypeOK, SoundStep, NEW m, ~(Send /\ reply.type = "ACK" /\ m = reply.mac),
           m \in DOMAIN promise', Outstanding(m)'
    PROVE  m \in DOMAIN promise /\ Outstanding(m) /\ promise'[m] = promise[m]
<1>types. now \in Nat /\ \A x \in DOMAIN promise : promise[x].until \in Nat
  BY EntryTypes DEF Promise
<1> USE DEF Outstanding
<1>1. CASE UNCHANGED <<now, promise>>
  BY <1>1
<1>2. CASE Handle
  <2> PICK p \in Packets : decide(p)
    BY <1>2 DEF Handle
  <2>1. UNCHANGED now
    BY DEF decide, Ignore, Offer, PoolExhausted, RequestIgnored, AckStatic, AckDynamic, Nak,
           Release, Decline, InformIgnored, InformAck
  <2>2. CASE AckDynamic(p)
    BY <2>1, <2>2, AckCommits
  <2>3. CASE Release(p) \/ Decline(p)
    BY <2>1, <2>3, GivingUpDrops
  <2>4. CASE ~AckDynamic(p) /\ ~Release(p) /\ ~Decline(p)
    BY <1>1, <2>1, <2>4
       DEF decide, Ignore, Offer, PoolExhausted, RequestIgnored, AckStatic, Nak, InformIgnored,
           InformAck, history
  <2> QED
    BY <2>2, <2>3, <2>4
<1>3. CASE Send
  <2>1. CASE reply.type = "ACK"
    BY <1>3, <2>1, AckPromises DEF Send
  <2>2. CASE reply.type # "ACK"
    BY <1>1, <1>3, <2>2 DEF Send
  <2> QED
    BY <2>1, <2>2
<1>4. CASE Tick
  BY <1>4, <1>types, TimeForgets
<1>5. CASE \/ Start \/ Stop \/ EnterRecv \/ RecvTimeout \/ Signal \/ Save \/ NothingToSweep
           \/ Sweep \/ UNCHANGED vars
  BY <1>1, <1>5 DEF Start, StartWith, Stop, EnterRecv, RecvTimeout, Signal, Save, NothingToSweep,
                    Sweep, history, vars
<1> QED
  BY <1>2, <1>3, <1>4, <1>5 DEF SoundStep

(* The steps of the server. *)
LEMMA LossOfServer ==
    ASSUME LossInv, SaveReplaces \/ SendAtRisk \/ OtherStep
    PROVE  LossInv'
<1>1. SoundStep /\ [Next]_vars
  BY DEF SaveReplaces, SendAtRisk, OtherStep, SoundStep, Next, LoopStep, Environment, Crash
<1>2. StoreInv /\ StoreInv'
  BY <1>1, StoreStep DEF LossInv
<1>3. TypeOK /\ OneOwner /\ IsLeaseMap(file, Mac) /\ OneMacPerIp(file)
  BY <1>2 DEF StoreInv, TypeOK, OneOwner
<1>4. \/ UNCHANGED older
      \/ Save /\ older' = older \cup {file}
  BY DEF SaveReplaces, SendAtRisk, OtherStep, Disk!Replace
<1>5. \A f \in older' : IsLeaseMap(f, Mac) /\ OneMacPerIp(f)
  BY <1>3, <1>4 DEF LossInv
<1>6. \/ UNCHANGED <<at_risk, lost>> /\ ~(Send /\ reply.type = "ACK")
      \/ /\ Send /\ reply.type = "ACK"
         /\ at_risk' = at_risk \cup {reply.mac} \/ (older' = {} /\ at_risk' = at_risk)
         /\ lost' = lost \ {reply.mac}
  <2>1. CASE SendAtRisk
    BY <2>1 DEF SendAtRisk
  <2>2. CASE SaveReplaces \/ OtherStep
    <3>1. ~(pc = "send" /\ pc' = "sweep")
      BY <2>2 DEF SaveReplaces, Save, OtherStep, EnterRecv, RecvTimeout, NothingToSweep, Sweep, Handle,
                  decide, Ignore, Offer, PoolExhausted, RequestIgnored, AckStatic, AckDynamic, Nak,
                  Release, Decline, InformIgnored, InformAck, ForUs, Start, StartWith, Crash, Stop,
                  Tick, SetClock
    <3> QED
      BY <2>2, <3>1 DEF SaveReplaces, OtherStep, Send
  <2> QED
    BY <2>1, <2>2
<1>7. ASSUME NEW m, m \notin lost' PROVE Kept(m)'
  <2>1. CASE m \in lost
    BY <1>2, <1>6, <1>7, <2>1, AckIsKept
  <2>2. CASE m \notin lost
    BY <1>1, <1>2, <2>2, KeptStep DEF LossInv
  <2> QED
    BY <2>1, <2>2
<1>8. ASSUME NEW m, m \notin at_risk' \cup lost' PROVE Settled(m)'
  <2> SUFFICES ASSUME older' # {} PROVE Settled(m)'
    BY DEF Settled
  <2>1. m \notin at_risk \cup lost
    BY <1>6, <1>8
  <2>2. Settled(m) /\ Kept(m)
    BY <2>1 DEF LossInv
  <2>3. ~(Send /\ reply.type = "ACK" /\ m = reply.mac)
    BY <1>6, <1>8
  <2> SUFFICES ASSUME m \in DOMAIN promise', Outstanding(m)', ~IsStatic(m), NEW f \in older'
               PROVE  Covers(f, m, promise[m]) /\ promise'[m] = promise[m]
    BY DEF Settled, Covers
  <2>4. m \in DOMAIN promise /\ Outstanding(m) /\ promise'[m] = promise[m]
    BY <1>1, <1>3, <2>3, PromiseStays
  <2> QED
    BY <1>4, <2>2, <2>4 DEF Settled, Kept
<1> QED
  BY <1>2, <1>5, <1>7, <1>8 DEF LossInv

LEMMA LossOfPower == ASSUME LossInv, LosePower PROVE LossInv'
<1>1. /\ UNCHANGED <<now, pc, by_mac, promise, reply>> /\ pc = "down"
      /\ file' \in older \cup {file} /\ older' = {}
      /\ at_risk' = {} /\ lost' = lost \cup UndoneBy(file')
  BY DEF LosePower, Disk!PowerLoss, memory, history
<1>2. IsLeaseMap(file', Mac) /\ OneMacPerIp(file')
  BY <1>1 DEF LossInv, StoreInv, TypeOK, OneOwner
<1>3. TypeOK'
  BY <1>2 DEF LosePower, LossInv, StoreInv, TypeOK, memory, history
<1>4. StoreInv'
  BY <1>1, <1>2, <1>3 DEF LossInv, StoreInv, OneOwner, PromisesFit, AckStored, Unsaved
<1>5. ASSUME NEW m, m \notin lost' PROVE Kept(m)'
  <2>1. Kept(m) /\ m \notin lost
    BY <1>1, <1>5 DEF LossInv
  <2>2. CASE m \in at_risk
    BY <1>1, <1>5, <2>2 DEF UndoneBy, Kept, Outstanding, Covers
  <2>3. CASE m \notin at_risk
    <3>1. Settled(m)
      BY <2>1, <2>3 DEF LossInv
    <3> QED
      BY <1>1, <2>1, <3>1 DEF Kept, Settled, Outstanding, Covers
  <2> QED
    BY <2>2, <2>3
<1> QED
  BY <1>1, <1>4, <1>5 DEF LossInv, Settled

LEMMA LossStep == LossInv /\ [LossNext]_disk_vars => LossInv'
<1> SUFFICES ASSUME LossInv, [LossNext]_disk_vars PROVE LossInv'
  OBVIOUS
<1>1. CASE UNCHANGED vars /\ UNCHANGED lost /\ (UNCHANGED <<older, at_risk>> \/ older' = {})
  <2>1. StoreInv' /\ \A m : Kept(m) => Kept(m)'
    BY <1>1, StoreStep, KeptStep DEF LossInv, SoundStep
  <2> QED
    BY <1>1, <2>1 DEF LossInv, Settled, Outstanding, Covers, vars
<1>2. CASE Settle
  BY <1>1, <1>2 DEF Settle, Disk!Settle
<1> QED
  BY <1>1, <1>2, LossOfServer, LossOfPower DEF LossNext, disk_vars

LEMMA LossInvariant == LossSpec => []LossInv
BY LossInits, LossStep, PTL DEF LossSpec

(* A lease whose ACK is settled on disk survives every power loss, and no  *)
(* later save puts it at risk again.                                       *)
THEOREM SettledLeasesAreDurable == LossSpec => []SettledIsDurable
<1>1. LossInv => SettledIsDurable
  BY DEF LossInv, Settled, Kept, SettledIsDurable
<1> QED
  BY <1>1, LossInvariant, PTL

(* Clients whose ACKs no power loss undid hold different addresses.        *)
THEOREM PowerLossIsConfined == LossSpec => []HarmConfined
<1>1. LossInv => HarmConfined
  BY KeptIsExclusive DEF LossInv, HarmConfined
<1> QED
  BY <1>1, LossInvariant, PTL

=============================================================================
