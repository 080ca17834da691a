---------------------------- MODULE ExchangeProofs ----------------------------
(***************************************************************************)
(* Proofs about the codec, for every datagram, every configuration and     *)
(* bytes of every width.                                                   *)
(***************************************************************************)
EXTENDS Datagram, SequenceTheorems, WellFoundedInduction, TLAPS

(* An option that fits its length byte. *)
Short == {p \in [code : OptionCode, data : Seq(Byte)] : Len(p.data) <= U8_MAX}

LEMMA OctetsAreShort ==
    ASSUME NEW o \in Octets
    PROVE  o \in Seq(Byte) /\ Len(o) = 4
<1>1. o \in Seq(Byte)
    BY SeqDef DEF Octets
<1>2. QED
    BY <1>1 DEF Octets

LEMMA DnsIsShort ==
    ASSUME NEW ips \in Seq(Octets), 4 * Len(ips) <= U8_MAX
    PROVE  octets(ips) \in Seq(Byte) /\ Len(octets(ips)) <= U8_MAX
<1> DEFINE n == 4 * Len(ips)
<1>1. n \in Nat
    OBVIOUS
<1>2. \A k \in 1 .. n : octets(ips)[k] \in Byte
  <2>1. TAKE k \in 1 .. n
  <2>2. ((k - 1) \div 4) + 1 \in 1 .. Len(ips) /\ ((k - 1) % 4) + 1 \in 1 .. 4
      OBVIOUS
  <2>3. ips[((k - 1) \div 4) + 1] \in Octets
      BY <2>2, ElementOfSeq
  <2>4. ips[((k - 1) \div 4) + 1][((k - 1) % 4) + 1] \in Byte
      BY <2>2, <2>3 DEF Octets
  <2>5. QED
      BY <2>4 DEF octets
<1>3. octets(ips) \in [1 .. n -> Byte]
    BY <1>2 DEF octets
<1>4. octets(ips) \in Seq(Byte)
    BY <1>1, <1>3, SeqDef
<1>5. Len(octets(ips)) = n
    BY <1>1, <1>3, <1>4, LenProperties
<1>6. QED
    BY <1>4, <1>5

LEMMA PushIsShort ==
    ASSUME NEW code \in Codes, NEW data \in Seq(Byte), Len(data) <= U8_MAX
    PROVE  Push(code, data) \in Seq(Short)
    BY ByteConstants DEF Push, Short

LEMMA TypeNumber ==
    ASSUME NEW type \in {"OFFER", "ACK", "NAK"}
    PROVE  <<to_u8(type)>> \in Seq(Byte) /\ Len(<<to_u8(type)>>) <= U8_MAX
<1>1. \E n \in DOMAIN from_u8 : from_u8[n] = type
  <2>1. DOMAIN from_u8 = 1 .. 8 /\ from_u8[2] = "OFFER" /\ from_u8[5] = "ACK" /\ from_u8[6] = "NAK"
      BY DEF from_u8
  <2>2. QED
      BY <2>1
<1>2. to_u8(type) \in DOMAIN from_u8
    BY <1>1 DEF to_u8
<1>3. DOMAIN from_u8 = 1 .. 8
    BY DEF from_u8
<1>4. to_u8(type) \in Byte
    BY <1>2, <1>3, ByteConstants DEF Byte
<1>5. QED
    BY <1>4, ByteConstants

(* No answer has an option that trips the assertion of push. *)
LEMMA AnswersAreShort ==
    ASSUME cfg \in Configs, NEW answer \in {"OFFER", "ACK", "NAK", "INFORM_ACK"}
    PROVE  build(answer) \in Seq(Short)
<1> DEFINE type == IF answer = "INFORM_ACK" THEN "ACK" ELSE answer
           head == Push(OPT_MSG_TYPE, <<to_u8(type)>>) \o Push(OPT_SERVER_ID, cfg.server_ip)
           lease == IF answer \in {"OFFER", "ACK"} THEN Push(OPT_LEASE_TIME, cfg.lease_time) ELSE <<>>
           router == IF cfg.router # {} /\ wants(OPT_ROUTER)
                     THEN Push(OPT_ROUTER, CHOOSE ip \in cfg.router : TRUE) ELSE <<>>
           dns == IF cfg.dns # <<>> /\ wants(OPT_DNS)
                  THEN Push(OPT_DNS, octets(cfg.dns)) ELSE <<>>
<1>1. /\ cfg.server_ip \in Octets /\ cfg.lease_time \in Octets /\ cfg.subnet_mask \in Octets
      /\ cfg.router \subseteq Octets /\ cfg.dns \in Seq(Octets) /\ 4 * Len(cfg.dns) <= U8_MAX
    BY ExchangeConstants
<1>2. \A o \in Octets : o \in Seq(Byte) /\ Len(o) <= U8_MAX
  <2>1. 4 <= U8_MAX
      BY ByteConstants
  <2>2. QED
      BY <2>1, OctetsAreShort
<1>3. type \in {"OFFER", "ACK", "NAK"}
    OBVIOUS
<1>4. Push(OPT_MSG_TYPE, <<to_u8(type)>>) \in Seq(Short)
    BY <1>3, TypeNumber, PushIsShort DEF Codes
<1>5. Push(OPT_SERVER_ID, cfg.server_ip) \in Seq(Short)
    BY <1>1, <1>2, PushIsShort DEF Codes
<1>6. Push(OPT_LEASE_TIME, cfg.lease_time) \in Seq(Short)
    BY <1>1, <1>2, PushIsShort DEF Codes
<1>7. Push(OPT_SUBNET_MASK, cfg.subnet_mask) \in Seq(Short)
    BY <1>1, <1>2, PushIsShort DEF Codes
<1>8. router \in Seq(Short)
  <2>1. CASE cfg.router # {}
    <3>1. (CHOOSE ip \in cfg.router : TRUE) \in Octets
        BY <1>1, <2>1
    <3>2. Push(OPT_ROUTER, CHOOSE ip \in cfg.router : TRUE) \in Seq(Short)
        BY <1>2, <3>1, PushIsShort DEF Codes
    <3>3. QED
        BY <3>2
  <2>2. QED
      BY <2>1
<1>9. dns \in Seq(Short)
  <2>1. Push(OPT_DNS, octets(cfg.dns)) \in Seq(Short)
      BY <1>1, DnsIsShort, PushIsShort DEF Codes
  <2>2. QED
      BY <2>1
<1>10. lease \in Seq(Short)
    BY <1>6
<1>11. head \in Seq(Short)
    BY <1>4, <1>5
<1>12. build(answer) =
          IF type = "NAK" THEN head
          ELSE head \o lease \o Push(OPT_SUBNET_MASK, cfg.subnet_mask) \o router \o dns
    BY DEF build
<1> HIDE DEF head, lease, router, dns, type
<1>13. QED
    BY <1>7, <1>8, <1>9, <1>10, <1>11, <1>12

LEMMA ConcatParts ==
    ASSUME NEW S, NEW s \in Seq(S), NEW t \in Seq(S)
    PROVE  /\ s \o t \in Seq(S) /\ Len(s \o t) = Len(s) + Len(t)
           /\ \A n \in 1 .. Len(s) : (s \o t)[n] = s[n]
           /\ \A n \in 1 .. Len(t) : (s \o t)[Len(s) + n] = t[n]
    OBVIOUS

(* What push leaves of the buffer and adds to it. *)
LEMMA PushedBytes ==
    ASSUME NEW b \in Seq(Byte), NEW code \in Byte, NEW data \in Seq(Byte), Len(data) \in Byte
    PROVE  /\ pushed(b, code, data) \in Seq(Byte)
           /\ Len(pushed(b, code, data)) = Len(b) + 2 + Len(data)
           /\ \A n \in 1 .. Len(b) : pushed(b, code, data)[n] = b[n]
           /\ pushed(b, code, data)[Len(b) + 1] = code
           /\ pushed(b, code, data)[Len(b) + 2] = Len(data)
           /\ \A n \in 1 .. Len(data) : pushed(b, code, data)[Len(b) + 2 + n] = data[n]
<1>1. PICK head \in Seq(Byte) : head = <<code, Len(data)>>
  <2>1. <<code, Len(data)>> \in Seq(Byte)
      OBVIOUS
  <2>2. QED
      BY <2>1, Zenon
<1>2. Len(head) = 2 /\ head[1] = code /\ head[2] = Len(data)
    BY <1>1
<1>3. PICK front \in Seq(Byte) : front = b \o head
    BY ConcatParts
<1>4. /\ Len(front) = Len(b) + Len(head)
      /\ \A n \in 1 .. Len(b) : front[n] = b[n]
      /\ \A n \in 1 .. Len(head) : front[Len(b) + n] = head[n]
    BY <1>3, ConcatParts
<1>5. PICK whole \in Seq(Byte) : whole = front \o data
    BY ConcatParts
<1>6. /\ Len(whole) = Len(front) + Len(data)
      /\ \A n \in 1 .. Len(front) : whole[n] = front[n]
      /\ \A n \in 1 .. Len(data) : whole[Len(front) + n] = data[n]
    BY <1>5, ConcatParts
<1>7. whole = pushed(b, code, data)
    BY <1>1, <1>3, <1>5 DEF pushed
<1>8. Len(b) \in Nat /\ Len(data) \in Nat /\ Len(front) = Len(b) + 2
    BY <1>2, <1>4
<1>9. \A n \in 1 .. Len(b) : whole[n] = b[n]
    BY <1>4, <1>6, <1>8
<1>10. whole[Len(b) + 1] = code /\ whole[Len(b) + 2] = Len(data)
    BY <1>2, <1>4, <1>6, <1>8
<1>11. QED
    BY <1>6, <1>7, <1>8, <1>9, <1>10

LEMMA OptionIsTyped ==
    ASSUME NEW c \in OptionCode, NEW b \in Nat, NEW n \in Nat
    PROVE  [code |-> c, from |-> b + 3, to |-> b + 2 + n] \in Option
    BY DEF Option

LEMMA AnswerIsBuilt ==
    ASSUME Answer
    PROVE  \E answer \in {"OFFER", "ACK", "NAK", "INFORM_ACK"} : options' = build(answer)
<1>1. PICK type \in DOMAIN Answers : \E answer \in Answers[type] : options' = build(answer)
    BY DEF Answer
<1>2. PICK answer \in Answers[type] : options' = build(answer)
    BY <1>1
<1>3. answer \in {"OFFER", "ACK", "NAK", "INFORM_ACK"}
    BY <1>1, <1>2 DEF Answers
<1>4. QED
    BY <1>2, <1>3

LEMMA TakenIsOption ==
    ASSUME TypeOK, TakeOption
    PROVE  OptionAt(buf, i) \in Option
<1>1. buf \in Seq(Byte) /\ i \in Nat \ {0}
    BY DEF TypeOK
<1>2. i \in 1 .. Len(buf) /\ i + 1 \in 1 .. Len(buf) /\ buf[i] # OPT_END /\ buf[i] # OPT_PAD
    BY <1>1 DEF TakeOption, WalkOver, HasLength
<1>3. buf[i] \in OptionCode /\ buf[i + 1] \in Nat
    BY <1>1, <1>2, ByteConstants DEF OptionCode, Byte
<1>4. QED
    BY <1>1, <1>3 DEF OptionAt, Option

(* What one push does, if its assertion holds. *)
LEMMA PushedOnce ==
    ASSUME TypeOK, PushOption, ~(Len(Pending.data) > U8_MAX)
    PROVE  /\ Pending.code \in OptionCode /\ Pending.data \in Seq(Byte)
           /\ buf' \in Seq(Byte)
           /\ Len(buf') = Len(buf) + 2 + Len(Pending.data)
           /\ \A n \in 1 .. Len(buf) : buf'[n] = buf[n]
           /\ buf'[Len(buf) + 1] = Pending.code
           /\ buf'[Len(buf) + 2] = Len(Pending.data)
           /\ \A n \in 1 .. Len(Pending.data) : buf'[Len(buf) + 2 + n] = Pending.data[n]
           /\ laid' \in Seq(Option) /\ Len(laid') = Len(laid) + 1
           /\ \A k \in 1 .. Len(laid) : laid'[k] = laid[k]
           /\ laid'[Len(laid) + 1] = [code |-> Pending.code, from |-> Len(buf) + 3,
                                      to |-> Len(buf) + 2 + Len(Pending.data)]
<1>1. /\ buf \in Seq(Byte) /\ laid \in Seq(Option)
      /\ options \in Seq([code : OptionCode, data : Seq(Byte)])
    BY DEF TypeOK
<1>2. Len(laid) \in Nat /\ Len(laid) + 1 \in 1 .. Len(options)
    BY <1>1 DEF PushOption
<1>3. Pending.code \in OptionCode /\ Pending.data \in Seq(Byte)
  <2>1. Pending \in [code : OptionCode, data : Seq(Byte)]
      BY <1>1, <1>2, ElementOfSeq DEF Pending
  <2>2. QED
      BY <2>1
<1>4. Pending.code \in Byte /\ Len(Pending.data) \in Byte
    BY <1>3, ByteConstants DEF OptionCode, Byte
<1>5. /\ Len(buf) \in Nat /\ Len(Pending.data) \in Nat
    BY <1>1, <1>3
<1>6. buf' = pushed(buf, Pending.code, Pending.data)
    BY DEF PushOption
<1>7. [code |-> Pending.code, from |-> Len(buf) + 3,
       to |-> Len(buf) + 2 + Len(Pending.data)] \in Option
    BY <1>3, <1>5, OptionIsTyped
<1>8. laid' = Append(laid, [code |-> Pending.code, from |-> Len(buf) + 3,
                            to |-> Len(buf) + 2 + Len(Pending.data)])
    BY DEF PushOption
<1>9. /\ laid' \in Seq(Option) /\ Len(laid') = Len(laid) + 1
      /\ \A k \in 1 .. Len(laid) : laid'[k] = laid[k]
      /\ laid'[Len(laid) + 1] = [code |-> Pending.code, from |-> Len(buf) + 3,
                                 to |-> Len(buf) + 2 + Len(Pending.data)]
    BY <1>1, <1>7, <1>8, AppendProperties
<1> DEFINE code == Pending.code
           data == Pending.data
<1>10. code \in Byte /\ data \in Seq(Byte) /\ Len(data) \in Byte
    BY <1>3, <1>4
<1> HIDE DEF code, data
<1>11. /\ pushed(buf, code, data) \in Seq(Byte)
       /\ Len(pushed(buf, code, data)) = Len(buf) + 2 + Len(data)
       /\ \A n \in 1 .. Len(buf) : pushed(buf, code, data)[n] = buf[n]
       /\ pushed(buf, code, data)[Len(buf) + 1] = code
       /\ pushed(buf, code, data)[Len(buf) + 2] = Len(data)
       /\ \A n \in 1 .. Len(data) : pushed(buf, code, data)[Len(buf) + 2 + n] = data[n]
    BY <1>1, <1>10, PushedBytes, ZenonT(60)
<1>12. QED
    BY <1>3, <1>6, <1>9, <1>11, Zenon DEF code, data

LEMMA BufferGrows ==
    ASSUME TypeOK, PushOption \/ finish
    PROVE  Len(buf') \in Nat /\ Len(buf) \in Nat /\ Len(buf) <= Len(buf')
<1>1. buf \in Seq(Byte)
    BY DEF TypeOK
<1>2. CASE PushOption
  <2>1. CASE Len(Pending.data) > U8_MAX
      BY <1>1, <1>2, <2>1 DEF PushOption
  <2>2. CASE ~(Len(Pending.data) > U8_MAX)
    <3>1. /\ Len(buf') = Len(buf) + 2 + Len(Pending.data)
          /\ Pending.data \in Seq(Byte) /\ buf' \in Seq(Byte)
        BY <1>2, <2>2, PushedOnce
    <3> DEFINE more == Len(Pending.data)
               before == Len(buf)
               after == Len(buf')
    <3>2. before \in Nat /\ after \in Nat /\ more \in Nat
        BY <1>1, <3>1, LenProperties, Zenon
    <3>3. after = before + 2 + more
        BY <3>1
    <3> HIDE DEF more, before, after
    <3>4. before <= after
        BY <3>2, <3>3
    <3>5. QED
        BY <3>2, <3>4 DEF before, after
  <2>3. QED
      BY <2>1, <2>2
<1>3. CASE finish
    BY <1>1, <1>3 DEF finish
<1>4. QED
    BY <1>2, <1>3

-----------------------------------------------------------------------------
(* Every variable keeps its type, and no parsed option is PAD or END.      *)
THEOREM ExchangeTypes == Steps => []TypeOK
<1>1. Init => TypeOK
    BY ExchangeConstants DEF Init, TypeOK
<1>2. ASSUME TypeOK, [Next]_vars PROVE TypeOK'
  <2> USE DEF TypeOK
  <2>1. CASE AcceptHeader \/ RejectHeader \/ Silent
      BY <1>2, <2>1 DEF AcceptHeader, RejectHeader, Silent, Final
  <2>2. CASE SkipPad
      BY <1>2, <2>2 DEF SkipPad
  <2>3. CASE TakeOption
    <3>1. OptionAt(buf, i) \in Option /\ OptionAt(buf, i).to \in Nat
        BY <1>2, <2>3, TakenIsOption DEF Option
    <3>2. QED
        BY <1>2, <2>3, <3>1 DEF TakeOption
  <2>4. CASE EndWalk
      BY <1>2, <2>4 DEF EndWalk, Final
  <2>5. CASE Answer
    <3>1. PICK answer \in {"OFFER", "ACK", "NAK", "INFORM_ACK"} : options' = build(answer)
        BY <2>5, AnswerIsBuilt
    <3>2. options' \in Seq(Short)
        BY <1>2, <3>1, AnswersAreShort
    <3>3. options' \in Seq([code : OptionCode, data : Seq(Byte)])
      <4>1. Short \subseteq [code : OptionCode, data : Seq(Byte)]
          BY DEF Short
      <4>2. QED
          BY <3>2, <4>1, SeqMonotonic
    <3>4. Len(options') \in Nat
        BY <3>3
    <3>5. QED
        BY <1>2, <2>5, <3>3, <3>4 DEF Answer
  <2>6. CASE PushOption
    <3>1. CASE Len(Pending.data) > U8_MAX
        BY <1>2, <2>6, <3>1 DEF PushOption, Final
    <3>2. CASE ~(Len(Pending.data) > U8_MAX)
      <4>1. buf' \in Seq(Byte) /\ laid' \in Seq(Option) /\ Len(laid') = Len(laid) + 1
          BY <1>2, <2>6, <3>2, PushedOnce
      <4>2. Len(laid) + 1 <= Len(options)
          BY <1>2, <2>6 DEF PushOption
      <4>3. QED
          BY <1>2, <2>6, <3>2, <4>1, <4>2 DEF PushOption
    <3>3. QED
        BY <3>1, <3>2
  <2>7. CASE finish
      BY <1>2, <2>7, ByteConstants DEF finish, OPT_END, Byte
  <2>8. CASE UNCHANGED vars
      BY <1>2, <2>8 DEF vars
  <2>9. QED
      BY <1>2, <2>1, <2>2, <2>3, <2>4, <2>5, <2>6, <2>7, <2>8 DEF Next
<1>3. QED
    BY <1>1, <1>2, PTL DEF Steps

-----------------------------------------------------------------------------
(* The walk stays inside the buffer, whatever the lengths claim: the length *)
(* byte is only read if there is one, and an option is only taken if its    *)
(* value ends where the buffer does or before.                              *)
THEOREM WalkStaysInside == Steps => []NeverOverreads
<1>1. Init => NeverOverreads
    BY ExchangeConstants DEF Init, NeverOverreads
<1>2. ASSUME TypeOK, NeverOverreads, [Next]_vars PROVE NeverOverreads'
  <2> USE DEF NeverOverreads
  <2>1. CASE AcceptHeader \/ RejectHeader \/ Silent \/ EndWalk
      BY <1>2, <2>1 DEF AcceptHeader, RejectHeader, Silent, EndWalk
  <2>2. CASE SkipPad
    <3>1. i <= Len(buf)
        BY <1>2, <2>2 DEF SkipPad, WalkOver, TypeOK
    <3>2. i \in Nat /\ Len(buf) \in Nat
        BY <1>2 DEF TypeOK
    <3>3. QED
        BY <1>2, <2>2, <3>1, <3>2 DEF SkipPad
  <2>3. CASE TakeOption
    <3>1. i \in Nat \ {0} /\ Len(buf) \in Nat
        BY <1>2 DEF TypeOK
    <3>2. OptionAt(buf, i).from >= 3 /\ OptionAt(buf, i).to <= Len(buf)
      <4>1. Fits(buf, i)
          BY <1>2, <2>3 DEF TakeOption, WalkOver
      <4>2. QED
          BY <3>1, <4>1 DEF Fits, OptionAt
    <3>3. OptionAt(buf, i) \in Option
        BY <1>2, <2>3, TakenIsOption
    <3>4. /\ Len(items') = Len(items) + 1
          /\ \A k \in 1 .. Len(items) : items'[k] = items[k]
          /\ items'[Len(items) + 1] = OptionAt(buf, i)
        BY <1>2, <2>3, <3>3, AppendProperties DEF TakeOption, TypeOK
    <3>5. items \in Seq(Option) /\ items' \in Seq(Option)
        BY <1>2, <2>3, <3>3, AppendProperties DEF TakeOption, TypeOK
    <3>6. \A k \in DOMAIN items' : items'[k].from >= 3 /\ items'[k].to <= Len(buf)
        BY <1>2, <3>2, <3>4, <3>5
    <3>7. i' <= Len(buf) + 1
        BY <2>3, <3>1, <3>2, <3>3 DEF TakeOption, Option
    <3>8. QED
        BY <2>3, <3>6, <3>7 DEF TakeOption
  <2>4. CASE Answer
      BY <1>2, <2>4 DEF Answer
  <2>5. CASE PushOption \/ finish
    <3>1. Len(buf') \in Nat /\ Len(buf) \in Nat /\ Len(buf) <= Len(buf')
        BY <1>2, <2>5, BufferGrows
    <3>2. \A k \in DOMAIN items : items[k].to \in Nat
      <4>1. items \in Seq(Option)
          BY <1>2 DEF TypeOK
      <4>2. \A k \in DOMAIN items : items[k] \in Option
          BY <4>1
      <4>3. QED
          BY <4>2 DEF Option
    <3>3. i \in Nat
        BY <1>2 DEF TypeOK
    <3>4. i' = i /\ items' = items
        BY <2>5 DEF PushOption, finish
    <3>5. QED
        BY <1>2, <3>1, <3>2, <3>3, <3>4
  <2>7. CASE UNCHANGED vars
      BY <1>2, <2>7 DEF vars
  <2>8. QED
      BY <1>2, <2>1, <2>2, <2>3, <2>4, <2>5, <2>7 DEF Next
<1>3. QED
    BY <1>1, <1>2, ExchangeTypes, PTL DEF Steps

-----------------------------------------------------------------------------
(***************************************************************************)
(* The round trip.  Options are laid one behind the other; Front is where  *)
(* the first k of them end.                                                *)
(***************************************************************************)
Front(l, k) == IF k = 0 THEN 0 ELSE l[k].to

Placed(b, l, o, k) ==
    /\ l[k] = [code |-> o[k].code, from |-> Front(l, k - 1) + 3,
               to |-> Front(l, k - 1) + 2 + Len(o[k].data)]
    /\ l[k].to <= Len(b)
    /\ b[Front(l, k - 1) + 1] = o[k].code
    /\ b[Front(l, k - 1) + 2] = Len(o[k].data)
    /\ \A n \in 1 .. Len(o[k].data) : b[Front(l, k - 1) + 2 + n] = o[k].data[n]

(* What is written lies where laid says; a walk over it has taken the      *)
(* options of laid, so far, and stands behind the last one it took.        *)
WrittenInv ==
    /\ phase # "panicked"
    /\ options \in Seq(Short)
    /\ \A k \in 1 .. Len(laid) : Placed(buf, laid, options, k)
    /\ phase = "build" => Len(buf) = Front(laid, Len(laid)) /\ items = <<>> /\ i = 1
    /\ phase \in {"reply", "done"} =>
          /\ Len(laid) = Len(options)
          /\ Len(buf) = Front(laid, Len(laid)) + 1 /\ buf[Len(buf)] = OPT_END
          /\ Len(items) <= Len(laid) /\ \A k \in 1 .. Len(items) : items[k] = laid[k]
          /\ i = Front(laid, Len(items)) + 1
    /\ phase = "done" => Len(items) = Len(laid)

LEMMA FrontIsNat ==
    ASSUME NEW l \in Seq(Option), NEW k \in 0 .. Len(l)
    PROVE  Front(l, k) \in Nat
<1>1. CASE k = 0
    BY <1>1 DEF Front
<1>2. CASE k # 0
  <2>1. l[k] \in Option
      BY <1>2, ElementOfSeq
  <2>2. QED
      BY <1>2, <2>1 DEF Front, Option
<1>3. QED
    BY <1>1, <1>2

(* Neither longer buffers nor more options disturb what was laid. *)
LEMMA StillPlaced ==
    ASSUME NEW b \in Seq(Byte), NEW c \in Seq(Byte), NEW l \in Seq(Option), NEW m \in Seq(Option),
           NEW o \in Seq(Short), Len(l) <= Len(o),
           Len(b) <= Len(c), \A n \in 1 .. Len(b) : c[n] = b[n],
           Len(l) <= Len(m), \A k \in 1 .. Len(l) : m[k] = l[k],
           NEW k \in 1 .. Len(l), Placed(b, l, o, k)
    PROVE  Placed(c, m, o, k)
<1>1. k - 1 \in 0 .. Len(l) /\ (k - 1 # 0 => k - 1 \in 1 .. Len(l))
    OBVIOUS
<1>2. Front(m, k - 1) = Front(l, k - 1) /\ Front(l, k - 1) \in Nat
    BY <1>1, FrontIsNat DEF Front
<1>3. o[k].data \in Seq(Byte)
  <2>1. o[k] \in Short
      BY ElementOfSeq
  <2>2. QED
      BY <2>1 DEF Short
<1> DEFINE f == Front(l, k - 1)
           d == o[k].data
           len == Len(d)
<1>4. len \in Nat /\ f \in Nat /\ Len(b) \in Nat
    BY <1>2, <1>3
<1>5. f + 2 + len <= Len(b)
    BY DEF Placed
<1> HIDE DEF f, len
<1>6. /\ f + 1 \in 1 .. Len(b) /\ f + 2 \in 1 .. Len(b)
      /\ \A n \in 1 .. len : f + 2 + n \in 1 .. Len(b)
    BY <1>4, <1>5
<1>7. c[f + 1] = b[f + 1] /\ c[f + 2] = b[f + 2]
    BY <1>6
<1>8. \A n \in 1 .. len : c[f + 2 + n] = b[f + 2 + n]
    BY <1>6
<1>9. m[k] = l[k] /\ l[k].to <= Len(c)
  <2>1. l[k].to = f + 2 + len
      BY DEF Placed, f, len
  <2>2. QED
      BY <1>4, <1>5, <2>1
<1>10. QED
    BY <1>2, <1>7, <1>8, <1>9 DEF Placed, f, len

(* At the end of what it took, a walk finds the next option that was laid. *)
LEMMA NextIsLaid ==
    ASSUME NEW b \in Seq(Byte), NEW l \in Seq(Option), NEW o \in Seq(Short), Len(l) <= Len(o),
           NEW n \in 0 .. Len(l), n < Len(l), Placed(b, l, o, n + 1)
    PROVE  LET at == Front(l, n) + 1 IN
           ~WalkOver(b, at) /\ b[at] # OPT_PAD /\ OptionAt(b, at) = l[n + 1]
<1> DEFINE f == Front(l, n)
           len == Len(o[n + 1].data)
<1>1. n + 1 \in 1 .. Len(l) /\ n + 1 \in 1 .. Len(o) /\ (n + 1) - 1 = n
    OBVIOUS
<1>2. o[n + 1].code \in OptionCode /\ o[n + 1].data \in Seq(Byte)
  <2>1. o[n + 1] \in Short
      BY <1>1, ElementOfSeq
  <2>2. QED
      BY <2>1 DEF Short
<1>3. f \in Nat /\ len \in Nat /\ Len(b) \in Nat
    BY <1>2, FrontIsNat
<1>4. /\ l[n + 1] = [code |-> o[n + 1].code, from |-> f + 3, to |-> f + 2 + len]
      /\ l[n + 1].to <= Len(b)
      /\ b[f + 1] = o[n + 1].code /\ b[f + 2] = len
    BY <1>1 DEF Placed
<1>5. f + 2 + len <= Len(b)
    BY <1>3, <1>4
<1> HIDE DEF f, len
<1>6. b[f + 1] # OPT_PAD /\ b[f + 1] # OPT_END
    BY <1>2, <1>4 DEF OptionCode
<1>7. HasLength(b, f + 1) /\ Fits(b, f + 1)
  <2>1. b[(f + 1) + 1] = len
      BY <1>3, <1>4
  <2>2. QED
      BY <1>3, <1>5, <2>1 DEF HasLength, Fits
<1>8. ~WalkOver(b, f + 1)
    BY <1>3, <1>5, <1>6, <1>7 DEF WalkOver
<1>9. OptionAt(b, f + 1) = l[n + 1]
  <2>1. (f + 1) + 1 = f + 2 /\ (f + 1) + 2 = f + 3 /\ (f + 1) + 1 + len = f + 2 + len
      BY <1>3
  <2>2. b[(f + 1) + 1] = len
      BY <1>4, <2>1
  <2>3. OptionAt(b, f + 1) = [code |-> b[f + 1], from |-> f + 3, to |-> f + 2 + len]
      BY <2>1, <2>2 DEF OptionAt
  <2>4. QED
      BY <1>4, <2>3
<1>10. QED
    BY <1>6, <1>8, <1>9 DEF f

(* A push lays its option behind the others. *)
LEMMA JustPlaced ==
    ASSUME TypeOK, WrittenInv, PushOption
    PROVE  /\ ~(Len(Pending.data) > U8_MAX)
           /\ \A k \in 1 .. Len(laid') : Placed(buf', laid', options', k)
           /\ Len(buf') = Front(laid', Len(laid'))
<1>1. /\ buf \in Seq(Byte) /\ laid \in Seq(Option) /\ options \in Seq(Short)
      /\ phase = "build" /\ Len(laid) < Len(options) /\ options' = options
      /\ Len(buf) = Front(laid, Len(laid))
    BY DEF TypeOK, WrittenInv, PushOption
<1> DEFINE top == Len(laid)
           d == Pending.data
<1>2. top \in Nat /\ Len(buf) \in Nat /\ top + 1 \in 1 .. Len(options)
    BY <1>1
<1>3. Pending \in Short
    BY <1>1, <1>2, ElementOfSeq DEF Pending
<1>4. ~(Len(Pending.data) > U8_MAX)
    BY <1>3, ByteConstants DEF Short
<1>5. d \in Seq(Byte) /\ Len(d) \in Nat
    BY <1>3 DEF Short
<1>6. /\ buf' \in Seq(Byte)
      /\ Len(buf') = Len(buf) + 2 + Len(d)
      /\ \A n \in 1 .. Len(buf) : buf'[n] = buf[n]
      /\ buf'[Len(buf) + 1] = Pending.code
      /\ buf'[Len(buf) + 2] = Len(d)
      /\ \A n \in 1 .. Len(d) : buf'[Len(buf) + 2 + n] = d[n]
      /\ laid' \in Seq(Option) /\ Len(laid') = top + 1
      /\ \A k \in 1 .. top : laid'[k] = laid[k]
      /\ laid'[top + 1] = [code |-> Pending.code, from |-> Len(buf) + 3, to |-> Len(buf) + 2 + Len(d)]
    BY <1>4, PushedOnce, Zenon
<1>7. \A k \in 1 .. top : Placed(buf', laid', options, k)
  <2>1. TAKE k \in 1 .. top
  <2>2. Placed(buf, laid, options, k)
      BY DEF WrittenInv
  <2>3. Len(buf) <= Len(buf') /\ Len(laid) <= Len(laid')
    <3>1. Len(laid) <= Len(laid')
        BY <1>2, <1>6
    <3>2. Len(buf) <= Len(buf')
        BY BufferGrows
    <3>3. QED
        BY <3>1, <3>2
  <2>4. Len(laid) <= Len(options)
      BY <1>1, <1>2
  <2>5. QED
      BY <1>1, <1>6, <2>2, <2>3, <2>4, StillPlaced
<1>8. Front(laid', top) = Len(buf)
  <2>1. CASE top = 0
      BY <1>1, <2>1 DEF Front
  <2>2. CASE top # 0
    <3>1. top \in 1 .. top
        BY <1>2, <2>2
    <3>2. laid'[top] = laid[top]
        BY <1>6, <3>1, Zenon
    <3>3. Front(laid, top) = laid[top].to /\ Front(laid', top) = laid'[top].to
        BY <2>2, Zenon DEF Front
    <3>4. Len(buf) = Front(laid, top)
        BY <1>1, Zenon
    <3>5. QED
        BY <3>2, <3>3, <3>4, Zenon
  <2>3. QED
      BY <2>1, <2>2
<1>9. laid'[top + 1].to = Len(buf')
    BY <1>6
<1>10. Placed(buf', laid', options, top + 1)
  <2>1. (top + 1) - 1 = top
      BY <1>2
  <2>2. options[top + 1] = Pending
      BY DEF Pending
  <2>3. Len(buf') <= Len(buf')
      BY <1>6
  <2>4. QED
      BY <1>6, <1>8, <1>9, <2>1, <2>2, <2>3 DEF Placed
<1>11. \A k \in 1 .. Len(laid') : Placed(buf', laid', options, k)
  <2>1. \A k \in 1 .. Len(laid') : k \in 1 .. top \/ k = top + 1
      BY <1>2, <1>6
  <2>2. QED
      BY <1>7, <1>10, <2>1
<1>12. Len(buf') = Front(laid', Len(laid'))
  <2>1. Len(laid') = top + 1 /\ top + 1 # 0
      BY <1>2, <1>6
  <2>2. QED
      BY <1>9, <2>1 DEF Front
<1>13. QED
    BY <1>1, <1>4, <1>11, <1>12

LEMMA FrontInReply ==
    ASSUME TypeOK, WrittenInv, phase = "reply"
    PROVE  /\ Len(items) < Len(laid) =>
                 /\ ~WalkOver(buf, i) /\ buf[i] # OPT_PAD
                 /\ OptionAt(buf, i) = laid[Len(items) + 1]
           /\ ~(Len(items) < Len(laid)) => Len(items) = Len(laid) /\ WalkOver(buf, i)
<1>1. /\ buf \in Seq(Byte) /\ laid \in Seq(Option) /\ options \in Seq(Short)
      /\ items \in Seq(Option) /\ Len(laid) = Len(options) /\ Len(items) <= Len(laid)
      /\ i = Front(laid, Len(items)) + 1
      /\ Len(buf) = Front(laid, Len(laid)) + 1 /\ buf[Len(buf)] = OPT_END
    BY DEF TypeOK, WrittenInv
<1>2. Len(items) \in 0 .. Len(laid) /\ Len(laid) \in Nat /\ Len(laid) <= Len(options)
    BY <1>1
<1>3. CASE Len(items) < Len(laid)
  <2>1. Len(items) + 1 \in 1 .. Len(laid)
      BY <1>2, <1>3
  <2>2. Placed(buf, laid, options, Len(items) + 1)
      BY <2>1 DEF WrittenInv
  <2>3. QED
      BY <1>1, <1>2, <1>3, <2>2, NextIsLaid
<1>4. CASE ~(Len(items) < Len(laid))
  <2>1. Len(items) = Len(laid)
      BY <1>2, <1>4
  <2>2. i = Len(buf)
      BY <1>1, <2>1
  <2>3. QED
      BY <1>1, <1>4, <2>1, <2>2 DEF WalkOver
<1>5. QED
    BY <1>3, <1>4

LEMMA WrittenStep ==
    ASSUME TypeOK, TypeOK', WrittenInv, [Next]_vars
    PROVE  WrittenInv'
<1>1. CASE AcceptHeader \/ RejectHeader \/ Silent
    BY <1>1 DEF AcceptHeader, RejectHeader, Silent, WrittenInv
<1>2. CASE SkipPad
  <2>1. phase = "request"
      BY <1>2, FrontInReply DEF SkipPad, Walking
  <2>2. QED
      BY <1>2, <2>1 DEF SkipPad, WrittenInv
<1>3. CASE TakeOption
  <2>1. CASE phase = "request"
      BY <1>3, <2>1 DEF TakeOption, WrittenInv
  <2>2. CASE phase = "reply"
    <3>1. Len(items) < Len(laid) /\ OptionAt(buf, i) = laid[Len(items) + 1]
        BY <1>3, <2>2, FrontInReply DEF TakeOption
    <3>2. items \in Seq(Option) /\ Len(items) \in Nat /\ Len(laid) \in Nat
        BY DEF TypeOK
    <3>3. OptionAt(buf, i) \in Option
        BY <1>3, TakenIsOption
    <3>4. /\ Len(items') = Len(items) + 1
          /\ \A k \in 1 .. Len(items) : items'[k] = items[k]
          /\ items'[Len(items) + 1] = laid[Len(items) + 1]
        BY <1>3, <3>1, <3>2, <3>3, AppendProperties DEF TakeOption
    <3>5. Len(items') <= Len(laid)
        BY <3>1, <3>2, <3>4
    <3>6. \A k \in 1 .. Len(items') : items'[k] = laid[k]
      <4>1. \A k \in 1 .. Len(items') : k \in 1 .. Len(items) \/ k = Len(items) + 1
          BY <3>2, <3>4
      <4>2. \A k \in 1 .. Len(items) : items[k] = laid[k]
          BY <2>2 DEF WrittenInv
      <4>3. QED
          BY <3>4, <4>1, <4>2
    <3>7. i' = Front(laid, Len(items')) + 1
      <4>1. Len(items') # 0
          BY <3>2, <3>4
      <4>2. i' = laid[Len(items) + 1].to + 1
          BY <1>3, <3>1 DEF TakeOption
      <4>3. QED
          BY <3>4, <4>1, <4>2 DEF Front
    <3>8. UNCHANGED <<phase, buf, options, laid>>
        BY <1>3 DEF TakeOption
    <3>9. QED
        BY <2>2, <3>5, <3>6, <3>7, <3>8 DEF WrittenInv
  <2>3. QED
      BY <1>3, <2>1, <2>2 DEF TakeOption, Walking
<1>4. CASE EndWalk
  <2>1. CASE phase = "request"
      BY <1>4, <2>1 DEF EndWalk, WrittenInv
  <2>2. CASE phase = "reply"
    <3>1. Len(items) = Len(laid)
        BY <1>4, <2>2, FrontInReply DEF EndWalk
    <3>2. phase' = "done" /\ UNCHANGED <<buf, i, items, options, laid>>
        BY <1>4, <2>2 DEF EndWalk
    <3>3. QED
        BY <2>2, <3>1, <3>2 DEF WrittenInv
  <2>3. QED
      BY <1>4, <2>1, <2>2 DEF EndWalk, Walking
<1>5. CASE Answer
  <2>1. options' \in Seq(Short)
    <3>1. cfg \in Configs
        BY DEF TypeOK
    <3>2. QED
        BY <1>5, <3>1, AnswerIsBuilt, AnswersAreShort
  <2>2. /\ phase' = "build" /\ buf' = <<>> /\ i' = 1 /\ items' = <<>> /\ laid' = <<>>
      BY <1>5 DEF Answer
  <2>3. Len(laid') = 0 /\ Len(buf') = 0 /\ Front(laid', 0) = 0
      BY <2>2 DEF Front
  <2>4. QED
      BY <2>1, <2>2, <2>3 DEF WrittenInv
<1>6. CASE PushOption
  <2>1. /\ \A k \in 1 .. Len(laid') : Placed(buf', laid', options', k)
        /\ Len(buf') = Front(laid', Len(laid'))
        /\ ~(Len(Pending.data) > U8_MAX)
      BY <1>6, JustPlaced
  <2>2. phase = "build" /\ phase' = phase /\ UNCHANGED <<i, items, options>>
      BY <1>6, <2>1 DEF PushOption
  <2>3. QED
      BY <2>1, <2>2 DEF WrittenInv
<1>7. CASE finish
  <2>1. /\ phase = "build" /\ phase' = "reply" /\ Len(laid) = Len(options)
        /\ buf' = Append(buf, OPT_END) /\ UNCHANGED <<i, items, options, laid>>
      BY <1>7 DEF finish
  <2>2. /\ buf \in Seq(Byte) /\ laid \in Seq(Option) /\ OPT_END \in Byte
        /\ options \in Seq(Short) /\ buf' \in Seq(Byte)
        /\ items = <<>> /\ i = 1 /\ Len(buf) = Front(laid, Len(laid))
      BY <2>1, ByteConstants DEF TypeOK, WrittenInv, OPT_END, Byte
  <2>3. /\ Len(buf') = Len(buf) + 1 /\ buf'[Len(buf) + 1] = OPT_END
        /\ \A n \in 1 .. Len(buf) : buf'[n] = buf[n]
      BY <2>1, <2>2, AppendProperties
  <2>4. \A k \in 1 .. Len(laid) : Placed(buf', laid, options, k)
    <3>1. TAKE k \in 1 .. Len(laid)
    <3>2. Placed(buf, laid, options, k)
        BY DEF WrittenInv
    <3>3. Len(buf) <= Len(buf') /\ Len(laid) <= Len(laid) /\ Len(laid) <= Len(options)
        BY <2>1, <2>2, <2>3, BufferGrows, <1>7
    <3>4. QED
        BY <2>2, <2>3, <3>2, <3>3, StillPlaced
  <2>5. Len(items) = 0 /\ Front(laid, 0) = 0 /\ Len(laid) \in Nat
      BY <2>2 DEF Front
  <2>6. QED
      BY <2>1, <2>2, <2>3, <2>4, <2>5 DEF WrittenInv
<1>8. CASE UNCHANGED vars
    BY <1>8 DEF vars, WrittenInv
<1>9. QED
    BY <1>1, <1>2, <1>3, <1>4, <1>5, <1>6, <1>7, <1>8 DEF Next

(* What was placed is read as it was pushed. *)
LEMMA PlacedIsRead ==
    ASSUME NEW b \in Seq(Byte), NEW l \in Seq(Option), NEW o \in Seq(Short), Len(l) = Len(o),
           NEW k \in 1 .. Len(l), Placed(b, l, o, k)
    PROVE  l[k].code = o[k].code /\ value(b, l[k]) = o[k].data
<1> DEFINE f == Front(l, k - 1)
           d == o[k].data
<1>1. d \in Seq(Byte) /\ Len(d) \in Nat
  <2>1. o[k] \in Short
      BY ElementOfSeq
  <2>2. QED
      BY <2>1 DEF Short
<1>2. f \in Nat /\ Len(b) \in Nat
    BY FrontIsNat
<1>3. /\ l[k].code = o[k].code /\ l[k].from = f + 3 /\ l[k].to = f + 2 + Len(d)
      /\ f + 2 + Len(d) <= Len(b)
      /\ \A n \in 1 .. Len(d) : b[f + 2 + n] = d[n]
    BY DEF Placed
<1> HIDE DEF f, d
<1>4. PICK from \in Int, to \in Int : from = f + 3 /\ to = f + 2 + Len(d)
    BY <1>1, <1>2
<1>5. \A n \in from .. to : b[n] \in Byte
    BY <1>1, <1>2, <1>3, <1>4
<1> DEFINE s == SubSeq(b, from, to)
<1>6. /\ s \in Seq(Byte)
      /\ Len(s) = IF from <= to THEN to - from + 1 ELSE 0
      /\ \A n \in 1 .. to - from + 1 : s[n] = b[from + n - 1]
    BY <1>5, SubSeqProperties, SMTT(40)
<1> HIDE DEF s
<1>7. Len(s) = Len(d)
    BY <1>1, <1>2, <1>4, <1>6
<1>8. \A n \in 1 .. Len(s) : s[n] = d[n]
  <2>1. TAKE n \in 1 .. Len(s)
  <2>2. n \in 1 .. to - from + 1 /\ from + n - 1 = f + 2 + n /\ n \in 1 .. Len(d)
      BY <1>1, <1>2, <1>4, <1>7
  <2>3. QED
      BY <1>3, <1>6, <2>2
<1>9. s = d
    BY <1>1, <1>6, <1>7, <1>8, SeqEqual
<1>10. QED
    BY <1>3, <1>4, <1>9 DEF value, d, s

(* Whatever the configuration and whatever was asked for, a client reads   *)
(* the options that the server pushed, in order, each with its value, and  *)
(* the assertion of push does not fire.                                    *)
THEOREM AnswersAreReadable == Steps => []RoundTrip
<1>1. Init => WrittenInv
    BY DEF Init, WrittenInv
<1>2. TypeOK /\ TypeOK' /\ WrittenInv /\ [Next]_vars => WrittenInv'
    BY WrittenStep
<1>3. ASSUME TypeOK, WrittenInv PROVE RoundTrip
  <2>1. CASE phase = "done"
    <3>1. /\ buf \in Seq(Byte) /\ laid \in Seq(Option) /\ items \in Seq(Option)
          /\ options \in Seq(Short) /\ Len(laid) = Len(options) /\ Len(items) = Len(laid)
          /\ \A k \in 1 .. Len(items) : items[k] = laid[k]
          /\ \A k \in 1 .. Len(laid) : Placed(buf, laid, options, k)
        BY <1>3, <2>1 DEF TypeOK, WrittenInv
    <3>2. items = laid
        BY <3>1, SeqEqual
    <3>3. \A k \in 1 .. Len(laid) :
             laid[k].code = options[k].code /\ value(buf, laid[k]) = options[k].data
        BY <3>1, PlacedIsRead
    <3>4. DOMAIN items = 1 .. Len(laid)
        BY <3>1
    <3>5. QED
        BY <2>1, <3>1, <3>2, <3>3, <3>4 DEF RoundTrip
  <2>2. CASE phase # "done"
      BY <1>3, <2>2 DEF RoundTrip, WrittenInv
  <2>3. QED
      BY <2>1, <2>2
<1>4. QED
    BY <1>1, <1>2, <1>3, ExchangeTypes, PTL DEF Steps

-----------------------------------------------------------------------------
(***************************************************************************)
(* The walk and the grammar.  What the options from a position on say is a *)
(* recursive function; that it is one is an induction over positions, from *)
(* the end of the area to its beginning.                                   *)
(***************************************************************************)
(* A set of positions that holds the last one, and every one from which    *)
(* all later ones are in it, holds them all.                               *)
LEMMA Downward ==
    ASSUME NEW n \in Nat \ {0}, NEW S, n \in S,
           \A p \in 1 .. n - 1 : (p + 1) .. n \subseteq S => p \in S
    PROVE  1 .. n \subseteq S
<1> DEFINE bad == {m \in Nat : m < n /\ n - m \notin S}
<1>1. SUFFICES ASSUME bad # {} PROVE FALSE
  <2>1. ASSUME NEW p \in 1 .. n, bad = {} PROVE p \in S
    <3>1. PICK m : m = n - p
        OBVIOUS
    <3>2. m \in Nat /\ m < n /\ n - m = p
        BY <3>1
    <3>3. QED
        BY <2>1, <3>2
  <2>2. QED
      BY <2>1
<1>2. bad \subseteq Nat
    OBVIOUS
<1> HIDE DEF bad
<1>3. PICK m \in bad : \A k \in bad : ~(<<k, m>> \in OpToRel(<, Nat))
    BY <1>1, <1>2, NatLessThanWellFounded, WFMin
<1>4. m \in Nat /\ m < n /\ n - m \notin S
    BY <1>3 DEF bad
<1>5. m # 0
    BY <1>4
<1>6. n - m \in 1 .. n - 1
    BY <1>4, <1>5
<1>7. (n - m + 1) .. n \subseteq S
  <2>1. SUFFICES ASSUME NEW q \in (n - m + 1) .. n, q \notin S PROVE FALSE
      OBVIOUS
  <2>2. n - q \in Nat /\ n - q < m /\ n - q < n /\ n - (n - q) = q
      BY <1>4
  <2>3. n - q \in bad
      BY <2>1, <2>2 DEF bad
  <2>4. <<n - q, m>> \in OpToRel(<, Nat)
      BY <1>4, <2>2 DEF OpToRel
  <2>5. QED
      BY <1>3, <2>3, <2>4
<1>8. QED
    BY <1>4, <1>6, <1>7

(* What an area says from position p on, by what f says of later ones.     *)
SaysAt(area, f, p) ==
    IF p > Len(area) \/ area[p] = OPT_END THEN <<>>
    ELSE IF area[p] = OPT_PAD THEN f[p + 1]
    ELSE IF p = Len(area) \/ area[p + 1] > Len(area) - p - 1 THEN <<>>
    ELSE <<[code |-> area[p], data |-> SubSeq(area, p + 2, p + 1 + area[p + 1])]>>
             \o f[p + 2 + area[p + 1]]

LEMMA SaidIsChosen ==
    ASSUME NEW area, NEW f, f = [p \in 1 .. Len(area) + 1 |-> SaysAt(area, f, p)]
    PROVE  SaidFrom(area) = [p \in 1 .. Len(area) + 1 |-> SaysAt(area, SaidFrom(area), p)]
    BY DEF SaidFrom, SaysAt

(* What is said of a position depends on later positions only.             *)
LEMMA SaysLooksAhead ==
    ASSUME NEW area \in Seq(Byte), NEW f, NEW g, NEW p \in 1 .. Len(area) + 1,
           \A q \in (p + 1) .. Len(area) + 1 : f[q] = g[q]
    PROVE  SaysAt(area, f, p) = SaysAt(area, g, p)
<1>1. Len(area) \in Nat
    OBVIOUS
<1>2. p <= Len(area) => p + 1 \in (p + 1) .. Len(area) + 1
    BY <1>1
<1>3. p < Len(area) =>
        /\ area[p + 1] \in Nat
        /\ ~(area[p + 1] > Len(area) - p - 1) =>
              p + 2 + area[p + 1] \in (p + 1) .. Len(area) + 1
  <2>1. SUFFICES ASSUME p < Len(area)
                 PROVE  /\ area[p + 1] \in Nat
                        /\ ~(area[p + 1] > Len(area) - p - 1) =>
                              p + 2 + area[p + 1] \in (p + 1) .. Len(area) + 1
      OBVIOUS
  <2>2. p + 1 \in 1 .. Len(area)
      BY <1>1, <2>1
  <2>3. area[p + 1] \in Nat
      BY <2>2, ElementOfSeq, ByteConstants DEF Byte
  <2>4. QED
      BY <1>1, <2>3
<1>4. p > Len(area) \/ p = Len(area) \/ p < Len(area)
    BY <1>1
<1>5. QED
    BY <1>1, <1>2, <1>3, <1>4 DEF SaysAt

(* The recursive function is one: it says of every position what SaysAt    *)
(* makes of the later ones.                                                *)
LEMMA SaidUnfolds ==
    ASSUME NEW area \in Seq(Byte), NEW p \in 1 .. Len(area) + 1
    PROVE  SaidFrom(area)[p] = SaysAt(area, SaidFrom(area), p)
<1> DEFINE n == Len(area) + 1
           Part(f, k) == \A q \in k .. n : f[q] = SaysAt(area, f, q)
           S == {k \in 1 .. n : \E f : Part(f, k)}
<1>1. n \in Nat \ {0} /\ Len(area) \in Nat
    OBVIOUS
<1>2. n \in S
  <2>1. \A f : SaysAt(area, f, n) = <<>>
      BY <1>1 DEF SaysAt
  <2>2. \A q \in n .. n : q = n
      BY <1>1
  <2> DEFINE none == [q \in n .. n |-> <<>>]
  <2>3. \A q \in n .. n : none[q] = SaysAt(area, none, q)
      BY <2>1, <2>2
  <2>4. Part(none, n)
      BY <2>3
  <2>5. QED
      BY <1>1, <2>4
<1>3. ASSUME NEW k \in 1 .. n - 1, (k + 1) .. n \subseteq S PROVE k \in S
  <2>1. k + 1 \in (k + 1) .. n
      BY <1>1
  <2>2. PICK g : Part(g, k + 1)
      BY <1>3, <2>1
  <2> DEFINE f == [q \in k .. n |-> IF q = k THEN SaysAt(area, g, k) ELSE g[q]]
  <2>3. \A q \in (k + 1) .. n : q \in k .. n /\ q # k
      BY <1>1
  <2>4. \A q \in (k + 1) .. n : f[q] = g[q]
      BY <2>3
  <2>5. ASSUME NEW q \in k .. n PROVE f[q] = SaysAt(area, f, q)
    <3>1. q \in 1 .. Len(area) + 1 /\ (q + 1) .. n \subseteq (k + 1) .. n
        BY <1>1
    <3>2. \A r \in (q + 1) .. Len(area) + 1 : f[r] = g[r]
        BY <2>4, <3>1
    <3> HIDE DEF f
    <3>3. SaysAt(area, f, q) = SaysAt(area, g, q)
        BY <3>1, <3>2, SaysLooksAhead
    <3>4. CASE q = k
      <4>1. f[q] = SaysAt(area, g, k)
          BY <3>4 DEF f
      <4>2. QED
          BY <3>3, <3>4, <4>1
    <3>5. CASE q # k
      <4>1. q \in (k + 1) .. n
          BY <1>1, <3>5
      <4>2. f[q] = g[q] /\ g[q] = SaysAt(area, g, q)
          BY <2>2, <2>4, <4>1
      <4>3. QED
          BY <3>3, <4>2
    <3>6. QED
        BY <3>4, <3>5
  <2>6. Part(f, k)
      BY <2>5
  <2>7. k \in 1 .. n
      BY <1>1
  <2> HIDE DEF f
  <2>8. QED
      BY <2>6, <2>7
<1>4. 1 .. n \subseteq S
  <2> HIDE DEF S
  <2>1. QED
      BY <1>1, <1>2, <1>3, Downward
<1>5. PICK g : Part(g, 1)
    BY <1>1, <1>4
<1> DEFINE f == [q \in 1 .. n |-> g[q]]
<1>6. \A q \in 1 .. n : f[q] = g[q]
    OBVIOUS
<1>7. \A q \in 1 .. n : SaysAt(area, f, q) = SaysAt(area, g, q)
  <2>1. TAKE q \in 1 .. n
  <2>2. \A r \in (q + 1) .. Len(area) + 1 : f[r] = g[r]
      BY <1>1, <1>6
  <2> HIDE DEF f
  <2>3. QED
      BY <2>2, SaysLooksAhead
<1>8. f = [q \in 1 .. n |-> SaysAt(area, f, q)]
    BY <1>5, <1>6, <1>7
<1> HIDE DEF f
<1>9. SaidFrom(area) = [q \in 1 .. Len(area) + 1 |-> SaysAt(area, SaidFrom(area), q)]
    BY <1>8, SaidIsChosen
<1>10. QED
  <2> DEFINE said == SaidFrom(area)
  <2>1. said = [q \in 1 .. Len(area) + 1 |-> SaysAt(area, said, q)]
      BY <1>9
  <2> HIDE DEF said
  <2>2. said[p] = SaysAt(area, said, p)
      BY <2>1
  <2>3. QED
      BY <2>2 DEF said

(* An option as an area says it, and the options that were parsed.         *)
Saying == [code : Byte, data : Seq(Byte)]

Shown(area, parsed) ==
    [k \in DOMAIN parsed |-> [code |-> parsed[k].code, data |-> value(area, parsed[k])]]

LEMMA SaidAtOption ==
    ASSUME NEW area \in Seq(Byte), NEW p \in 1 .. Len(area), p < Len(area),
           ~(area[p + 1] > Len(area) - p - 1)
    PROVE  /\ [code |-> area[p], data |-> SubSeq(area, p + 2, p + 1 + area[p + 1])] \in Saying
           /\ p + 2 + area[p + 1] \in (p + 1) .. Len(area) + 1
<1>1. Len(area) \in Nat /\ p + 1 \in 1 .. Len(area)
    OBVIOUS
<1>2. area[p] \in Byte /\ area[p + 1] \in Nat
    BY <1>1, ElementOfSeq, ByteConstants DEF Byte
<1>3. PICK from \in Int, to \in Int : from = p + 2 /\ to = p + 1 + area[p + 1]
    BY <1>1, <1>2
<1>4. \A n \in from .. to : area[n] \in Byte
  <2>1. \A n \in from .. to : n \in 1 .. Len(area)
      BY <1>1, <1>2, <1>3
  <2>2. QED
      BY <2>1, ElementOfSeq
<1>5. SubSeq(area, from, to) \in Seq(Byte)
    BY <1>3, <1>4, SubSeqProperties
<1>6. QED
    BY <1>1, <1>2, <1>3, <1>5 DEF Saying

LEMMA SaidIsTyped ==
    ASSUME NEW area \in Seq(Byte), NEW p \in 1 .. Len(area) + 1
    PROVE  SaidFrom(area)[p] \in Seq(Saying)
<1>1. PICK said : said = SaidFrom(area)
    OBVIOUS
<1>2. PICK n : n = Len(area) + 1
    OBVIOUS
<1>3. n \in Nat \ {0} /\ Len(area) \in Nat
    BY <1>2
<1>4. \A q \in 1 .. n : said[q] = SaysAt(area, said, q)
    BY <1>1, <1>2, SaidUnfolds
<1> DEFINE S == {q \in 1 .. n : said[q] \in Seq(Saying)}
<1>5. <<>> \in Seq(Saying)
    OBVIOUS
<1>6. n \in S
  <2>1. n \in 1 .. n /\ n > Len(area)
      BY <1>2, <1>3
  <2>2. SaysAt(area, said, n) = <<>>
      BY <2>1 DEF SaysAt
  <2>3. QED
      BY <1>4, <1>5, <2>1, <2>2
<1>7. ASSUME NEW q \in 1 .. n - 1, (q + 1) .. n \subseteq S PROVE q \in S
  <2>1. q \in 1 .. Len(area) /\ q \in 1 .. n
      BY <1>2, <1>3
  <2>2. q + 1 \in (q + 1) .. n
      BY <1>3
  <2>3. \A r \in (q + 1) .. n : said[r] \in Seq(Saying)
      BY <1>7
  <2>4. SaysAt(area, said, q) \in Seq(Saying)
    <3>1. CASE q < Len(area) /\ ~(area[q + 1] > Len(area) - q - 1)
      <4>1. PICK here, after :
               /\ here = [code |-> area[q], data |-> SubSeq(area, q + 2, q + 1 + area[q + 1])]
               /\ after = said[q + 2 + area[q + 1]]
          OBVIOUS
      <4>2. here \in Saying /\ after \in Seq(Saying)
          BY <1>2, <2>1, <2>3, <3>1, <4>1, SaidAtOption
      <4>3. <<here>> \o after \in Seq(Saying)
          BY <4>2
      <4>4. SaysAt(area, said, q) \in {<<>>, said[q + 1], <<here>> \o after}
          BY <4>1 DEF SaysAt
      <4>5. QED
          BY <1>5, <2>2, <2>3, <4>3, <4>4
    <3>2. CASE ~(q < Len(area) /\ ~(area[q + 1] > Len(area) - q - 1))
      <4>1. q = Len(area) \/ area[q + 1] > Len(area) - q - 1
          BY <1>3, <2>1, <3>2
      <4>2. SaysAt(area, said, q) \in {<<>>, said[q + 1]}
          BY <4>1 DEF SaysAt
      <4>3. QED
          BY <1>5, <2>2, <2>3, <4>2
    <3>3. QED
        BY <3>1, <3>2
  <2>5. QED
      BY <1>4, <2>1, <2>4
<1>8. 1 .. n \subseteq S
  <2> HIDE DEF S
  <2>1. QED
      BY <1>3, <1>6, <1>7, Downward
<1>9. QED
    BY <1>1, <1>2, <1>8

LEMMA OneMore ==
    ASSUME NEW S, NEW s \in Seq(S), NEW x \in S
    PROVE  /\ s \o <<x>> \in Seq(S) /\ Len(s \o <<x>>) = Len(s) + 1
           /\ \A k \in 1 .. Len(s) : (s \o <<x>>)[k] = s[k]
           /\ (s \o <<x>>)[Len(s) + 1] = x
    OBVIOUS

(* What was parsed is typed, and one more option is one more at its end.   *)
LEMMA ShownGrows ==
    ASSUME NEW area \in Seq(Byte), NEW parsed \in Seq(Option), NEW o \in Option,
           \A k \in DOMAIN parsed : parsed[k].from >= 3 /\ parsed[k].to <= Len(area),
           o.from >= 3, o.to <= Len(area)
    PROVE  /\ Shown(area, parsed) \in Seq(Saying)
           /\ [code |-> o.code, data |-> value(area, o)] \in Saying
           /\ Shown(area, Append(parsed, o))
                = Shown(area, parsed) \o <<[code |-> o.code, data |-> value(area, o)]>>
<1>1. ASSUME NEW x \in Option, x.from >= 3, x.to <= Len(area)
      PROVE  [code |-> x.code, data |-> value(area, x)] \in Saying
  <2>1. x.code \in Byte /\ x.from \in Int /\ x.to \in Int
      BY DEF Option, OptionCode
  <2>2. \A n \in x.from .. x.to : area[n] \in Byte
    <3>1. \A n \in x.from .. x.to : n \in 1 .. Len(area)
        BY <1>1, <2>1
    <3>2. QED
        BY <3>1, ElementOfSeq
  <2>3. value(area, x) \in Seq(Byte)
      BY <2>1, <2>2, SubSeqProperties DEF value
  <2>4. QED
      BY <2>1, <2>3 DEF Saying
<1>2. DOMAIN parsed = 1 .. Len(parsed) /\ Len(parsed) \in Nat
    OBVIOUS
<1>3. \A k \in 1 .. Len(parsed) : Shown(area, parsed)[k] \in Saying
  <2>1. TAKE k \in 1 .. Len(parsed)
  <2>2. parsed[k] \in Option /\ parsed[k].from >= 3 /\ parsed[k].to <= Len(area)
      BY <1>2, ElementOfSeq
  <2>3. [code |-> parsed[k].code, data |-> value(area, parsed[k])] \in Saying
      BY <1>1, <2>2
  <2>4. QED
      BY <1>2, <2>3 DEF Shown
<1>4. Shown(area, parsed) \in Seq(Saying) /\ Len(Shown(area, parsed)) = Len(parsed)
  <2> DEFINE s == Shown(area, parsed)
  <2>1. DOMAIN s = 1 .. Len(parsed) /\ s = [k \in 1 .. Len(parsed) |-> s[k]]
      BY <1>2 DEF Shown
  <2> HIDE DEF s
  <2>2. s \in [1 .. Len(parsed) -> Saying]
      BY <1>3, <2>1 DEF s
  <2>3. QED
      BY <1>2, <2>2, SeqDef, LenProperties DEF s
<1> DEFINE more == Append(parsed, o)
           here == [code |-> o.code, data |-> value(area, o)]
<1>5. here \in Saying
    BY <1>1
<1>6. /\ more \in Seq(Option) /\ Len(more) = Len(parsed) + 1
      /\ \A k \in 1 .. Len(parsed) : more[k] = parsed[k]
      /\ more[Len(parsed) + 1] = o
    BY AppendProperties
<1>7. Shown(area, more) = Shown(area, parsed) \o <<here>>
  <2> DEFINE s == Shown(area, parsed)
             t == s \o <<here>>
  <2>2. /\ t \in Seq(Saying) /\ Len(t) = Len(parsed) + 1
        /\ \A k \in 1 .. Len(parsed) : t[k] = s[k]
        /\ t[Len(parsed) + 1] = here
    <3> HIDE DEF here, s
    <3>1. /\ t \in Seq(Saying) /\ Len(t) = Len(s) + 1
          /\ \A k \in 1 .. Len(s) : t[k] = s[k]
          /\ t[Len(s) + 1] = here
        BY <1>4, <1>5, OneMore DEF s
    <3>2. QED
        BY <1>4, <3>1 DEF s
  <2>3. DOMAIN more = 1 .. Len(parsed) + 1
      BY <1>2, <1>6
  <2>4. \A k \in 1 .. Len(parsed) + 1 :
           [code |-> more[k].code, data |-> value(area, more[k])] = t[k]
    <3>1. TAKE k \in 1 .. Len(parsed) + 1
    <3>2. CASE k = Len(parsed) + 1
        BY <1>6, <2>2, <3>2
    <3>3. CASE k # Len(parsed) + 1
      <4>1. k \in 1 .. Len(parsed)
          BY <1>2, <3>3
      <4>2. more[k] = parsed[k] /\ t[k] = s[k]
          BY <1>6, <2>2, <4>1
      <4>3. s[k] = [code |-> parsed[k].code, data |-> value(area, parsed[k])]
          BY <1>2, <4>1 DEF Shown
      <4>4. QED
          BY <4>2, <4>3
    <3>4. QED
        BY <3>2, <3>3
  <2>5. t = [k \in 1 .. Len(parsed) + 1 |-> t[k]]
      BY <1>2, <2>2
  <2> HIDE DEF t, more, s
  <2>6. Shown(area, more) = [k \in 1 .. Len(parsed) + 1 |-> t[k]]
      BY <2>3, <2>4 DEF Shown
  <2>7. QED
      BY <2>5, <2>6 DEF t, s, more
<1>8. QED
    BY <1>4, <1>5, <1>7

(* What the walk has found, and what the area says from where it stands,   *)
(* is what the request says.                                               *)
WalkInv ==
    /\ phase \in {"header", "request", "decide"} => buf = request
    /\ phase = "header" => i = 1 /\ items = <<>>
    /\ phase = "request" => Shown(buf, items) \o SaidFrom(buf)[i] = Said(request)
    /\ phase = "decide" => Shown(buf, items) = Said(request)

LEMMA ItemsShown ==
    ASSUME TypeOK, NeverOverreads
    PROVE  Shown(buf, items) \in Seq(Saying)
<1>1. buf \in Seq(Byte) /\ items \in Seq(Option) /\ DOMAIN items = 1 .. Len(items)
    BY DEF TypeOK
<1>2. CASE items = <<>>
    BY <1>2 DEF Shown
<1>3. CASE items # <<>>
  <2>1. 1 \in DOMAIN items
      BY <1>1, <1>3
  <2>2. items[1] \in Option /\ items[1].from >= 3 /\ items[1].to <= Len(buf)
      BY <1>1, <2>1, ElementOfSeq DEF NeverOverreads
  <2>3. QED
      BY <1>1, <2>2, ShownGrows DEF NeverOverreads
<1>4. QED
    BY <1>2, <1>3

LEMMA WalkStep ==
    ASSUME TypeOK, NeverOverreads, WalkInv, [Next]_vars
    PROVE  WalkInv'
<1>1. buf \in Seq(Byte) /\ request \in Seq(Byte) /\ i \in Nat \ {0} /\ Len(buf) \in Nat
    BY ExchangeConstants DEF TypeOK
<1>2. i \in 1 .. Len(buf) + 1
    BY <1>1 DEF NeverOverreads
<1>3. SaidFrom(buf)[i] = SaysAt(buf, SaidFrom(buf), i) /\ SaidFrom(buf)[i] \in Seq(Saying)
    BY <1>1, <1>2, SaidUnfolds, SaidIsTyped
<1>4. Shown(buf, items) \in Seq(Saying)
    BY ItemsShown
<1>5. CASE AcceptHeader
  <2>1. /\ phase = "header" /\ phase' = "request"
        /\ UNCHANGED <<request, buf, i, items>>
      BY <1>5 DEF AcceptHeader
  <2>2. buf = request /\ i = 1 /\ items = <<>>
      BY <2>1 DEF WalkInv
  <2>3. Shown(buf, items) = <<>>
      BY <2>2 DEF Shown
  <2>4. <<>> \o SaidFrom(buf)[i] = SaidFrom(buf)[i]
      BY <1>3, ConcatEmptySeq
  <2>5. Shown(buf', items') \o SaidFrom(buf')[i'] = Said(request')
      BY <2>1, <2>2, <2>3, <2>4 DEF Said
  <2>6. QED
      BY <2>1, <2>2, <2>5 DEF WalkInv
<1>6. CASE RejectHeader \/ Silent \/ Answer \/ PushOption \/ finish
    BY <1>6 DEF RejectHeader, Silent, Answer, PushOption, finish, WalkInv
<1>7. CASE SkipPad
  <2>1. /\ buf[i] = OPT_PAD /\ ~WalkOver(buf, i) /\ phase \in {"request", "reply"}
        /\ i' = i + 1 /\ UNCHANGED <<phase, request, buf, items>>
      BY <1>7 DEF SkipPad, Walking
  <2>2. i <= Len(buf) /\ buf[i] # OPT_END
      BY <1>1, <2>1 DEF WalkOver
  <2>3. SaidFrom(buf)[i] = SaidFrom(buf)[i + 1]
      BY <1>1, <1>3, <2>1, <2>2 DEF SaysAt
  <2>4. QED
      BY <2>1, <2>3 DEF WalkInv
<1>8. CASE TakeOption
  <2>1. /\ buf[i] # OPT_PAD /\ ~WalkOver(buf, i) /\ phase \in {"request", "reply"}
        /\ items' = Append(items, OptionAt(buf, i)) /\ i' = OptionAt(buf, i).to + 1
        /\ UNCHANGED <<phase, request, buf>>
      BY <1>8 DEF TakeOption, Walking
  <2>2. /\ i <= Len(buf) /\ buf[i] # OPT_END /\ i + 1 <= Len(buf)
        /\ i + 1 + buf[i + 1] <= Len(buf)
      BY <1>1, <2>1 DEF WalkOver, HasLength, Fits
  <2>3. i \in 1 .. Len(buf) /\ i + 1 \in 1 .. Len(buf) /\ i < Len(buf) /\ buf[i + 1] \in Nat
    <3>1. i \in 1 .. Len(buf) /\ i + 1 \in 1 .. Len(buf) /\ i < Len(buf)
        BY <1>1, <2>2
    <3>2. QED
        BY <1>1, <3>1, ElementOfSeq, ByteConstants DEF Byte
  <2> DEFINE o == OptionAt(buf, i)
             here == [code |-> o.code, data |-> value(buf, o)]
             after == SaidFrom(buf)[i']
  <2>4. o \in Option /\ o.from >= 3 /\ o.to <= Len(buf)
    <3>1. o \in Option
        BY <1>8, TakenIsOption
    <3>2. o.from = i + 2 /\ o.to = i + 1 + buf[i + 1]
        BY DEF OptionAt
    <3>3. QED
        BY <1>1, <2>2, <3>1, <3>2
  <2>5. SaidFrom(buf)[i] = <<here>> \o after
    <3>1. ~(buf[i + 1] > Len(buf) - i - 1) /\ ~(i > Len(buf)) /\ i # Len(buf)
        BY <1>1, <2>2, <2>3
    <3>2. SaidFrom(buf)[i] =
             <<[code |-> buf[i], data |-> SubSeq(buf, i + 2, i + 1 + buf[i + 1])]>>
                \o SaidFrom(buf)[i + 2 + buf[i + 1]]
        BY <1>3, <2>1, <2>2, <3>1 DEF SaysAt
    <3>3. here = [code |-> buf[i], data |-> SubSeq(buf, i + 2, i + 1 + buf[i + 1])]
        BY DEF OptionAt, value
    <3>4. i' = i + 2 + buf[i + 1]
      <4>1. PICK to : to = o.to
          OBVIOUS
      <4>2. to = i + 1 + buf[i + 1]
          BY <4>1 DEF OptionAt
      <4>3. i' = to + 1
          BY <2>1, <4>1
      <4>4. QED
          BY <1>1, <2>3, <4>2, <4>3
    <3>5. QED
        BY <3>2, <3>3, <3>4
  <2>6. after \in Seq(Saying)
    <3>1. i' = i + 2 + buf[i + 1]
      <4>1. PICK to : to = o.to
          OBVIOUS
      <4>2. to = i + 1 + buf[i + 1]
          BY <4>1 DEF OptionAt
      <4>3. i' = to + 1
          BY <2>1, <4>1
      <4>4. QED
          BY <1>1, <2>3, <4>2, <4>3
    <3>2. i' \in 1 .. Len(buf) + 1
        BY <1>1, <2>2, <2>3, <3>1
    <3>3. QED
        BY <1>1, <3>2, SaidIsTyped
  <2>7. /\ here \in Saying
        /\ Shown(buf, items') = Shown(buf, items) \o <<here>>
    <3>1. items \in Seq(Option)
        BY DEF TypeOK
    <3>2. QED
        BY <1>1, <2>1, <2>4, <3>1, ShownGrows DEF NeverOverreads
  <2>8. Shown(buf, items') \o after = Shown(buf, items) \o SaidFrom(buf)[i]
    <3>1. PICK s \in Seq(Saying), t \in Seq(Saying), u \in Seq(Saying) :
             s = Shown(buf, items) /\ t = <<here>> /\ u = after
      <4>1. <<here>> \in Seq(Saying)
          BY <2>7
      <4>2. QED
          BY <1>4, <2>6, <4>1, Zenon
    <3>2. (s \o t) \o u = s \o (t \o u)
        BY ConcatAssociative
    <3>3. QED
        BY <2>5, <2>7, <3>1, <3>2, Zenon
  <2>9. QED
      BY <2>1, <2>8 DEF WalkInv
<1>9. CASE EndWalk
  <2>1. /\ WalkOver(buf, i) /\ phase \in {"request", "reply"}
        /\ phase' = (IF phase = "request" THEN "decide" ELSE "done")
        /\ UNCHANGED <<request, buf, i, items>>
      BY <1>9 DEF EndWalk, Walking
  <2>2. SaidFrom(buf)[i] = <<>>
    <3>1. CASE i > Len(buf)
        BY <1>3, <3>1 DEF SaysAt
    <3>2. CASE i <= Len(buf) /\ buf[i] = OPT_END
        BY <1>3, <3>2 DEF SaysAt
    <3>3. CASE i <= Len(buf) /\ buf[i] # OPT_PAD /\ (HasLength(buf, i) => ~Fits(buf, i))
      <4>1. i = Len(buf) \/ (i + 1 <= Len(buf) /\ ~(i + 1 + buf[i + 1] <= Len(buf)))
          BY <1>1, <3>3 DEF HasLength, Fits
      <4>2. CASE i = Len(buf)
          BY <1>3, <3>3, <4>2 DEF SaysAt
      <4>3. CASE i + 1 <= Len(buf) /\ ~(i + 1 + buf[i + 1] <= Len(buf))
        <5>1. i + 1 \in 1 .. Len(buf)
            BY <1>1, <4>3
        <5>2. buf[i + 1] \in Nat
            BY <1>1, <5>1, ElementOfSeq, ByteConstants DEF Byte
        <5>3. buf[i + 1] > Len(buf) - i - 1
            BY <1>1, <4>3, <5>2
        <5>4. QED
            BY <1>3, <3>3, <5>3 DEF SaysAt
      <4>4. QED
          BY <4>1, <4>2, <4>3
    <3>4. QED
        BY <1>1, <2>1, <3>1, <3>2, <3>3 DEF WalkOver
  <2>3. Shown(buf, items) \o <<>> = Shown(buf, items)
      BY <1>4, ConcatEmptySeq
  <2>4. QED
      BY <2>1, <2>2, <2>3 DEF WalkInv
<1>10. CASE UNCHANGED vars
    BY <1>10 DEF vars, WalkInv
<1>11. QED
    BY <1>5, <1>6, <1>7, <1>8, <1>9, <1>10 DEF Next

LEMMA WalkInvariant == Steps => []WalkInv
<1>1. Init => WalkInv
    BY DEF Init, WalkInv
<1>2. TypeOK /\ NeverOverreads /\ WalkInv /\ [Next]_vars => WalkInv'
    BY WalkStep
<1>3. QED
    BY <1>1, <1>2, ExchangeTypes, WalkStaysInside, PTL DEF Steps

(* Whatever bytes are received, the walk finds the options that the        *)
(* recursive grammar reads in them, malformed ends included.               *)
THEOREM WalkIsGrammar == Steps => []WalkFollowsGrammar
<1>1. WalkInv => WalkFollowsGrammar
    BY DEF WalkInv, WalkFollowsGrammar, Shown
<1>2. QED
    BY <1>1, WalkInvariant, PTL

-----------------------------------------------------------------------------
(***************************************************************************)
(* The parameters of an answer.                                            *)
(***************************************************************************)
Has(opts, code) == \E k \in DOMAIN opts : opts[k].code = code

LEMMA HasInEither ==
    ASSUME NEW s \in Seq(Short), NEW t \in Seq(Short), NEW code
    PROVE  s \o t \in Seq(Short) /\ (Has(s \o t, code) <=> Has(s, code) \/ Has(t, code))
<1>1. /\ s \o t \in Seq(Short) /\ Len(s \o t) = Len(s) + Len(t)
      /\ \A n \in 1 .. Len(s) : (s \o t)[n] = s[n]
      /\ \A n \in 1 .. Len(t) : (s \o t)[Len(s) + n] = t[n]
    BY ConcatParts
<1> DEFINE u == s \o t
<1>2. /\ DOMAIN s = 1 .. Len(s) /\ DOMAIN t = 1 .. Len(t) /\ DOMAIN u = 1 .. Len(u)
      /\ Len(s) \in Nat /\ Len(t) \in Nat
    BY <1>1
<1> HIDE DEF u
<1>3. ASSUME NEW k \in DOMAIN s PROVE k \in DOMAIN u /\ u[k] = s[k]
    BY <1>1, <1>2 DEF u
<1>4. ASSUME NEW k \in DOMAIN t PROVE Len(s) + k \in DOMAIN u /\ u[Len(s) + k] = t[k]
    BY <1>1, <1>2 DEF u
<1>5. ASSUME NEW k \in DOMAIN u, k \notin DOMAIN s
      PROVE  \E j \in DOMAIN t : u[k] = t[j]
  <2>1. PICK j : j = k - Len(s)
      OBVIOUS
  <2>2. j \in 1 .. Len(t) /\ k = Len(s) + j
      BY <1>1, <1>2, <1>5, <2>1 DEF u
  <2>3. QED
      BY <1>2, <1>4, <2>2
<1>6. Has(u, code) <=> Has(s, code) \/ Has(t, code)
  <2>1. Has(s, code) => Has(u, code)
      BY <1>3 DEF Has
  <2>2. Has(t, code) => Has(u, code)
      BY <1>4 DEF Has
  <2>3. Has(u, code) => Has(s, code) \/ Has(t, code)
      BY <1>3, <1>5 DEF Has
  <2>4. QED
      BY <2>1, <2>2, <2>3
<1>7. QED
    BY <1>1, <1>6 DEF u

LEMMA HasPushed ==
    ASSUME NEW code \in Codes, NEW data \in Seq(Byte), Len(data) <= U8_MAX, NEW c
    PROVE  Has(Push(code, data), c) <=> c = code
    BY DEF Has, Push

LEMMA HasNothing == \A c : ~Has(<<>>, c)
    BY DEF Has

(* What the options of an answer are: its type comes first, and the router *)
(* and the DNS servers are there if they are configured and wanted.        *)
LEMMA AnswerHas ==
    ASSUME cfg \in Configs, NEW answer \in {"OFFER", "ACK", "NAK", "INFORM_ACK"}
    PROVE  \E type \in {"OFFER", "ACK", "NAK"} :
              /\ build(answer) # <<>>
              /\ build(answer)[1] = [code |-> OPT_MSG_TYPE, data |-> <<to_u8(type)>>]
              /\ Has(build(answer), OPT_LEASE_TIME) <=> answer \in {"OFFER", "ACK"}
              /\ type # "NAK" =>
                    /\ Has(build(answer), OPT_ROUTER) <=> cfg.router # {} /\ wants(OPT_ROUTER)
                    /\ Has(build(answer), OPT_DNS) <=> cfg.dns # <<>> /\ wants(OPT_DNS)
<1> DEFINE type == IF answer = "INFORM_ACK" THEN "ACK" ELSE answer
           first == Push(OPT_MSG_TYPE, <<to_u8(type)>>)
           id == Push(OPT_SERVER_ID, cfg.server_ip)
           lease == IF answer \in {"OFFER", "ACK"} THEN Push(OPT_LEASE_TIME, cfg.lease_time) ELSE <<>>
           subnet == Push(OPT_SUBNET_MASK, cfg.subnet_mask)
           router == IF cfg.router # {} /\ wants(OPT_ROUTER)
                     THEN Push(OPT_ROUTER, CHOOSE ip \in cfg.router : TRUE) ELSE <<>>
           dns == IF cfg.dns # <<>> /\ wants(OPT_DNS)
                  THEN Push(OPT_DNS, octets(cfg.dns)) ELSE <<>>
<1>1. /\ cfg.server_ip \in Octets /\ cfg.lease_time \in Octets /\ cfg.subnet_mask \in Octets
      /\ cfg.router \subseteq Octets /\ cfg.dns \in Seq(Octets) /\ 4 * Len(cfg.dns) <= U8_MAX
    BY ExchangeConstants
<1>2. \A o \in Octets : o \in Seq(Byte) /\ Len(o) <= U8_MAX
  <2>1. 4 <= U8_MAX
      BY ByteConstants
  <2>2. QED
      BY <2>1, OctetsAreShort
<1>3. type \in {"OFFER", "ACK", "NAK"}
    OBVIOUS
<1>4. /\ first \in Seq(Short) /\ first # <<>> /\ Len(first) = 1
      /\ first[1] = [code |-> OPT_MSG_TYPE, data |-> <<to_u8(type)>>]
      /\ \A c : Has(first, c) <=> c = OPT_MSG_TYPE
  <2>1. <<to_u8(type)>> \in Seq(Byte) /\ Len(<<to_u8(type)>>) <= U8_MAX
      BY <1>3, TypeNumber
  <2>2. first \in Seq(Short) /\ \A c : Has(first, c) <=> c = OPT_MSG_TYPE
      BY <2>1, PushIsShort, HasPushed DEF Codes
  <2>3. first # <<>> /\ Len(first) = 1
        /\ first[1] = [code |-> OPT_MSG_TYPE, data |-> <<to_u8(type)>>]
      BY DEF Push
  <2>4. QED
      BY <2>2, <2>3
<1>5. id \in Seq(Short) /\ \A c : Has(id, c) <=> c = OPT_SERVER_ID
    BY <1>1, <1>2, PushIsShort, HasPushed DEF Codes
<1>6. subnet \in Seq(Short) /\ \A c : Has(subnet, c) <=> c = OPT_SUBNET_MASK
    BY <1>1, <1>2, PushIsShort, HasPushed DEF Codes
<1>7. /\ lease \in Seq(Short)
      /\ \A c : Has(lease, c) <=> c = OPT_LEASE_TIME /\ answer \in {"OFFER", "ACK"}
  <2>1. /\ Push(OPT_LEASE_TIME, cfg.lease_time) \in Seq(Short)
        /\ \A c : Has(Push(OPT_LEASE_TIME, cfg.lease_time), c) <=> c = OPT_LEASE_TIME
      BY <1>1, <1>2, PushIsShort, HasPushed DEF Codes
  <2>2. CASE answer \in {"OFFER", "ACK"}
      BY <2>1, <2>2
  <2>3. CASE answer \notin {"OFFER", "ACK"}
      BY <2>3, HasNothing
  <2>4. QED
      BY <2>2, <2>3
<1>8. router \in Seq(Short)
      /\ \A c : Has(router, c) <=> c = OPT_ROUTER /\ cfg.router # {} /\ wants(OPT_ROUTER)
  <2>1. CASE cfg.router # {} /\ wants(OPT_ROUTER)
    <3>1. (CHOOSE ip \in cfg.router : TRUE) \in Octets
        BY <1>1, <2>1
    <3>2. /\ Push(OPT_ROUTER, CHOOSE ip \in cfg.router : TRUE) \in Seq(Short)
          /\ \A c : Has(Push(OPT_ROUTER, CHOOSE ip \in cfg.router : TRUE), c) <=> c = OPT_ROUTER
        BY <1>2, <3>1, PushIsShort, HasPushed DEF Codes
    <3>3. QED
        BY <2>1, <3>2
  <2>2. CASE ~(cfg.router # {} /\ wants(OPT_ROUTER))
      BY <2>2, HasNothing
  <2>3. QED
      BY <2>1, <2>2
<1>9. dns \in Seq(Short)
      /\ \A c : Has(dns, c) <=> c = OPT_DNS /\ cfg.dns # <<>> /\ wants(OPT_DNS)
  <2>1. /\ Push(OPT_DNS, octets(cfg.dns)) \in Seq(Short)
        /\ \A c : Has(Push(OPT_DNS, octets(cfg.dns)), c) <=> c = OPT_DNS
      BY <1>1, DnsIsShort, PushIsShort, HasPushed DEF Codes
  <2>2. CASE cfg.dns # <<>> /\ wants(OPT_DNS)
      BY <2>1, <2>2
  <2>3. CASE ~(cfg.dns # <<>> /\ wants(OPT_DNS))
      BY <2>3, HasNothing
  <2>4. QED
      BY <2>2, <2>3
<1>10. build(answer) =
          IF type = "NAK" THEN first \o id ELSE first \o id \o lease \o subnet \o router \o dns
    BY DEF build
<1> HIDE DEF first, id, lease, subnet, router, dns, type
<1> DEFINE head == first \o id
           leased == head \o lease
           masked == leased \o subnet
           routed == masked \o router
           whole == routed \o dns
<1>11. head \in Seq(Short) /\ leased \in Seq(Short) /\ masked \in Seq(Short)
       /\ routed \in Seq(Short) /\ whole \in Seq(Short)
    BY <1>4, <1>5, <1>6, <1>7, <1>8, <1>9
<1>12. \A c : Has(whole, c) <=>
          Has(first, c) \/ Has(id, c) \/ Has(lease, c) \/ Has(subnet, c) \/ Has(router, c) \/ Has(dns, c)
  <2>1. \A c : Has(head, c) <=> Has(first, c) \/ Has(id, c)
      BY <1>4, <1>5, HasInEither
  <2> HIDE DEF head
  <2>2. \A c : Has(leased, c) <=> Has(head, c) \/ Has(lease, c)
      BY <1>7, <1>11, HasInEither
  <2> HIDE DEF leased
  <2>3. \A c : Has(masked, c) <=> Has(leased, c) \/ Has(subnet, c)
      BY <1>6, <1>11, HasInEither
  <2> HIDE DEF masked
  <2>4. \A c : Has(routed, c) <=> Has(masked, c) \/ Has(router, c)
      BY <1>8, <1>11, HasInEither
  <2> HIDE DEF routed
  <2>5. \A c : Has(whole, c) <=> Has(routed, c) \/ Has(dns, c)
      BY <1>9, <1>11, HasInEither
  <2> HIDE DEF whole
  <2>6. QED
      BY <2>1, <2>2, <2>3, <2>4, <2>5
<1>13. head # <<>> /\ head[1] = first[1]
  <2>1. Len(head) = Len(first) + Len(id) /\ head[1] = first[1] /\ Len(id) \in Nat
    <3>1. 1 \in 1 .. Len(first)
        BY <1>4
    <3>2. QED
        BY <1>4, <1>5, <3>1, ConcatParts
  <2> HIDE DEF head
  <2>2. QED
      BY <1>4, <2>1
<1>14. whole # <<>> /\ whole[1] = first[1]
  <2> DEFINE Starts(s) == Len(s) \in Nat \ {0} /\ s[1] = first[1]
  <2>1. ASSUME NEW s \in Seq(Short), NEW t \in Seq(Short), Starts(s) PROVE Starts(s \o t)
    <3>1. 1 \in 1 .. Len(s) /\ Len(t) \in Nat
        BY <2>1
    <3>2. QED
        BY <2>1, <3>1, ConcatParts
  <2>2. Starts(head)
      BY <1>11, <1>13
  <2> HIDE DEF Starts, head
  <2>3. Starts(leased)
      BY <1>7, <1>11, <2>1, <2>2
  <2> HIDE DEF leased
  <2>4. Starts(masked)
      BY <1>6, <1>11, <2>1, <2>3
  <2> HIDE DEF masked
  <2>5. Starts(routed)
      BY <1>8, <1>11, <2>1, <2>4
  <2> HIDE DEF routed
  <2>6. Starts(whole)
      BY <1>9, <1>11, <2>1, <2>5
  <2> HIDE DEF whole
  <2>7. QED
      BY <2>6 DEF Starts
<1>15. CASE type = "NAK"
  <2>1. build(answer) = head
      BY <1>10, <1>15
  <2>2. ~Has(head, OPT_LEASE_TIME)
      BY <1>4, <1>5, HasInEither, ByteConstants
  <2>3. answer \notin {"OFFER", "ACK"}
      BY <1>15 DEF type
  <2>4. QED
      BY <1>3, <1>4, <1>13, <1>15, <2>1, <2>2, <2>3
<1>16. CASE type # "NAK"
  <2>1. build(answer) = whole
      BY <1>10, <1>16
  <2> HIDE DEF whole
  <2>2. Has(whole, OPT_ROUTER) <=> cfg.router # {} /\ wants(OPT_ROUTER)
      BY <1>4, <1>5, <1>6, <1>7, <1>8, <1>9, <1>12, ByteConstants
  <2>3. Has(whole, OPT_DNS) <=> cfg.dns # <<>> /\ wants(OPT_DNS)
      BY <1>4, <1>5, <1>6, <1>7, <1>8, <1>9, <1>12, ByteConstants
  <2>4. Has(whole, OPT_LEASE_TIME) <=> answer \in {"OFFER", "ACK"}
      BY <1>4, <1>5, <1>6, <1>7, <1>8, <1>9, <1>12, ByteConstants
  <2>5. QED
      BY <1>3, <1>4, <1>14, <1>16, <2>1, <2>2, <2>3, <2>4
<1>17. QED
    BY <1>15, <1>16

(* What an answer has agrees with what its request asked for.              *)
AskedFor ==
    phase \in {"build", "reply", "done"} =>
        \E type \in {"OFFER", "ACK", "NAK"} :
            /\ options # <<>>
            /\ options[1] = [code |-> OPT_MSG_TYPE, data |-> <<to_u8(type)>>]
            /\ type # "NAK" =>
                  /\ Has(options, OPT_ROUTER) <=> cfg.router # {} /\ Asked(OPT_ROUTER)
                  /\ Has(options, OPT_DNS) <=> cfg.dns # <<>> /\ Asked(OPT_DNS)

(* The parameter request list that is found is the first that the request  *)
(* has.                                                                    *)
LEMMA WantsWhatWasAsked ==
    ASSUME TypeOK, Shown(buf, items) = Said(request), NEW code
    PROVE  wants(code) <=> Asked(code)
<1> DEFINE said == Said(request)
           lists == {k \in DOMAIN said : said[k].code = OPT_PARAM_REQUEST_LIST}
           First(k) == k \in lists /\ \A j \in lists : k <= j
           In(k) == said[k].data = <<>> \/ \E n \in DOMAIN said[k].data : said[k].data[n] = code
<1>1. /\ items \in Seq(Option) /\ DOMAIN items = 1 .. Len(items) /\ Len(items) \in Nat
      /\ DOMAIN said = DOMAIN items
      /\ \A k \in DOMAIN items :
            said[k].code = items[k].code /\ said[k].data = value(buf, items[k])
  <2>1. items \in Seq(Option) /\ DOMAIN items = 1 .. Len(items) /\ Len(items) \in Nat
      BY DEF TypeOK
  <2>2. said = [k \in DOMAIN items |-> [code |-> items[k].code, data |-> value(buf, items[k])]]
      BY DEF Shown
  <2> HIDE DEF said
  <2>3. QED
      BY <2>1, <2>2
<1>2. Asked(code) <=> \A k : First(k) => In(k)
    BY DEF Asked
<1> DEFINE Found == {n \in DOMAIN items :
                       /\ items[n].code = OPT_PARAM_REQUEST_LIST
                       /\ \A j \in 1 .. n - 1 : items[j].code # OPT_PARAM_REQUEST_LIST}
<1>3. get(buf, items, OPT_PARAM_REQUEST_LIST) = {value(buf, items[k]) : k \in Found}
    BY DEF get
<1>4. wants(code) <=> \A k \in Found : In(k)
  <2>1. wants(code) <=>
          \A list \in {value(buf, items[k]) : k \in Found} :
             list # <<>> => \E n \in DOMAIN list : list[n] = code
      BY <1>3 DEF wants, param_request_list
  <2>2. \A k \in Found : said[k].data = value(buf, items[k])
      BY <1>1
  <2> HIDE DEF said, Found
  <2>3. QED
      BY <2>1, <2>2
<1> HIDE DEF said
<1>5. \A k : k \in Found <=> First(k)
  <2>1. ASSUME NEW k \in Found PROVE First(k)
    <3>1. k \in lists
        BY <1>1
    <3>2. ASSUME NEW j \in lists, ~(k <= j) PROVE FALSE
      <4>1. j \in 1 .. k - 1 /\ items[j].code = OPT_PARAM_REQUEST_LIST
          BY <1>1, <3>2
      <4>2. QED
          BY <4>1
    <3>3. QED
        BY <3>1, <3>2
  <2>2. ASSUME NEW k, First(k) PROVE k \in Found
    <3>1. k \in DOMAIN items /\ items[k].code = OPT_PARAM_REQUEST_LIST
        BY <1>1, <2>2
    <3>2. ASSUME NEW j \in 1 .. k - 1, items[j].code = OPT_PARAM_REQUEST_LIST PROVE FALSE
      <4>1. j \in DOMAIN items /\ ~(k <= j)
          BY <1>1, <3>1
      <4>2. j \in lists
          BY <1>1, <3>2, <4>1
      <4>3. QED
          BY <2>2, <4>1, <4>2
    <3>3. QED
        BY <3>1, <3>2
  <2>3. QED
      BY <2>1, <2>2
<1> HIDE DEF Found, First, In
<1>6. QED
    BY <1>2, <1>4, <1>5

LEMMA AskedForStep ==
    ASSUME TypeOK, WalkInv, AskedFor, [Next]_vars
    PROVE  AskedFor'
<1>1. CASE Answer
  <2>1. PICK answer \in {"OFFER", "ACK", "NAK", "INFORM_ACK"} : options' = build(answer)
      BY <1>1, AnswerIsBuilt
  <2>2. cfg \in Configs
      BY DEF TypeOK
  <2>3. Shown(buf, items) = Said(request)
      BY <1>1 DEF Answer, WalkInv
  <2>4. /\ wants(OPT_ROUTER) <=> Asked(OPT_ROUTER)
        /\ wants(OPT_DNS) <=> Asked(OPT_DNS)
      BY <2>3, WantsWhatWasAsked
  <2>5. UNCHANGED <<cfg, request>>
      BY <1>1 DEF Answer
  <2>6. \A c : Asked(c)' <=> Asked(c)
      BY <2>5 DEF Asked
  <2>7. PICK type \in {"OFFER", "ACK", "NAK"} :
              /\ build(answer) # <<>>
              /\ build(answer)[1] = [code |-> OPT_MSG_TYPE, data |-> <<to_u8(type)>>]
              /\ type # "NAK" =>
                    /\ Has(build(answer), OPT_ROUTER) <=> cfg.router # {} /\ wants(OPT_ROUTER)
                    /\ Has(build(answer), OPT_DNS) <=> cfg.dns # <<>> /\ wants(OPT_DNS)
      BY <2>2, AnswerHas
  <2>8. QED
      BY <2>1, <2>4, <2>5, <2>6, <2>7 DEF AskedFor
<1>2. CASE AcceptHeader \/ RejectHeader \/ Silent
    BY <1>2 DEF AcceptHeader, RejectHeader, Silent, AskedFor
<1>3. CASE SkipPad \/ TakeOption \/ EndWalk \/ PushOption \/ finish \/ UNCHANGED vars
  <2>1. /\ UNCHANGED <<cfg, request, options>>
        /\ phase' \in {"build", "reply", "done"} => phase \in {"build", "reply", "done"}
      BY <1>3 DEF SkipPad, TakeOption, EndWalk, PushOption, finish, vars, Walking
  <2>2. \A c : Asked(c)' <=> Asked(c)
      BY <2>1 DEF Asked
  <2>3. QED
      BY <2>1, <2>2 DEF AskedFor
<1>4. QED
    BY <1>1, <1>2, <1>3 DEF Next

(* The type of the answer is what a client reads first.                    *)
LEMMA TypeIsRead ==
    ASSUME NEW b, NEW parsed \in Seq(Option), Len(parsed) \in Nat \ {0},
           parsed[1].code = OPT_MSG_TYPE,
           NEW type \in {"OFFER", "ACK", "NAK"}, value(b, parsed[1]) = <<to_u8(type)>>
    PROVE  type \in msg_type(b, parsed)
<1>1. \E n \in DOMAIN from_u8 : from_u8[n] = type
  <2>1. DOMAIN from_u8 = 1 .. 8 /\ from_u8[2] = "OFFER" /\ from_u8[5] = "ACK" /\ from_u8[6] = "NAK"
      BY DEF from_u8
  <2>2. QED
      BY <2>1
<1>2. to_u8(type) \in DOMAIN from_u8 /\ from_u8[to_u8(type)] = type
    BY <1>1 DEF to_u8
<1>3. value(b, parsed[1]) \in get(b, parsed, OPT_MSG_TYPE)
  <2>1. 1 \in DOMAIN parsed /\ 1 .. (1 - 1) = {}
      OBVIOUS
  <2>2. QED
      BY <2>1 DEF get
<1>4. PICK n : n = to_u8(type)
    OBVIOUS
<1>5. /\ value(b, parsed[1]) = <<n>> /\ Len(<<n>>) = 1 /\ <<n>>[1] = n
      /\ n \in DOMAIN from_u8 /\ from_u8[n] = type
    BY <1>2, <1>4
<1>6. QED
    BY <1>3, <1>5 DEF msg_type

(* A client reads a router or DNS servers exactly if they are configured,  *)
(* it asked for them, and it was not refused, whatever its request was.    *)
THEOREM ParametersAreAsked == Steps => []ParametersAsked
<1>1. Init => AskedFor
    BY DEF Init, AskedFor
<1>2. TypeOK /\ WalkInv /\ AskedFor /\ [Next]_vars => AskedFor'
    BY AskedForStep
<1>3. ASSUME TypeOK, RoundTrip, AskedFor PROVE ParametersAsked
  <2>1. SUFFICES ASSUME phase = "done", "NAK" \notin msg_type(buf, items)
                 PROVE  /\ Granted(OPT_ROUTER) <=> cfg.router # {} /\ Asked(OPT_ROUTER)
                        /\ Granted(OPT_DNS) <=> cfg.dns # <<>> /\ Asked(OPT_DNS)
      BY DEF ParametersAsked
  <2>2. PICK type \in {"OFFER", "ACK", "NAK"} :
            /\ options # <<>>
            /\ options[1] = [code |-> OPT_MSG_TYPE, data |-> <<to_u8(type)>>]
            /\ type # "NAK" =>
                  /\ Has(options, OPT_ROUTER) <=> cfg.router # {} /\ Asked(OPT_ROUTER)
                  /\ Has(options, OPT_DNS) <=> cfg.dns # <<>> /\ Asked(OPT_DNS)
      BY <1>3, <2>1 DEF AskedFor
  <2>3. /\ items \in Seq(Option) /\ options \in Seq([code : OptionCode, data : Seq(Byte)])
        /\ Len(items) = Len(options)
        /\ \A k \in DOMAIN items : /\ items[k].code = options[k].code
                                   /\ value(buf, items[k]) = options[k].data
      BY <1>3, <2>1 DEF TypeOK, RoundTrip
  <2>4. /\ DOMAIN items = 1 .. Len(items) /\ DOMAIN options = DOMAIN items
        /\ Len(items) \in Nat \ {0} /\ 1 \in DOMAIN items
      BY <2>2, <2>3
  <2>5. items[1].code = OPT_MSG_TYPE /\ value(buf, items[1]) = <<to_u8(type)>>
      BY <2>2, <2>3, <2>4
  <2>6. type # "NAK"
      BY <2>1, <2>3, <2>4, <2>5, TypeIsRead
  <2>7. \A c : Granted(c) <=> Has(options, c)
      BY <2>3, <2>4 DEF Granted, Has
  <2>8. QED
      BY <2>2, <2>6, <2>7
<1>4. QED
    BY <1>1, <1>2, <1>3, ExchangeTypes, WalkInvariant, AnswersAreReadable, PTL DEF Steps

-----------------------------------------------------------------------------
(***************************************************************************)
(* The fixed part.                                                         *)
(***************************************************************************)
(* A datagram's options are handled as in Exchange, whatever its fixed     *)
(* part: what holds of every exchange holds of every datagram.             *)
THEOREM DatagramIsExchange == DatagramSpec => Steps
<1>1. DatagramInit => Init
    BY DEF DatagramInit
<1>2. [DatagramNext]_<<vars, fixed_vars>> => [Next]_vars
    BY DEF DatagramNext, Accept, Reject, Walk, GiveNone, Build, Lay, Next, vars, fixed_vars
<1>3. QED
    BY <1>1, <1>2, PTL DEF DatagramSpec, Steps

(* A slice is a field of its length.                                       *)
LEMMA SliceBytes ==
    ASSUME NEW b \in Seq(Nat), NEW from \in Nat, NEW m \in Nat, from + m <= Len(b)
    PROVE  /\ Slice(b, from, from + m) \in [1 .. m -> Nat]
           /\ \A k \in 1 .. m : Slice(b, from, from + m)[k] = b[from + k]
<1>1. PICK low \in Int, high \in Int : low = from + 1 /\ high = from + m
    OBVIOUS
<1>2. \A k \in low .. high : b[k] \in Nat
  <2>1. \A k \in low .. high : k \in 1 .. Len(b)
      BY <1>1
  <2>2. QED
      BY <2>1, ElementOfSeq
<1> DEFINE s == SubSeq(b, low, high)
<1>3. /\ s \in Seq(Nat) /\ Len(s) = (IF low <= high THEN high - low + 1 ELSE 0)
      /\ \A k \in 1 .. high - low + 1 : s[k] = b[low + k - 1]
    BY <1>2, SubSeqProperties
<1> HIDE DEF s
<1>4. Len(s) = m /\ high - low + 1 = m
    BY <1>1, <1>3
<1>5. s \in [1 .. m -> Nat]
    BY <1>3, <1>4, LenProperties
<1>6. \A k \in 1 .. m : s[k] = b[from + k]
  <2>1. TAKE k \in 1 .. m
  <2>2. low + k - 1 = from + k
      BY <1>1
  <2>3. QED
      BY <1>3, <1>4, <2>2
<1>7. s = Slice(b, from, from + m)
    BY <1>1 DEF s, Slice
<1>8. QED
    BY <1>5, <1>6, <1>7

(* The fields of a datagram have their lengths.                            *)
LEMMA ParsedFields ==
    ASSUME NEW b \in Seq(Nat), Len(b) >= MIN_LEN
    PROVE  LET req == parse(b) IN
           /\ req.xid = Slice(b, 4, 8) /\ req.xid \in [1 .. 4 -> Nat]
           /\ req.flags = Slice(b, 10, 12) /\ req.flags \in [1 .. 2 -> Nat]
           /\ req.giaddr = Slice(b, 24, 28) /\ req.giaddr \in [1 .. 4 -> Nat]
           /\ req.chaddr = Slice(b, 28, 34) /\ req.chaddr \in [1 .. 6 -> Nat]
<1>1. Slice(b, 4, 4 + 4) \in [1 .. 4 -> Nat] /\ Slice(b, 10, 10 + 2) \in [1 .. 2 -> Nat]
      /\ Slice(b, 24, 24 + 4) \in [1 .. 4 -> Nat] /\ Slice(b, 28, 28 + 6) \in [1 .. 6 -> Nat]
  <2>1. Len(b) \in Nat /\ 34 <= Len(b)
      BY DEF MIN_LEN
  <2>2. 4 + 4 <= Len(b) /\ 10 + 2 <= Len(b) /\ 24 + 4 <= Len(b) /\ 28 + 6 <= Len(b)
      BY <2>1
  <2>3. QED
      BY <2>2, SliceBytes
<1>2. 4 + 4 = 8 /\ 10 + 2 = 12 /\ 24 + 4 = 28 /\ 28 + 6 = 34
    OBVIOUS
<1>3. QED
    BY <1>1, <1>2 DEF parse

Bytes(m) == [1 .. m -> Nat]

LEMMA BytesAreSequence ==
    ASSUME NEW m \in Nat, NEW r \in Bytes(m)
    PROVE  r \in Seq(Nat) /\ Len(r) = m
BY LenProperties, SeqDef DEF Bytes

LEMMA FourBytes ==
    ASSUME NEW a \in Nat, NEW b \in Nat, NEW c \in Nat, NEW d \in Nat
    PROVE  <<a, b, c, d>> \in Bytes(4)
BY DEF Bytes

(* A field of m bytes lies behind the first from bytes.                    *)
FieldAt(r, from, m, f) == \A n \in 1 .. 240 : n - from \in 1 .. m => r[n] = f[n - from]

Blank(r) == \A n \in 9 .. 10 \cup 13 .. 16 \cup 35 .. 236 : r[n] = 0

(* Where each byte of a reply comes from: no write has run into another.   *)
LEMMA ReplyBytes ==
    ASSUME NEW op \in Bytes(4), NEW xid \in Bytes(4), NEW flags \in Bytes(2),
           NEW giaddr \in Bytes(4), NEW chaddr \in Bytes(6),
           NEW server_ip \in Bytes(4), NEW yiaddr \in Bytes(4)
    PROVE  \A req, r :
             /\ op = <<BOOTREPLY, HTYPE_ETHERNET, HLEN_ETHERNET, 0>>
             /\ req.xid = xid /\ req.flags = flags /\ req.giaddr = giaddr /\ req.chaddr = chaddr
             /\ r = base_reply(req, server_ip, yiaddr)
             => /\ r \in Bytes(240)
                /\ FieldAt(r, 0, 4, op) /\ FieldAt(r, 4, 4, xid) /\ FieldAt(r, 10, 2, flags)
                /\ FieldAt(r, 16, 4, yiaddr) /\ FieldAt(r, 20, 4, server_ip)
                /\ FieldAt(r, 24, 4, giaddr) /\ FieldAt(r, 28, 6, chaddr)
                /\ FieldAt(r, 236, 4, MAGIC_COOKIE) /\ Blank(r)
<1> DEFINE w0 == Zero(240)
           w1 == Write(w0, 0, op)
           w2 == Write(w1, 4, xid)
           w3 == Write(w2, 10, flags)
           w4 == Write(w3, 16, yiaddr)
           w5 == Write(w4, 20, server_ip)
           w6 == Write(w5, 24, giaddr)
           w7 == Write(w6, 28, chaddr)
           w8 == Write(w7, 236, MAGIC_COOKIE)
<1>1. ASSUME NEW req, op = <<BOOTREPLY, HTYPE_ETHERNET, HLEN_ETHERNET, 0>>,
             req.xid = xid, req.flags = flags, req.giaddr = giaddr, req.chaddr = chaddr
      PROVE  base_reply(req, server_ip, yiaddr) = w8
    BY <1>1 DEF base_reply, MIN_LEN, COOKIE_OFFSET
<1>2. w0 \in [1 .. 240 -> Nat] /\ \A n \in 1 .. 240 : w0[n] = 0
    BY DEF Zero
<1>3. DOMAIN w0 = 1 .. 240 /\ DOMAIN chaddr = 1 .. 6 /\ DOMAIN flags = 1 .. 2
      /\ \A f \in {op, xid, yiaddr, server_ip, giaddr, MAGIC_COOKIE} : DOMAIN f = 1 .. 4
    BY <1>2, HeaderConstants DEF Bytes
<1>4. MAGIC_COOKIE \in [1 .. 4 -> Nat]
    BY HeaderConstants
<1> HIDE DEF w0
<1>5. w1 = [n \in 1 .. 240 |-> w1[n]]
      /\ \A n \in 1 .. 240 : w1[n] = IF n - 0 \in 1 .. 4 THEN op[n - 0] ELSE w0[n]
  <2>1. DOMAIN w0 = 1 .. 240 /\ DOMAIN op = 1 .. 4
      BY <1>3
  <2>2. QED
      BY <2>1 DEF Write
<1> HIDE DEF w1
<1>6. w2 = [n \in 1 .. 240 |-> w2[n]]
      /\ \A n \in 1 .. 240 : w2[n] = IF n - 4 \in 1 .. 4 THEN xid[n - 4] ELSE w1[n]
  <2>1. DOMAIN w1 = 1 .. 240 /\ DOMAIN xid = 1 .. 4
      BY <1>3, <1>5
  <2>2. QED
      BY <2>1 DEF Write
<1> HIDE DEF w2
<1>7. w3 = [n \in 1 .. 240 |-> w3[n]]
      /\ \A n \in 1 .. 240 : w3[n] = IF n - 10 \in 1 .. 2 THEN flags[n - 10] ELSE w2[n]
  <2>1. DOMAIN w2 = 1 .. 240 /\ DOMAIN flags = 1 .. 2
      BY <1>3, <1>6
  <2>2. QED
      BY <2>1 DEF Write
<1> HIDE DEF w3
<1>8. w4 = [n \in 1 .. 240 |-> w4[n]]
      /\ \A n \in 1 .. 240 : w4[n] = IF n - 16 \in 1 .. 4 THEN yiaddr[n - 16] ELSE w3[n]
  <2>1. DOMAIN w3 = 1 .. 240 /\ DOMAIN yiaddr = 1 .. 4
      BY <1>3, <1>7
  <2>2. QED
      BY <2>1 DEF Write
<1> HIDE DEF w4
<1>9. w5 = [n \in 1 .. 240 |-> w5[n]]
      /\ \A n \in 1 .. 240 : w5[n] = IF n - 20 \in 1 .. 4 THEN server_ip[n - 20] ELSE w4[n]
  <2>1. DOMAIN w4 = 1 .. 240 /\ DOMAIN server_ip = 1 .. 4
      BY <1>3, <1>8
  <2>2. QED
      BY <2>1 DEF Write
<1> HIDE DEF w5
<1>10. w6 = [n \in 1 .. 240 |-> w6[n]]
      /\ \A n \in 1 .. 240 : w6[n] = IF n - 24 \in 1 .. 4 THEN giaddr[n - 24] ELSE w5[n]
  <2>1. DOMAIN w5 = 1 .. 240 /\ DOMAIN giaddr = 1 .. 4
      BY <1>3, <1>9
  <2>2. QED
      BY <2>1 DEF Write
<1> HIDE DEF w6
<1>11. w7 = [n \in 1 .. 240 |-> w7[n]]
      /\ \A n \in 1 .. 240 : w7[n] = IF n - 28 \in 1 .. 6 THEN chaddr[n - 28] ELSE w6[n]
  <2>1. DOMAIN w6 = 1 .. 240 /\ DOMAIN chaddr = 1 .. 6
      BY <1>3, <1>10
  <2>2. QED
      BY <2>1 DEF Write
<1> HIDE DEF w7
<1>12. w8 = [n \in 1 .. 240 |-> w8[n]]
      /\ \A n \in 1 .. 240 : w8[n] = IF n - 236 \in 1 .. 4 THEN MAGIC_COOKIE[n - 236] ELSE w7[n]
  <2>1. DOMAIN w7 = 1 .. 240 /\ DOMAIN MAGIC_COOKIE = 1 .. 4
      BY <1>3, <1>11
  <2>2. QED
      BY <2>1 DEF Write
<1> HIDE DEF w8
<1>13. ASSUME NEW n \in 1 .. 240
       PROVE  /\ n \in 1 .. 4 => w8[n] = op[n]
              /\ n - 4 \in 1 .. 4 => w8[n] = xid[n - 4]
              /\ n - 10 \in 1 .. 2 => w8[n] = flags[n - 10]
              /\ n - 16 \in 1 .. 4 => w8[n] = yiaddr[n - 16]
              /\ n - 20 \in 1 .. 4 => w8[n] = server_ip[n - 20]
              /\ n - 24 \in 1 .. 4 => w8[n] = giaddr[n - 24]
              /\ n - 28 \in 1 .. 6 => w8[n] = chaddr[n - 28]
              /\ n - 236 \in 1 .. 4 => w8[n] = MAGIC_COOKIE[n - 236]
              /\ n \in 9 .. 10 \cup 13 .. 16 \cup 35 .. 236 => w8[n] = 0
  <2>1. w0[n] = 0
      BY <1>2
  <2>2. /\ w1[n] = IF n - 0 \in 1 .. 4 THEN op[n - 0] ELSE w0[n]
        /\ w2[n] = IF n - 4 \in 1 .. 4 THEN xid[n - 4] ELSE w1[n]
        /\ w3[n] = IF n - 10 \in 1 .. 2 THEN flags[n - 10] ELSE w2[n]
        /\ w4[n] = IF n - 16 \in 1 .. 4 THEN yiaddr[n - 16] ELSE w3[n]
      BY <1>5, <1>6, <1>7, <1>8
  <2>3. /\ w5[n] = IF n - 20 \in 1 .. 4 THEN server_ip[n - 20] ELSE w4[n]
        /\ w6[n] = IF n - 24 \in 1 .. 4 THEN giaddr[n - 24] ELSE w5[n]
        /\ w7[n] = IF n - 28 \in 1 .. 6 THEN chaddr[n - 28] ELSE w6[n]
        /\ w8[n] = IF n - 236 \in 1 .. 4 THEN MAGIC_COOKIE[n - 236] ELSE w7[n]
      BY <1>9, <1>10, <1>11, <1>12
  <2>4. n \in Nat /\ n - 0 = n
      OBVIOUS
  <2>5. QED
      BY <2>1, <2>2, <2>3, <2>4
<1>14. w8 = [n \in 1 .. 240 |-> w8[n]]
    BY <1>12
<1>15. \A n \in 1 .. 240 : w8[n] \in Nat
  <2>1. TAKE n \in 1 .. 240
  <2>2. CASE n \in 1 .. 4
    <3>1. w8[n] = op[n]
        BY <1>13, <2>2
    <3>2. op[n] \in Nat
        BY <2>2 DEF Bytes
    <3>3. QED
        BY <3>1, <3>2
  <2>3. CASE n - 4 \in 1 .. 4
    <3>1. w8[n] = xid[n - 4]
        BY <1>13, <2>3
    <3>2. xid[n - 4] \in Nat
        BY <2>3 DEF Bytes
    <3>3. QED
        BY <3>1, <3>2
  <2>4. CASE n - 10 \in 1 .. 2
    <3>1. w8[n] = flags[n - 10]
        BY <1>13, <2>4
    <3>2. flags[n - 10] \in Nat
        BY <2>4 DEF Bytes
    <3>3. QED
        BY <3>1, <3>2
  <2>5. CASE n - 16 \in 1 .. 4
    <3>1. w8[n] = yiaddr[n - 16]
        BY <1>13, <2>5
    <3>2. yiaddr[n - 16] \in Nat
        BY <2>5 DEF Bytes
    <3>3. QED
        BY <3>1, <3>2
  <2>6. CASE n - 20 \in 1 .. 4
    <3>1. w8[n] = server_ip[n - 20]
        BY <1>13, <2>6
    <3>2. server_ip[n - 20] \in Nat
        BY <2>6 DEF Bytes
    <3>3. QED
        BY <3>1, <3>2
  <2>7. CASE n - 24 \in 1 .. 4
    <3>1. w8[n] = giaddr[n - 24]
        BY <1>13, <2>7
    <3>2. giaddr[n - 24] \in Nat
        BY <2>7 DEF Bytes
    <3>3. QED
        BY <3>1, <3>2
  <2>8. CASE n - 28 \in 1 .. 6
    <3>1. w8[n] = chaddr[n - 28]
        BY <1>13, <2>8
    <3>2. chaddr[n - 28] \in Nat
        BY <2>8 DEF Bytes
    <3>3. QED
        BY <3>1, <3>2
  <2>9. CASE n - 236 \in 1 .. 4
    <3>1. w8[n] = MAGIC_COOKIE[n - 236]
        BY <1>13, <2>9
    <3>2. MAGIC_COOKIE[n - 236] \in Nat
        BY <1>4, <2>9 DEF Bytes
    <3>3. QED
        BY <3>1, <3>2
  <2>10. CASE n \in 9 .. 10 \cup 13 .. 16 \cup 35 .. 236
      BY <1>13, <2>10
  <2>11. n \in Nat
      OBVIOUS
  <2>12. QED
      BY <2>2, <2>3, <2>4, <2>5, <2>6, <2>7, <2>8, <2>9, <2>10, <2>11
<1>16. w8 \in Bytes(240)
    BY <1>14, <1>15 DEF Bytes
<1>17. FieldAt(w8, 0, 4, op)
  <2>1. SUFFICES ASSUME NEW n \in 1 .. 240, n - 0 \in 1 .. 4 PROVE w8[n] = op[n - 0]
      BY DEF FieldAt
  <2>2. n - 0 = n
      OBVIOUS
  <2>3. QED
      BY <1>13, <2>1, <2>2
<1>18. /\ FieldAt(w8, 4, 4, xid) /\ FieldAt(w8, 10, 2, flags) /\ FieldAt(w8, 16, 4, yiaddr)
       /\ FieldAt(w8, 20, 4, server_ip) /\ FieldAt(w8, 24, 4, giaddr)
       /\ FieldAt(w8, 28, 6, chaddr) /\ FieldAt(w8, 236, 4, MAGIC_COOKIE)
    BY <1>13 DEF FieldAt
<1>19. Blank(w8)
  <2>1. \A n \in 9 .. 10 \cup 13 .. 16 \cup 35 .. 236 : n \in 1 .. 240
      OBVIOUS
  <2>2. QED
      BY <1>13, <2>1 DEF Blank
<1>20. QED
    BY <1>1, <1>16, <1>17, <1>18, <1>19

(* Once a datagram is accepted it has a whole fixed part, and once it is   *)
(* answered the fixed part of the answer was built for it, with an address *)
(* exactly if the options grant one.                                       *)
FixedInv ==
    /\ datagram \in Seq(Nat)
    /\ phase \in {"request", "decide", "build", "reply", "done"} => IsRequest(datagram)
    /\ phase \in {"build", "reply", "done"} =>
          /\ ~Relayed
          /\ \E ip \in Addresses \cup {UNSPECIFIED} :
                /\ reply = base_reply(parse(datagram), cfg.server_ip, ip)
                /\ Has(options, OPT_LEASE_TIME) <=> ip # UNSPECIFIED

LEMMA FixedStep ==
    ASSUME TypeOK, FixedInv, [DatagramNext]_<<vars, fixed_vars>>
    PROVE  FixedInv'
<1>1. CASE Accept
    BY <1>1 DEF FixedInv, Accept, AcceptHeader, fixed_vars
<1>2. CASE Reject
    BY <1>2 DEF FixedInv, Reject, RejectHeader, fixed_vars
<1>3. CASE Walk
  <2>1. /\ UNCHANGED <<cfg, options, datagram, reply>>
        /\ Walking
        /\ phase' = phase \/ phase' = IF phase = "request" THEN "decide" ELSE "done"
      BY <1>3 DEF Walk, SkipPad, TakeOption, EndWalk, fixed_vars
  <2>2. QED
      BY <2>1 DEF FixedInv, Walking, Relayed, Has
<1>4. CASE GiveNone
    BY <1>4 DEF FixedInv, GiveNone, Silent, fixed_vars
<1>5. CASE Build
  <2>1. PICK answer \in UNION {Answers[type] : type \in DOMAIN Answers},
             ip \in Addresses \cup {UNSPECIFIED} :
           /\ options' = build(answer)
           /\ ip = UNSPECIFIED <=> answer \notin {"OFFER", "ACK"}
           /\ reply' = base_reply(parse(datagram), cfg.server_ip, ip)
      BY <1>5 DEF Build
  <2>2. /\ phase = "decide" /\ phase' = "build" /\ ~Relayed
        /\ cfg' = cfg /\ datagram' = datagram
      BY <1>5 DEF Build, Answer
  <2>3. answer \in {"OFFER", "ACK", "NAK", "INFORM_ACK"} /\ cfg \in Configs
      BY DEF Answers, TypeOK
  <2>4. Has(build(answer), OPT_LEASE_TIME) <=> answer \in {"OFFER", "ACK"}
      BY <2>3, AnswerHas
  <2>5. Has(options', OPT_LEASE_TIME) <=> ip # UNSPECIFIED
      BY <2>1, <2>4
  <2>6. QED
      BY <2>1, <2>2, <2>5 DEF FixedInv, Relayed, Has
<1>6. CASE Lay
  <2>1. /\ UNCHANGED <<cfg, options, datagram, reply>>
        /\ phase = "build"
        /\ phase' \in {"build", "reply", "panicked"}
      BY <1>6 DEF Lay, PushOption, finish, fixed_vars
  <2>2. QED
      BY <2>1 DEF FixedInv, Relayed, Has
<1>7. CASE UNCHANGED <<vars, fixed_vars>>
    BY <1>7 DEF FixedInv, Relayed, Has, vars, fixed_vars
<1>8. QED
    BY <1>1, <1>2, <1>3, <1>4, <1>5, <1>6, <1>7 DEF DatagramNext

Answered(b, r, server_ip, ip) ==
    /\ Len(r) = MIN_LEN
    /\ Slice(r, 4, 8) = Slice(b, 4, 8) /\ Slice(r, 10, 12) = Slice(b, 10, 12)
    /\ Slice(r, 28, 34) = Slice(b, 28, 34) /\ Slice(r, 236, 240) = Slice(b, 236, 240)
    /\ Slice(r, 0, 4) = <<BOOTREPLY, HTYPE_ETHERNET, HLEN_ETHERNET, 0>>
    /\ Slice(r, 20, 24) = server_ip /\ Slice(r, 16, 20) = ip
    /\ \A k \in 9 .. 10 \cup 13 .. 16 \cup 25 .. 28 \cup 35 .. 236 : r[k] = 0

(* A reply built for a datagram has its fields where a client looks.       *)
LEMMA ReplyFields ==
    ASSUME NEW b \in Seq(Nat), IsRequest(b), parse(b).giaddr = UNSPECIFIED,
           NEW server_ip \in Bytes(4), NEW ip \in Bytes(4),
           NEW r, r = base_reply(parse(b), server_ip, ip)
    PROVE  Answered(b, r, server_ip, ip)
<1>1. Len(b) >= MIN_LEN /\ Slice(b, 236, 240) = MAGIC_COOKIE
    BY DEF IsRequest, MIN_LEN, COOKIE_OFFSET
<1>2. PICK xid \in Bytes(4), flags \in Bytes(2),
           giaddr \in Bytes(4), chaddr \in Bytes(6) :
         /\ parse(b).xid = xid /\ xid = Slice(b, 4, 8)
         /\ parse(b).flags = flags /\ flags = Slice(b, 10, 12)
         /\ parse(b).giaddr = giaddr
         /\ parse(b).chaddr = chaddr /\ chaddr = Slice(b, 28, 34)
    BY <1>1, ParsedFields DEF Bytes
<1>3. PICK op \in Bytes(4) : op = <<BOOTREPLY, HTYPE_ETHERNET, HLEN_ETHERNET, 0>>
  <2>1. BOOTREPLY \in Nat /\ HTYPE_ETHERNET \in Nat /\ HLEN_ETHERNET \in Nat /\ 0 \in Nat
      BY HeaderConstants
  <2>2. <<BOOTREPLY, HTYPE_ETHERNET, HLEN_ETHERNET, 0>> \in Bytes(4)
      BY <2>1, FourBytes
  <2>3. QED
      BY <2>2
<1>4. /\ r \in Bytes(240)
      /\ FieldAt(r, 0, 4, op) /\ FieldAt(r, 4, 4, xid) /\ FieldAt(r, 10, 2, flags)
      /\ FieldAt(r, 16, 4, ip) /\ FieldAt(r, 20, 4, server_ip)
      /\ FieldAt(r, 24, 4, giaddr) /\ FieldAt(r, 28, 6, chaddr)
      /\ FieldAt(r, 236, 4, MAGIC_COOKIE) /\ Blank(r)
    BY <1>2, <1>3, ReplyBytes, SMTT(60)
<1>5. r \in Seq(Nat) /\ Len(r) = 240
  <2>1. r \in Bytes(240)
      BY <1>4
  <2>2. 240 \in Nat
      OBVIOUS
  <2>3. QED
      BY <2>1, <2>2, BytesAreSequence
<1>6. MAGIC_COOKIE \in Bytes(4)
    BY HeaderConstants DEF Bytes
<1>7. SubSeq(r, 1, 4) = op
  <2>1. /\ r[1] = op[1] /\ r[2] = op[2]
        /\ r[3] = op[3] /\ r[4] = op[4]
    <3>1. FieldAt(r, 0, 4, op)
        BY <1>4
    <3>2. QED
        BY <3>1 DEF FieldAt
  <2>2. QED
      BY <1>5, <2>1 DEF Bytes
<1>8. SubSeq(r, 5, 8) = xid
  <2>1. /\ r[5] = xid[1] /\ r[6] = xid[2]
        /\ r[7] = xid[3] /\ r[8] = xid[4]
    <3>1. FieldAt(r, 4, 4, xid)
        BY <1>4
    <3>2. QED
        BY <3>1 DEF FieldAt
  <2>2. QED
      BY <1>5, <2>1 DEF Bytes
<1>9. SubSeq(r, 11, 12) = flags
  <2>1. r[11] = flags[1] /\ r[12] = flags[2]
    <3>1. FieldAt(r, 10, 2, flags)
        BY <1>4
    <3>2. QED
        BY <3>1 DEF FieldAt
  <2>2. QED
      BY <1>5, <2>1 DEF Bytes
<1>10. SubSeq(r, 17, 20) = ip
  <2>1. /\ r[17] = ip[1] /\ r[18] = ip[2]
        /\ r[19] = ip[3] /\ r[20] = ip[4]
    <3>1. FieldAt(r, 16, 4, ip)
        BY <1>4
    <3>2. QED
        BY <3>1 DEF FieldAt
  <2>2. QED
      BY <1>5, <2>1 DEF Bytes
<1>11. SubSeq(r, 21, 24) = server_ip
  <2>1. /\ r[21] = server_ip[1] /\ r[22] = server_ip[2]
        /\ r[23] = server_ip[3] /\ r[24] = server_ip[4]
    <3>1. FieldAt(r, 20, 4, server_ip)
        BY <1>4
    <3>2. QED
        BY <3>1 DEF FieldAt
  <2>2. QED
      BY <1>5, <2>1 DEF Bytes
<1>12. SubSeq(r, 29, 34) = chaddr
  <2>1. /\ r[29] = chaddr[1] /\ r[30] = chaddr[2] /\ r[31] = chaddr[3]
        /\ r[32] = chaddr[4] /\ r[33] = chaddr[5] /\ r[34] = chaddr[6]
    <3>1. FieldAt(r, 28, 6, chaddr)
        BY <1>4
    <3>2. QED
        BY <3>1 DEF FieldAt
  <2>2. QED
      BY <1>5, <2>1 DEF Bytes
<1>13. SubSeq(r, 237, 240) = MAGIC_COOKIE
  <2>1. /\ r[237] = MAGIC_COOKIE[1] /\ r[238] = MAGIC_COOKIE[2]
        /\ r[239] = MAGIC_COOKIE[3] /\ r[240] = MAGIC_COOKIE[4]
    <3>1. FieldAt(r, 236, 4, MAGIC_COOKIE)
        BY <1>4
    <3>2. QED
        BY <3>1 DEF FieldAt
  <2>2. QED
      BY <1>5, <1>6, <2>1 DEF Bytes
<1>14. \A n \in 25 .. 28 : r[n] = 0
  <2>1. \A k \in 1 .. 4 : giaddr[k] = 0
      BY <1>2 DEF UNSPECIFIED, Zero
  <2>2. TAKE n \in 25 .. 28
  <2>3. n \in 1 .. 240 /\ n - 24 \in 1 .. 4
      OBVIOUS
  <2>4. r[n] = giaddr[n - 24]
    <3>1. FieldAt(r, 24, 4, giaddr)
        BY <1>4
    <3>2. QED
        BY <2>3, <3>1 DEF FieldAt
  <2>5. PICK k \in 1 .. 4 : k = n - 24
      BY <2>3
  <2>6. QED
      BY <2>1, <2>4, <2>5
<1>15. \A k \in 9 .. 10 \cup 13 .. 16 \cup 25 .. 28 \cup 35 .. 236 : r[k] = 0
  <2>1. TAKE k \in 9 .. 10 \cup 13 .. 16 \cup 25 .. 28 \cup 35 .. 236
  <2>2. k \in 25 .. 28 \/ k \in 9 .. 10 \cup 13 .. 16 \cup 35 .. 236
      OBVIOUS
  <2>3. CASE k \in 25 .. 28
      BY <1>14, <2>3
  <2>4. CASE k \in 9 .. 10 \cup 13 .. 16 \cup 35 .. 236
      BY <1>4, <2>4 DEF Blank
  <2>5. QED
      BY <2>2, <2>3, <2>4
<1>16. /\ Slice(r, 0, 4) = op /\ Slice(r, 4, 8) = xid /\ Slice(r, 10, 12) = flags
       /\ Slice(r, 16, 20) = ip /\ Slice(r, 20, 24) = server_ip /\ Slice(r, 28, 34) = chaddr
       /\ Slice(r, 236, 240) = MAGIC_COOKIE
  <2>1. /\ 0 + 1 = 1 /\ 4 + 1 = 5 /\ 10 + 1 = 11 /\ 16 + 1 = 17 /\ 20 + 1 = 21
        /\ 28 + 1 = 29 /\ 236 + 1 = 237
      OBVIOUS
  <2>2. QED
      BY <1>7, <1>8, <1>9, <1>10, <1>11, <1>12, <1>13, <2>1 DEF Slice
<1>17. Len(r) = MIN_LEN
    BY <1>5 DEF MIN_LEN
<1>18. QED
    BY <1>1, <1>2, <1>3, <1>15, <1>16, <1>17 DEF Answered

(* Every answer is the client's: transaction id, flags and hardware        *)
(* address, the server's own address, nothing through a relay, and an      *)
(* address exactly if the options grant one for a time (base_reply).       *)
THEOREM AnswersReachTheClient == DatagramSpec => []AnswersTheClient
<1>1. DatagramInit => FixedInv
  <2>1. SUFFICES ASSUME DatagramInit PROVE FixedInv
      OBVIOUS
  <2>2. datagram \in Datagrams \cup {Usual} /\ phase = "header"
      BY <2>1 DEF DatagramInit, Init
  <2>3. datagram \in Seq(Nat)
      BY <2>2, DatagramConstants
  <2>4. QED
      BY <2>2, <2>3 DEF FixedInv
<1>2. TypeOK /\ FixedInv /\ [DatagramNext]_<<vars, fixed_vars>> => FixedInv'
    BY FixedStep
<1>3. ASSUME TypeOK, RoundTrip, FixedInv PROVE AnswersTheClient
  <2>1. SUFFICES ASSUME phase = "done" PROVE AnswersTheClient
      BY DEF AnswersTheClient
  <2>2. PICK ip \in Addresses \cup {UNSPECIFIED} :
           /\ reply = base_reply(parse(datagram), cfg.server_ip, ip)
           /\ Has(options, OPT_LEASE_TIME) <=> ip # UNSPECIFIED
      BY <1>3, <2>1 DEF FixedInv
  <2>3. /\ datagram \in Seq(Nat) /\ IsRequest(datagram)
        /\ parse(datagram).giaddr = UNSPECIFIED
      BY <1>3, <2>1 DEF FixedInv, Relayed
  <2>4. ip \in Bytes(4)
      BY DatagramConstants DEF UNSPECIFIED, Zero, Bytes
  <2>5. cfg.server_ip \in Bytes(4)
      BY <1>3, ExchangeConstants DEF TypeOK, Octets, Byte, Bytes
  <2>6. /\ items \in Seq(Option) /\ options \in Seq([code : OptionCode, data : Seq(Byte)])
        /\ Len(items) = Len(options)
        /\ \A k \in DOMAIN items : items[k].code = options[k].code
      BY <1>3, <2>1 DEF TypeOK, RoundTrip
  <2>7. DOMAIN items = DOMAIN options
      BY <2>6
  <2>8. Granted(OPT_LEASE_TIME) <=> Has(options, OPT_LEASE_TIME)
      BY <2>6, <2>7 DEF Granted, Has
  <2>9. ip \in IF Granted(OPT_LEASE_TIME) THEN Addresses ELSE {UNSPECIFIED}
      BY <2>2, <2>8
  <2>10. Answered(datagram, reply, cfg.server_ip, ip)
      BY <2>2, <2>3, <2>4, <2>5, ReplyFields
  <2>11. \A field \in {<<4, 8>>, <<10, 12>>, <<28, 34>>, <<236, 240>>} :
            Slice(reply, field[1], field[2]) = Slice(datagram, field[1], field[2])
      BY <2>10 DEF Answered
  <2>12. QED
      BY <2>9, <2>10, <2>11 DEF AnswersTheClient, Answered
<1>4. QED
    BY <1>1, <1>2, <1>3, DatagramIsExchange, ExchangeTypes, AnswersAreReadable, PTL
       DEF DatagramSpec

=============================================================================
