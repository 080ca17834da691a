----------------------------- MODULE StartupProofs -----------------------------
(***************************************************************************)
(* Proofs about the way from the command line to the receive loop, for     *)
(* every address width, every configuration file and every command line.   *)
(***************************************************************************)
EXTENDS Main, FiniteSetTheorems, SequenceTheorems, TLAPS

(* An address inside a subnet lies between its network and its broadcast   *)
(* address, both of them addresses.                                        *)
LEMMA SubnetIsInterval ==
    ASSUME NEW c \in Subnet, NEW ip \in Word, contains(c, ip)
    PROVE  /\ network(c) \in Nat /\ broadcast(c) \in Nat
           /\ network(c) <= ip /\ ip <= broadcast(c)
<1> DEFINE n == BlockSize(c)
<1>1. n \in Nat \ {0}
  <2>1. W - c.prefix \in 0 .. W
      BY Width DEF Subnet
  <2>2. QED
      BY <2>1, Width DEF BlockSize
<1>2. c.addr \in Nat /\ ip \in Nat
  <2>1. 2^W \in Nat
      BY Width
  <2>2. QED
      BY <2>1 DEF Subnet, Word
<1>3. network(c) = c.addr - (c.addr % n) /\ broadcast(c) = network(c) + n - 1
    BY DEF network, broadcast
<1>4. ip - (ip % n) = network(c)
    BY DEF contains
<1> HIDE DEF n
<1>5. c.addr % n \in 0 .. n - 1 /\ ip % n \in 0 .. n - 1
    BY <1>1, <1>2
<1>6. c.addr % n <= c.addr
    BY <1>1, <1>2
<1>7. QED
    BY <1>1, <1>2, <1>3, <1>4, <1>5, <1>6

(* What a host of the subnet is to validate is one in the interval's       *)
(* inside.                                                                 *)
LEMMA HostIsInside ==
    ASSUME NEW config \in ParsedConfig, NEW ip \in Word,
           contains(config.subnet, ip), ~IsEdge(config, ip)
    PROVE  /\ ip \in Nat
           /\ network(config.subnet) \in Nat /\ broadcast(config.subnet) \in Nat
           /\ network(config.subnet) < ip /\ ip < broadcast(config.subnet)
<1>1. config.subnet \in Subnet
    BY DEF ParsedConfig
<1>2. ip \in Nat
    BY Width DEF Word
<1>3. QED
    BY <1>1, <1>2, SubnetIsInterval DEF IsEdge

(* In an accepted configuration a MAC has one binding, the one static_for  *)
(* finds.                                                                  *)
LEMMA OneBinding ==
    ASSUME NEW config \in ParsedConfig, UniqueStatics(config),
           NEW n \in DOMAIN config.statics
    PROVE  static_for(config, config.statics[n].mac) = config.statics[n]
<1> DEFINE Found(k) == /\ config.statics[k].mac = config.statics[n].mac
                       /\ \A j \in DOMAIN config.statics :
                             j < k => config.statics[j].mac # config.statics[n].mac
<1>1. Found(n)
    BY DEF UniqueStatics, ParsedConfig
<1>2. \A k \in DOMAIN config.statics : Found(k) => k = n
    BY DEF UniqueStatics
<1>3. (CHOOSE k \in DOMAIN config.statics : Found(k)) = n
    BY <1>1, <1>2
<1>4. QED
    BY <1>3 DEF static_for

(* validate accepts only usable configurations.                            *)
THEOREM AcceptedIsUsable ==
    ASSUME NEW config \in ParsedConfig, validate(config)
    PROVE  Usable(Effective(config))
<1> DEFINE lo == network(config.subnet)
           hi == broadcast(config.subnet)
<1>1. \A ip \in {config.server_ip, config.pool_start, config.pool_end} :
         ip \in Nat /\ lo \in Nat /\ hi \in Nat /\ lo < ip /\ ip < hi
  <2>1. {config.server_ip, config.pool_start, config.pool_end} \subseteq Word
      BY DEF ParsedConfig
  <2>2. {config.server_ip, config.pool_start, config.pool_end} \subseteq KeyAddresses(config)
      BY DEF KeyAddresses
  <2>3. QED
      BY <2>1, <2>2, HostIsInside DEF validate
<1>2. \A n \in DOMAIN config.statics :
         /\ config.statics[n].ip \in Nat
         /\ lo < config.statics[n].ip /\ config.statics[n].ip < hi
  <2>1. \A n \in DOMAIN config.statics : config.statics[n].ip \in Word
    <3>1. config.statics \in Seq(Binding)
        BY DEF ParsedConfig
    <3>2. \A n \in DOMAIN config.statics : config.statics[n] \in Binding
        BY <3>1
    <3>3. QED
        BY <3>2 DEF Binding
  <2>2. QED
      BY <2>1, HostIsInside DEF validate
<1>3. config.lease_time \in Nat \ {0}
    BY DEF validate, ParsedConfig
<1>4. config.pool_start <= config.pool_end
    BY DEF validate
<1>5. config.server_ip \notin config.pool_start .. config.pool_end
    BY <1>1 DEF validate, ServerInPool
<1> DEFINE bound == Effective(config).statics
<1>6. \A mac \in DOMAIN bound : \E n \in DOMAIN config.statics :
         config.statics[n].mac = mac /\ bound[mac] = config.statics[n].ip
  <2>1. UniqueStatics(config)
      BY DEF validate
  <2>2. DOMAIN bound = StaticMacs(config)
      BY DEF Effective
  <2>3. \A mac \in DOMAIN bound : bound[mac] = static_for(config, mac).ip
      BY DEF Effective
  <2>4. \A mac \in StaticMacs(config) : \E n \in DOMAIN config.statics : config.statics[n].mac = mac
      BY DEF StaticMacs
  <2>5. QED
      BY <2>1, <2>2, <2>3, <2>4, OneBinding
<1>7. \A m1, m2 \in DOMAIN bound : bound[m1] = bound[m2] => m1 = m2
    BY <1>6 DEF validate, UniqueStatics
<1>8. \A mac \in DOMAIN bound : bound[mac] \in Nat /\ lo < bound[mac] /\ bound[mac] < hi
    BY <1>2, <1>6
<1>9. /\ Effective(config).server_ip = config.server_ip
      /\ Effective(config).network = lo /\ Effective(config).broadcast = hi
      /\ Effective(config).pool_start = config.pool_start
      /\ Effective(config).pool_end = config.pool_end
      /\ Effective(config).lease_time = config.lease_time
    BY DEF Effective
<1> HIDE DEF bound, lo, hi
<1>10. QED
    BY <1>1, <1>3, <1>4, <1>5, <1>7, <1>8, <1>9 DEF Usable, Address, bound

-----------------------------------------------------------------------------
(***************************************************************************)
(* What validate asks for is no more than soundness.                       *)
(***************************************************************************)
(* The block of a prefix is a power of two that divides the address space. *)
LEMMA BlockDivides ==
    ASSUME NEW c \in Subnet
    PROVE  /\ BlockSize(c) \in Nat \ {0} /\ 2^W \in Nat /\ 2^W % BlockSize(c) = 0
           /\ Word \subseteq Nat
<1>1. W - c.prefix \in 0 .. W /\ W \in 0 .. W
    BY Width DEF Subnet
<1>2. QED
    BY <1>1, Width DEF BlockSize, Word

(* Division with remainder. *)
LEMMA Division ==
    ASSUME NEW x \in Nat, NEW n \in Nat \ {0}
    PROVE  /\ x \div n \in Nat /\ x % n \in 0 .. n - 1
           /\ x = n * (x \div n) + (x % n) /\ n * (x \div n) \in Nat
    OBVIOUS

(* The last block is a whole one: no block reaches over a multiple of its  *)
(* size.                                                                   *)
LEMMA WholeBlocks ==
    ASSUME NEW n \in Nat \ {0}, NEW x \in Nat, NEW top \in Nat, top % n = 0, x < top
    PROVE  n * (x \div n) + n <= top
<1> DEFINE q == x \div n
           r == top \div n
<1>1. q \in Nat /\ r \in Nat /\ x = n * q + (x % n) /\ x % n \in 0 .. n - 1
    OBVIOUS
<1>2. top = n * r
    OBVIOUS
<1> HIDE DEF q, r
<1>3. q < r
  <2>1. SUFFICES ASSUME r <= q PROVE FALSE
      BY <1>1
  <2>2. PICK d \in Nat : q = r + d
    <3>1. q - r \in Nat /\ q = r + (q - r)
        BY <1>1, <2>1
    <3>2. QED
        BY <3>1
  <2>3. n * q = n * r + n * d /\ n * d \in Nat
      BY <1>1, <2>2
  <2>4. QED
      BY <1>1, <1>2, <2>3
<1>4. PICK d \in Nat : r = q + 1 + d
  <2>1. r - q - 1 \in Nat /\ r = q + 1 + (r - q - 1)
      BY <1>1, <1>3
  <2>2. QED
      BY <2>1
<1>5. n * r = n * q + n + n * d /\ n * d \in Nat
    BY <1>1, <1>4
<1>6. QED
    BY <1>1, <1>2, <1>5 DEF q

(* The addresses with a subnet's prefix are those from its network to its  *)
(* broadcast address.                                                      *)
LEMMA SubnetIsWhole ==
    ASSUME NEW c \in Subnet
    PROVE  /\ SubnetOf(c) = network(c) .. broadcast(c)
           /\ network(c) \in Nat /\ broadcast(c) \in Nat
<1> DEFINE n == BlockSize(c)
           q == c.addr \div n
<1>1. n \in Nat \ {0} /\ 2^W \in Nat /\ 2^W % n = 0 /\ c.addr \in Nat /\ c.addr < 2^W
    BY BlockDivides DEF Subnet, Word
<1>2. network(c) = c.addr - (c.addr % n) /\ broadcast(c) = network(c) + n - 1
    BY DEF network, broadcast
<1>3. SubnetOf(c) = {ip \in Word : ip \div n = q}
    BY DEF SubnetOf
<1> DEFINE top == 2^W
<1>4. top \in Nat /\ Word = 0 .. top - 1
    BY <1>1 DEF Word
<1> HIDE DEF n, top
<1>5. /\ q \in Nat /\ c.addr % n \in 0 .. n - 1
      /\ c.addr = n * q + (c.addr % n) /\ n * q \in Nat
    BY <1>1, Division
<1>6. n * q + n <= top
    BY <1>1, WholeBlocks DEF top
<1>7. network(c) = n * q /\ n * q \in Nat /\ broadcast(c) = n * q + n - 1
  <2> DEFINE m == n * q
  <2>1. m \in Nat /\ c.addr = m + (c.addr % n) /\ c.addr % n \in 0 .. n - 1
      BY <1>5
  <2> HIDE DEF m
  <2>2. network(c) = m /\ broadcast(c) = m + n - 1
      BY <1>1, <1>2, <2>1
  <2>3. QED
      BY <2>1, <2>2 DEF m
<1>8. \A ip \in Nat : ip \div n = q <=> n * q <= ip /\ ip <= n * q + n - 1
  <2> SUFFICES ASSUME NEW ip \in Nat
               PROVE  ip \div n = q <=> n * q <= ip /\ ip <= n * q + n - 1
      OBVIOUS
  <2> DEFINE p == ip \div n
  <2>1. p \in Nat /\ ip = n * p + (ip % n) /\ ip % n \in 0 .. n - 1
      BY <1>1
  <2> HIDE DEF p, q
  <2>2. CASE p = q
      BY <1>1, <1>5, <2>1, <2>2 DEF p
  <2>3. CASE p < q
    <3>1. PICK d \in Nat : q = p + 1 + d
      <4>1. q - p - 1 \in Nat /\ q = p + 1 + (q - p - 1)
          BY <1>5, <2>1, <2>3
      <4>2. QED
          BY <4>1
    <3>2. n * q = n * p + n + n * d /\ n * d \in Nat
        BY <1>1, <2>1, <3>1
    <3>3. QED
        BY <1>1, <2>1, <2>3, <3>2 DEF p
  <2>4. CASE q < p
    <3>1. PICK d \in Nat : p = q + 1 + d
      <4>1. p - q - 1 \in Nat /\ p = q + 1 + (p - q - 1)
          BY <1>5, <2>1, <2>4
      <4>2. QED
          BY <4>1
    <3>2. n * p = n * q + n + n * d /\ n * d \in Nat
        BY <1>1, <1>5, <3>1
    <3>3. QED
        BY <1>1, <1>5, <2>1, <2>4, <3>2 DEF p
  <2>5. QED
      BY <1>5, <2>1, <2>2, <2>3, <2>4
<1> HIDE DEF q
<1> DEFINE low == n * q
<1>9. low \in Nat /\ low + n <= top
    BY <1>6, <1>7
<1>10. SubnetOf(c) = {ip \in 0 .. top - 1 : low <= ip /\ ip <= low + n - 1}
    BY <1>3, <1>4, <1>8
<1>11. network(c) = low /\ broadcast(c) = low + n - 1
    BY <1>7
<1> HIDE DEF low
<1>12. QED
    BY <1>1, <1>4, <1>9, <1>10, <1>11

(* To be a host is what validate asks of an address: to lie in the subnet, *)
(* at neither of its ends.                                                 *)
LEMMA HostPasses ==
    ASSUME NEW config \in ParsedConfig, NEW ip \in Hosts(config.subnet)
    PROVE  contains(config.subnet, ip) /\ ~IsEdge(config, ip)
<1> DEFINE c == config.subnet
           n == BlockSize(c)
<1>1. c \in Subnet
    BY DEF ParsedConfig
<1>2. PICK low, high \in SubnetOf(c) : ip \in SubnetOf(c) /\ low < ip /\ ip < high
    BY DEF Hosts
<1>3. /\ SubnetOf(c) = network(c) .. broadcast(c)
      /\ network(c) \in Nat /\ broadcast(c) \in Nat
    BY <1>1, SubnetIsWhole
<1>4. ip # network(c) /\ ip # broadcast(c)
    BY <1>2, <1>3
<1>5. ip \in Nat /\ ip \div n = c.addr \div n
    BY <1>1, <1>2, BlockDivides DEF SubnetOf
<1>6. c.addr \in Nat /\ n \in Nat \ {0}
    BY <1>1, BlockDivides DEF Subnet
<1>7. ip - (ip % n) = network(c)
  <2> DEFINE m == n * (ip \div n)
             addr == c.addr
  <2>1. m \in Nat /\ ip = m + (ip % n) /\ ip % n \in 0 .. n - 1
      BY <1>5, <1>6, Division
  <2>2. addr = m + (addr % n) /\ addr % n \in 0 .. n - 1
      BY <1>5, <1>6, Division
  <2>3. network(c) = addr - (addr % n)
      BY DEF network
  <2> HIDE DEF m, addr, n
  <2>4. QED
      BY <1>5, <2>1, <2>2, <2>3
<1>8. QED
    BY <1>4, <1>7 DEF contains, IsEdge

(* Bindings with as many values of a kind as there are bindings are        *)
(* distinct in it.                                                         *)
LEMMA CountedAreDistinct ==
    ASSUME NEW count \in Nat, NEW f, DOMAIN f = 1 .. count,
           Cardinality({f[n] : n \in 1 .. count}) = count
    PROVE  \A m, n \in 1 .. count : m # n => f[m] # f[n]
<1> DEFINE T == {f[n] : n \in 1 .. count}
           g == [n \in 1 .. count |-> f[n]]
<1>1. IsFiniteSet(1 .. count) /\ Cardinality(1 .. count) = count
    BY FS_Interval
<1>2. g \in Surjection(1 .. count, T)
    BY DEF Surjection
<1>3. Cardinality(1 .. count) = Cardinality(T)
    BY <1>1
<1> HIDE DEF T
<1>4. g \in Injection(1 .. count, T)
    BY <1>1, <1>2, <1>3, FS_SurjSameCardinalityImpliesInj
<1>5. QED
    BY <1>4 DEF Injection, IsInjective

(* A sound configuration is accepted.                                      *)
LEMMA SoundIsAccepted ==
    ASSUME cfg \in ParsedConfig, Sound
    PROVE  validate(cfg)
<1> DEFINE c == cfg.subnet
           bound == DOMAIN cfg.statics
<1>1. cfg.interface # Empty /\ cfg.lease_file # Empty /\ cfg.lease_time # 0
  <2>1. {cfg.interface, cfg.lease_file} \cap {Empty} = {} /\ cfg.lease_time > 0
      BY DEF Sound
  <2>2. cfg.lease_time \in Nat
      BY DEF ParsedConfig
  <2>3. cfg.interface # Empty /\ cfg.lease_file # Empty
      BY <2>1, Zenon
  <2>4. QED
      BY <2>1, <2>2, <2>3
<1>2. cfg.dns <= MaxDns
    BY DEF Sound, ParsedConfig, MaxDns
<1>3. c \in Subnet /\ cfg.subnet_mask \in Word
    BY DEF ParsedConfig
<1>4. mask(c) = cfg.subnet_mask
  <2>1. SubnetOf(c) = network(c) .. broadcast(c) /\ network(c) \in Nat /\ broadcast(c) \in Nat
      BY <1>3, SubnetIsWhole
  <2>2. BlockSize(c) \in Nat \ {0} /\ 2^W \in Nat /\ Word \subseteq Nat
      BY <1>3, BlockDivides
  <2> DEFINE low == network(c)
             high == broadcast(c)
             n == BlockSize(c)
             top == 2^W
  <2>3. high = low + n - 1
      BY DEF broadcast
  <2>4. mask(c) = top - n
      BY DEF mask
  <2>5. top - cfg.subnet_mask = Cardinality(low .. high)
      BY <2>1 DEF Sound
  <2>6. low \in Nat /\ high \in Nat /\ n \in Nat \ {0} /\ top \in Nat /\ cfg.subnet_mask \in Nat
      BY <1>3, <2>1, <2>2
  <2> HIDE DEF low, high, n, top
  <2>7. Cardinality(low .. high) = high - low + 1
      BY <2>3, <2>6, FS_Interval
  <2>8. QED
      BY <2>3, <2>4, <2>5, <2>6, <2>7
<1>5. \A ip \in KeyAddresses(cfg) : contains(c, ip) /\ ~IsEdge(cfg, ip)
  <2>1. KeyAddresses(cfg) \subseteq Hosts(c)
      BY DEF KeyAddresses, Sound
  <2>2. QED
      BY <2>1, HostPasses
<1>6. cfg.pool_start <= cfg.pool_end
    BY DEF Sound
<1>7. ~ServerInPool(cfg)
  <2>1. {cfg.server_ip, cfg.pool_start, cfg.pool_end} \subseteq Nat
      BY <1>3, BlockDivides DEF ParsedConfig
  <2>2. QED
      BY <2>1 DEF Sound, ServerInPool
<1>8. \A n \in bound : contains(c, cfg.statics[n].ip) /\ ~IsEdge(cfg, cfg.statics[n].ip)
    BY HostPasses DEF Sound
<1>9. UniqueStatics(cfg)
  <2> DEFINE count == Len(cfg.statics)
             macs == [n \in bound |-> cfg.statics[n].mac]
             ips == [n \in bound |-> cfg.statics[n].ip]
  <2>1. count \in Nat /\ bound = 1 .. count
      BY DEF ParsedConfig
  <2>2. Cardinality({macs[n] : n \in 1 .. count}) = count
    <3>1. {macs[n] : n \in 1 .. count} = StaticMacs(cfg)
        BY <2>1 DEF StaticMacs
    <3>2. QED
        BY <3>1 DEF Sound
  <2>3. Cardinality({ips[n] : n \in 1 .. count}) = count
    <3>1. {ips[n] : n \in 1 .. count} = {cfg.statics[n].ip : n \in DOMAIN cfg.statics}
        BY <2>1
    <3>2. QED
        BY <3>1 DEF Sound
  <2>4. DOMAIN macs = 1 .. count /\ DOMAIN ips = 1 .. count
      BY <2>1
  <2> HIDE DEF count, macs, ips
  <2>5. \A m, n \in 1 .. count : m # n => macs[m] # macs[n] /\ ips[m] # ips[n]
      BY <2>1, <2>2, <2>3, <2>4, CountedAreDistinct
  <2>6. QED
      BY <2>1, <2>5 DEF UniqueStatics, macs, ips
<1>10. QED
    BY <1>1, <1>2, <1>4, <1>5, <1>6, <1>7, <1>8, <1>9 DEF validate

-----------------------------------------------------------------------------
(* Every variable keeps its type, and no required key is ever missing      *)
(* after the file was read.                                                *)
THEOREM StartupTypes == Spec => []TypeOK
<1> USE StartupConstants
<1>1. Init => TypeOK
  <2>1. 0 \in Word /\ [addr |-> 0, prefix |-> 0] \in Subnet
      BY Width DEF Word, Subnet
  <2>2. <<>> \in Seq(Binding) /\ Empty \in Name
      BY EmptyName
  <2>3. Init => cfg \in ParsedConfig
      BY <2>1, <2>2 DEF Init, ParsedConfig
  <2>4. Init => phase = "reading" /\ given = {} /\ dns_lines \in Nat
      BY DEF Init
  <2>5. Init => pinned \in BOOLEAN
      BY Zenon DEF Init
  <2>6. Init => text \in Texts
      BY DEF Init
  <2>7. QED
      BY <2>3, <2>4, <2>5, <2>6 DEF TypeOK
<1>2. ASSUME TypeOK, [Next]_vars PROVE TypeOK'
  <2> USE DEF TypeOK
  <2>0. WellFormed(text)
      BY <1>2
  <2>1. ASSUME NEW key \in SingleKeys, ReadSingle(key) PROVE TypeOK'
    <3>1. PICK value \in text[key] : cfg' = [cfg EXCEPT ![key] = value]
        BY <2>1 DEF ReadSingle
    <3>2. cfg' \in ParsedConfig
        BY <1>2, <2>0, <3>1 DEF WellFormed, SingleKeys, Required, ParsedConfig
    <3>3. QED
        BY <1>2, <2>1, <3>2 DEF ReadSingle
  <2>2. CASE ReadDns
    <3>1. cfg' \in ParsedConfig
        BY SMTT(30), <1>2, <2>0, <2>2 DEF WellFormed, ReadDns, ParsedConfig
    <3>2. QED
        BY <1>2, <2>2, <3>1 DEF ReadDns
  <2>3. CASE ReadStatic
    <3>1. PICK s \in Binding : cfg' = [cfg EXCEPT !.statics = Append(cfg.statics, s)]
        BY <2>0, <2>3 DEF WellFormed, ReadStatic
    <3>2. cfg.statics \in Seq(Binding)
        BY <1>2 DEF ParsedConfig
    <3>3. Append(cfg.statics, s) \in Seq(Binding)
        BY <3>2
    <3>4. cfg' \in ParsedConfig
        BY <1>2, <3>1, <3>3 DEF ParsedConfig
    <3>5. QED
        BY <1>2, <2>3, <3>4 DEF ReadStatic
  <2>4. CASE ReadBadLine \/ EndOfFile
      BY <1>2, <2>4 DEF ReadBadLine, EndOfFile, Failures
  <2>5. CASE Validate
      BY <1>2, <2>5 DEF Validate, Failures
  <2>6. CASE bind
      BY <1>2, <2>6 DEF bind, BindFails, BindToDevice, BindToDeviceFails, Failures
  <2>7. CASE UNCHANGED vars
      BY <1>2, <2>7 DEF vars
  <2>8. QED
      BY <1>2, <2>1, <2>2, <2>3, <2>4, <2>5, <2>6, <2>7 DEF Next, parse_config
<1>3. QED
    BY <1>1, <1>2, PTL DEF Spec

(* The server never serves with a configuration the allocator cannot rely  *)
(* on: the assumption of every theorem about the lease server holds of     *)
(* whatever configuration passes validation.                               *)
THEOREM ServesOnlyUsable == Spec => []ServesUsable
<1>1. Init => ServesUsable
    BY DEF Init, ServesUsable
<1>2. ASSUME TypeOK, ServesUsable, [Next]_vars PROVE ServesUsable'
  <2>1. CASE Validate
      BY <1>2, <2>1, AcceptedIsUsable DEF Validate, ServesUsable, TypeOK
  <2>2. CASE parse_config
      BY <2>2 DEF parse_config, ReadSingle, ReadDns, ReadStatic, ReadBadLine, EndOfFile, ServesUsable
  <2>3. CASE bind
      BY <1>2, <2>3 DEF bind, BindFails, BindToDevice, BindToDeviceFails, ServesUsable
  <2>4. CASE UNCHANGED vars
      BY <1>2, <2>4 DEF vars, ServesUsable
  <2>5. QED
      BY <1>2, <2>1, <2>2, <2>3, <2>4 DEF Next
<1>3. QED
    BY <1>1, <1>2, StartupTypes, PTL DEF Spec

(* The assertion in OptionsWriter::push never fires on the list of DNS     *)
(* servers: what several dns lines add up to was validated.                *)
THEOREM ServedDnsFits == Spec => []DnsFitsOption
<1> DEFINE Fit == phase \in {"valid", "serving"} => 4 * cfg.dns <= 255
<1>1. Init => Fit
    BY DEF Init
<1>2. ASSUME TypeOK, Fit, [Next]_vars PROVE Fit'
  <2>1. CASE Validate
    <3>1. cfg.dns \in Nat
        BY <1>2 DEF TypeOK, ParsedConfig
    <3>2. QED
        BY <1>2, <2>1, <3>1 DEF Validate, validate, MaxDns
  <2>2. CASE parse_config
      BY <2>2 DEF parse_config, ReadSingle, ReadDns, ReadStatic, ReadBadLine, EndOfFile
  <2>3. CASE bind
      BY <1>2, <2>3 DEF bind, BindFails, BindToDevice, BindToDeviceFails
  <2>4. CASE UNCHANGED vars
      BY <1>2, <2>4 DEF vars
  <2>5. QED
      BY <1>2, <2>1, <2>2, <2>3, <2>4 DEF Next
<1>3. Fit => DnsFitsOption
    BY DEF DnsFitsOption
<1>4. QED
    BY <1>1, <1>2, <1>3, StartupTypes, PTL DEF Spec

(* A server that is not tied to its interface was told it may be.          *)
THEOREM ServesPinned == Spec => []PinnedUnlessAllowed
<1> USE DEF PinnedUnlessAllowed
<1>1. Init => PinnedUnlessAllowed
    BY DEF Init
<1>2. ASSUME PinnedUnlessAllowed, [Next]_vars PROVE PinnedUnlessAllowed'
  <2>1. CASE parse_config \/ Validate
      BY <2>1 DEF parse_config, ReadSingle, ReadDns, ReadStatic, ReadBadLine, EndOfFile, Validate
  <2>2. CASE bind
      BY <2>2 DEF bind, BindFails, BindToDevice, BindToDeviceFails
  <2>3. CASE UNCHANGED vars
      BY <1>2, <2>3 DEF vars
  <2>4. QED
      BY <1>2, <2>1, <2>2, <2>3 DEF Next
<1>3. QED
    BY <1>1, <1>2, PTL DEF Spec

(* No sound configuration is refused.  What is kept is that validate       *)
(* refused it, for what it asks for is no more than soundness.             *)
THEOREM RefusesOnlyUnsound == Spec => []RefusedForCause
<1> DEFINE Refused == phase = "invalid" => ~validate(cfg)
<1>1. Init => Refused
    BY DEF Init
<1>2. ASSUME Refused, [Next]_vars PROVE Refused'
  <2>1. CASE Validate
      BY <2>1 DEF Validate
  <2>2. CASE parse_config
      BY <2>2 DEF parse_config, ReadSingle, ReadDns, ReadStatic, ReadBadLine, EndOfFile
  <2>3. CASE bind
      BY <2>3 DEF bind, BindFails, BindToDevice, BindToDeviceFails
  <2>4. CASE UNCHANGED vars
      BY <1>2, <2>4 DEF vars
  <2>5. QED
      BY <1>2, <2>1, <2>2, <2>3, <2>4 DEF Next
<1>3. TypeOK /\ Refused => RefusedForCause
    BY SoundIsAccepted DEF TypeOK, RefusedForCause
<1>4. QED
    BY <1>1, <1>2, <1>3, StartupTypes, PTL DEF Spec

-----------------------------------------------------------------------------
(***************************************************************************)
(* The command line.  The inductive invariant of the loop is that what it  *)
(* has passed, up to position i, reads as options in one way only, the way *)
(* of every reading of the whole line, and that path and level are what    *)
(* that reading means.                                                     *)
(***************************************************************************)
ReadsAs(options) ==
    /\ options \subseteq 1 .. i
    /\ \A k \in options : rest[k] \in ConfigFlag \cup Quiet \cup Verbose
    /\ \A k \in options : rest[k] \in ConfigFlag => k < i
    /\ \A k \in 1 .. i : k \in options <=> ~(k - 1 \in options /\ rest[k - 1] \in ConfigFlag)

OnlyReading(options) == \A o \in SUBSET DOMAIN rest : Usage(o) => o \cap (1 .. i) = options

PathIsLast(options) ==
    IF path = None THEN Uses(options, ConfigFlag) = {}
    ELSE \E k \in options : IsLast(k, Uses(options, ConfigFlag)) /\ path = rest[k + 1]

LevelIsLast(options) ==
    /\ level # "info" <=> Uses(options, Quiet \cup Verbose) # {}
    /\ \A k \in options :
          IsLast(k, Uses(options, Quiet \cup Verbose)) =>
              (level = "warn" <=> rest[k] \in Quiet)

Understood(options) ==
    ReadsAs(options) /\ OnlyReading(options) /\ PathIsLast(options) /\ LevelIsLast(options)

ArgsInv ==
    /\ args \in Seq(Words) /\ i \in Nat /\ path \in Words \cup {None}
    /\ status = "start" => i = 0 /\ path = None /\ level = "info"
    /\ status = "options" =>
          /\ args # <<>> /\ command = "run" /\ i <= Len(rest)
          /\ \E options \in SUBSET (1 .. i) : Understood(options)
    /\ RunFollowsUsage

(* The words that follow the command. *)
LEMMA RestOfLine ==
    ASSUME args \in Seq(Words), args # <<>>
    PROVE  rest \in Seq(Words) /\ Len(rest) \in Nat /\ DOMAIN rest = 1 .. Len(rest)
<1>1. rest \in Seq(Words)
    BY DEF rest
<1>2. QED
    BY <1>1

(* The next word is an option in every reading of the line.                *)
LEMMA NextIsOption ==
    ASSUME ArgsInv, status = "options", i < Len(rest),
           NEW options, Understood(options), NEW o \in SUBSET DOMAIN rest, Usage(o)
    PROVE  i + 1 \in o
<1>1. i \in Nat /\ Len(rest) \in Nat /\ DOMAIN rest = 1 .. Len(rest)
    BY RestOfLine DEF ArgsInv
<1>2. i + 1 \in DOMAIN rest
    BY <1>1
<1>3. ~(i \in o /\ rest[i] \in ConfigFlag)
  <2>1. o \cap (1 .. i) = options
      BY DEF Understood, OnlyReading
  <2>2. SUFFICES ASSUME i \in o, rest[i] \in ConfigFlag PROVE FALSE
      OBVIOUS
  <2>3. i \in options
      BY <1>1, <2>1, <2>2
  <2>4. i < i
      BY <2>2, <2>3 DEF Understood, ReadsAs
  <2>5. QED
      BY <1>1, <2>4
<1>4. \A k \in DOMAIN rest : k \in o <=> ~(k - 1 \in o /\ rest[k - 1] \in ConfigFlag)
    BY DEF Usage
<1>5. PICK at : at = i + 1
    OBVIOUS
<1>6. at \in DOMAIN rest /\ at - 1 = i
    BY <1>1, <1>2, <1>5
<1>7. at \in o
    BY <1>3, <1>4, <1>6
<1>8. QED
    BY <1>5, <1>7

(* A word read alone.                                                      *)
LEMMA ReadLevelUnderstood ==
    ASSUME ArgsInv, ReadLevel
    PROVE  \E options \in SUBSET (1 .. i') : Understood(options)'
<1>1. /\ status = "options" /\ i < Len(rest) /\ i' = i + 1
      /\ args' = args /\ path' = path
    BY DEF ReadLevel, AtOption
<1>2. PICK old : Understood(old)
    BY <1>1 DEF ArgsInv
<1>3. /\ i \in Nat /\ Len(rest) \in Nat /\ DOMAIN rest = 1 .. Len(rest)
    BY <1>1, RestOfLine DEF ArgsInv
<1>4. PICK at : at = i + 1
    OBVIOUS
<1>5. PICK new : new = old \cup {at}
    OBVIOUS
<1>6. rest' = rest
    BY <1>1 DEF rest
<1>7. old \subseteq 1 .. i /\ at \in Nat /\ at \notin old /\ i' = at
    BY <1>1, <1>2, <1>3, <1>4 DEF Understood, ReadsAs
<1>8. /\ rest[at] \in Quiet \cup Verbose /\ rest[at] \notin ConfigFlag
      /\ rest[at] \in Quiet => level' = "warn"
      /\ rest[at] \notin Quiet => level' = "debug"
    BY <1>4 DEF ReadLevel, AtOption, Quiet, Verbose, ConfigFlag
<1>9. ReadsAs(new)'
  <2>1. new \subseteq 1 .. i'
    <3>1. 1 .. i' = (1 .. i) \cup {at}
        BY <1>3, <1>4, <1>7
    <3>2. QED
        BY <1>5, <1>7, <3>1
  <2>2. \A k \in new : rest[k] \in ConfigFlag \cup Quiet \cup Verbose
      BY <1>2, <1>5, <1>8 DEF Understood, ReadsAs
  <2>3. \A k \in new : rest[k] \in ConfigFlag => k < i'
      BY <1>2, <1>3, <1>4, <1>5, <1>7, <1>8 DEF Understood, ReadsAs
  <2>4. ASSUME NEW k \in 1 .. i'
        PROVE  k \in new <=> ~(k - 1 \in new /\ rest[k - 1] \in ConfigFlag)
    <3>1. CASE k = at
      <4>1. k - 1 \in new => k - 1 \in old /\ k - 1 = i
          BY <1>3, <1>4, <1>5, <3>1
      <4>2. k - 1 \in old => rest[k - 1] \notin ConfigFlag
          BY <1>2, <1>3, <1>4, <3>1 DEF Understood, ReadsAs
      <4>3. QED
          BY <1>5, <3>1, <4>1, <4>2
    <3>2. CASE k # at
      <4>1. k \in 1 .. i /\ k - 1 # at
          BY <1>3, <1>4, <1>7, <3>2
      <4>2. k \in new <=> k \in old
          BY <1>5, <3>2
      <4>3. k - 1 \in new <=> k - 1 \in old
          BY <1>5, <4>1
      <4>4. QED
          BY <1>2, <4>1, <4>2, <4>3 DEF Understood, ReadsAs
    <3>3. QED
        BY <3>1, <3>2
  <2>5. QED
      BY <1>6, <2>1, <2>2, <2>3, <2>4 DEF ReadsAs
<1>10. OnlyReading(new)'
  <2>1. ASSUME NEW o \in SUBSET DOMAIN rest, Usage(o)
        PROVE  o \cap (1 .. i') = new
    <3>1. at \in o
        BY <1>1, <1>2, <1>4, <2>1, NextIsOption
    <3>2. o \cap (1 .. i) = old
        BY <1>2, <2>1 DEF Understood, OnlyReading
    <3>3. 1 .. i' = (1 .. i) \cup {at}
        BY <1>3, <1>4, <1>7
    <3>4. QED
        BY <1>5, <3>1, <3>2, <3>3
  <2>2. \A o : Usage(o)' <=> Usage(o)
      BY <1>6 DEF Usage
  <2>3. QED
      BY <1>6, <2>1, <2>2 DEF OnlyReading
<1>11. PathIsLast(new)'
  <2>1. Uses(new, ConfigFlag)' = Uses(old, ConfigFlag)
      BY <1>5, <1>6, <1>8 DEF Uses
  <2>2. PathIsLast(old)
      BY <1>2 DEF Understood
  <2>3. QED
      BY <1>1, <1>5, <1>6, <2>1, <2>2 DEF PathIsLast
<1>12. LevelIsLast(new)'
  <2>1. Uses(new, Quiet \cup Verbose)' = Uses(old, Quiet \cup Verbose) \cup {at}
      BY <1>5, <1>6, <1>8 DEF Uses
  <2>2. level' # "info"
      BY <1>8
  <2>3. ASSUME NEW k \in new, IsLast(k, Uses(new, Quiet \cup Verbose)') PROVE k = at
    <3>1. at <= k
        BY <2>1, <2>3 DEF IsLast
    <3>2. k \in 1 .. i \/ k = at
        BY <1>5, <1>7
    <3>3. QED
        BY <1>3, <1>4, <3>1, <3>2
  <2>4. level' = "warn" <=> rest[at] \in Quiet
      BY <1>8
  <2>5. QED
      BY <1>6, <2>1, <2>2, <2>3, <2>4 DEF LevelIsLast
<1>13. QED
    BY <1>9, <1>10, <1>11, <1>12 DEF Understood, ReadsAs

(* A word read with its value.                                             *)
LEMMA ReadConfigUnderstood ==
    ASSUME ArgsInv, ReadConfig
    PROVE  \E options \in SUBSET (1 .. i') : Understood(options)'
<1>1. /\ status = "options" /\ i < Len(rest) /\ i + 1 < Len(rest) /\ i' = i + 2
      /\ args' = args /\ level' = level /\ path' = rest[i + 2]
    BY DEF ReadConfig, AtOption
<1>2. PICK old : Understood(old)
    BY <1>1 DEF ArgsInv
<1>3. /\ i \in Nat /\ Len(rest) \in Nat /\ DOMAIN rest = 1 .. Len(rest)
      /\ rest \in Seq(Words)
    BY <1>1, RestOfLine DEF ArgsInv
<1>4. PICK at : at = i + 1
    OBVIOUS
<1>5. PICK new : new = old \cup {at}
    OBVIOUS
<1>6. rest' = rest
    BY <1>1 DEF rest
<1>7. old \subseteq 1 .. i /\ at \in Nat /\ at \notin old /\ i' = at + 1
    BY <1>1, <1>2, <1>3, <1>4 DEF Understood, ReadsAs
<1>8. /\ rest[at] \in ConfigFlag /\ rest[at] \notin Quiet \cup Verbose
      /\ path' = rest[at + 1] /\ path' # None
  <2>1. rest[at] \in ConfigFlag
      BY <1>4 DEF ReadConfig, AtOption
  <2>2. rest[at] \notin Quiet \cup Verbose
      BY <2>1 DEF ConfigFlag, Quiet, Verbose
  <2>3. at + 1 \in 1 .. Len(rest) /\ i + 2 = at + 1
      BY <1>1, <1>3, <1>4
  <2>4. path' = rest[at + 1]
      BY <1>1, <2>3
  <2>5. rest[at + 1] \in Words
      BY <1>3, <2>3, ElementOfSeq
  <2>6. QED
      BY <2>1, <2>2, <2>4, <2>5, ArgConstants
<1>9. 1 .. i' = (1 .. i) \cup {at, at + 1}
    BY <1>3, <1>4, <1>7
<1>10. ReadsAs(new)'
  <2>1. new \subseteq 1 .. i'
      BY <1>5, <1>7, <1>9
  <2>2. \A k \in new : rest[k] \in ConfigFlag \cup Quiet \cup Verbose
      BY <1>2, <1>5, <1>8 DEF Understood, ReadsAs
  <2>3. \A k \in new : k < i'
      BY <1>3, <1>4, <1>5, <1>7
  <2>4. ASSUME NEW k \in 1 .. i'
        PROVE  k \in new <=> ~(k - 1 \in new /\ rest[k - 1] \in ConfigFlag)
    <3>1. CASE k = at
      <4>1. k - 1 \in new => k - 1 \in old /\ k - 1 = i
          BY <1>3, <1>4, <1>5, <3>1
      <4>2. k - 1 \in old => rest[k - 1] \notin ConfigFlag
          BY <1>2, <1>3, <1>4, <3>1 DEF Understood, ReadsAs
      <4>3. QED
          BY <1>5, <3>1, <4>1, <4>2
    <3>2. CASE k = at + 1
      <4>1. k - 1 = at /\ k # at
          BY <1>7, <3>2
      <4>2. k \notin old
          BY <1>3, <1>4, <1>7, <3>2
      <4>3. QED
          BY <1>5, <1>8, <4>1, <4>2
    <3>3. CASE k \notin {at, at + 1}
      <4>1. k \in 1 .. i /\ k - 1 # at
          BY <1>7, <1>9, <3>3
      <4>2. k \in new <=> k \in old
          BY <1>5, <3>3
      <4>3. k - 1 \in new <=> k - 1 \in old
          BY <1>5, <4>1
      <4>4. QED
          BY <1>2, <4>1, <4>2, <4>3 DEF Understood, ReadsAs
    <3>4. QED
        BY <3>1, <3>2, <3>3
  <2>5. QED
      BY <1>6, <2>1, <2>2, <2>3, <2>4 DEF ReadsAs
<1>11. OnlyReading(new)'
  <2>1. ASSUME NEW o \in SUBSET DOMAIN rest, Usage(o)
        PROVE  o \cap (1 .. i') = new
    <3>1. at \in o
        BY <1>1, <1>2, <1>4, <2>1, NextIsOption
    <3>2. o \cap (1 .. i) = old
        BY <1>2, <2>1 DEF Understood, OnlyReading
    <3>3. at + 1 \notin o
      <4>1. \A k \in DOMAIN rest : k \in o <=> ~(k - 1 \in o /\ rest[k - 1] \in ConfigFlag)
          BY <2>1 DEF Usage
      <4>2. PICK n : n = at + 1
          OBVIOUS
      <4>3. n \in DOMAIN rest /\ n - 1 = at
          BY <1>1, <1>3, <1>4, <4>2
      <4>4. n \notin o
          BY <1>8, <3>1, <4>1, <4>3
      <4>5. QED
          BY <4>2, <4>4
    <3>4. QED
        BY <1>5, <1>9, <3>1, <3>2, <3>3
  <2>2. \A o : Usage(o)' <=> Usage(o)
      BY <1>6 DEF Usage
  <2>3. QED
      BY <1>6, <2>1, <2>2 DEF OnlyReading
<1>12. PathIsLast(new)'
  <2>1. Uses(new, ConfigFlag)' = Uses(old, ConfigFlag) \cup {at}
      BY <1>5, <1>6, <1>8 DEF Uses
  <2>2. Uses(old, ConfigFlag) \subseteq 1 .. i
      BY <1>7 DEF Uses
  <2>3. IsLast(at, Uses(new, ConfigFlag)')
      BY <1>3, <1>4, <2>1, <2>2 DEF IsLast
  <2>4. at \in new
      BY <1>5
  <2>5. QED
      BY <1>6, <1>8, <2>3, <2>4 DEF PathIsLast
<1>13. LevelIsLast(new)'
  <2>1. Uses(new, Quiet \cup Verbose)' = Uses(old, Quiet \cup Verbose)
      BY <1>5, <1>6, <1>8 DEF Uses
  <2>2. ASSUME NEW k \in new, IsLast(k, Uses(old, Quiet \cup Verbose)) PROVE k \in old
      BY <2>2 DEF IsLast, Uses
  <2>3. LevelIsLast(old)
      BY <1>2 DEF Understood
  <2>4. QED
      BY <1>1, <1>6, <2>1, <2>2, <2>3 DEF LevelIsLast
<1>14. QED
    BY <1>10, <1>11, <1>12, <1>13 DEF Understood, ReadsAs

(* The loop fails only on a line that has no reading.                      *)
LEMMA ErrorsAreErrors ==
    ASSUME ArgsInv, NoPath \/ Unexpected \/ (EndOfOptions /\ path = None)
    PROVE  \A o \in SUBSET DOMAIN rest : Usage(o) => Uses(o, ConfigFlag) = {}
<1>1. status = "options"
    BY DEF NoPath, Unexpected, EndOfOptions, AtOption
<1>2. PICK options : Understood(options)
    BY <1>1 DEF ArgsInv
<1>3. /\ i \in Nat /\ Len(rest) \in Nat /\ DOMAIN rest = 1 .. Len(rest)
      /\ rest \in Seq(Words)
    BY <1>1, RestOfLine DEF ArgsInv
<1>4. SUFFICES ASSUME NEW o \in SUBSET DOMAIN rest, Usage(o)
               PROVE  Uses(o, ConfigFlag) = {}
    OBVIOUS
<1>5. CASE NoPath
  <2>1. i + 1 = Len(rest) /\ i < Len(rest) /\ rest[i + 1] \in ConfigFlag
      BY <1>5 DEF NoPath, AtOption
  <2>2. i + 1 \in o
      BY <1>1, <1>2, <1>4, <2>1, NextIsOption
  <2>3. i + 1 < Len(rest)
      BY <1>4, <2>1, <2>2 DEF Usage
  <2>4. QED
      BY <1>3, <2>1, <2>3
<1>6. CASE Unexpected
  <2>1. i < Len(rest) /\ rest[i + 1] \notin ConfigFlag \cup Quiet \cup Verbose
      BY <1>6 DEF Unexpected, AtOption
  <2>2. i + 1 \in o
      BY <1>1, <1>2, <1>4, <2>1, NextIsOption
  <2>3. QED
      BY <1>4, <2>1, <2>2 DEF Usage
<1>7. CASE EndOfOptions /\ path = None
  <2>1. i = Len(rest) /\ path = None
      BY <1>7 DEF EndOfOptions
  <2>2. o = options
      BY <1>2, <1>3, <1>4, <2>1 DEF Understood, OnlyReading
  <2>3. Uses(options, ConfigFlag) = {}
      BY <1>2, <2>1 DEF Understood, PathIsLast
  <2>4. QED
      BY <2>2, <2>3
<1>8. QED
    BY <1>5, <1>6, <1>7

(* The line that was read to its end is the reading, and path and level    *)
(* are what it means.                                                      *)
LEMMA EndIsMeant ==
    ASSUME ArgsInv, EndOfOptions, path # None
    PROVE  \E o \in SUBSET DOMAIN rest : Usage(o) /\ Uses(o, ConfigFlag) # {} /\ Means(o)
<1>1. status = "options" /\ i = Len(rest)
    BY DEF EndOfOptions
<1>2. PICK options : Understood(options)
    BY <1>1 DEF ArgsInv
<1>3. DOMAIN rest = 1 .. i
    BY <1>1, RestOfLine DEF ArgsInv
<1>4. options \in SUBSET DOMAIN rest
    BY <1>2, <1>3 DEF Understood, ReadsAs
<1>5. Usage(options)
    BY <1>1, <1>2, <1>3 DEF Understood, ReadsAs, Usage
<1>6. PICK k \in options : IsLast(k, Uses(options, ConfigFlag)) /\ path = rest[k + 1]
    BY <1>2 DEF Understood, PathIsLast
<1>7. Uses(options, ConfigFlag) # {}
    BY <1>6 DEF IsLast
<1>8. Means(options)
    BY <1>2, <1>6 DEF Understood, LevelIsLast, Means
<1>9. QED
    BY <1>4, <1>5, <1>7, <1>8

(* Before the options are read nothing is.                                 *)
LEMMA StartUnderstood ==
    ASSUME ArgsInv, StartOptions
    PROVE  ArgsInv'
<1>1. /\ status = "start" /\ args # <<>> /\ command = "run" /\ status' = "options"
      /\ args' = args /\ i' = i /\ path' = path /\ level' = level
    BY DEF StartOptions, Starts, End
<1>2. i = 0 /\ path = None /\ level = "info" /\ args \in Seq(Words)
    BY <1>1 DEF ArgsInv
<1>3. rest' = rest /\ command' = command
    BY <1>1 DEF rest, command
<1>4. Len(rest) \in Nat
    BY <1>1, <1>2, RestOfLine
<1>5. 1 .. 0 = {}
    OBVIOUS
<1>6. ReadsAs({})'
    BY <1>1, <1>2, <1>5 DEF ReadsAs
<1>7. OnlyReading({})'
    BY <1>1, <1>2, <1>5 DEF OnlyReading
<1>8. PathIsLast({})' /\ LevelIsLast({})'
    BY <1>1, <1>2 DEF PathIsLast, LevelIsLast, Uses
<1>9. \E options \in SUBSET (1 .. i') : Understood(options)'
    BY <1>6, <1>7, <1>8 DEF Understood
<1>10. RunFollowsUsage'
    BY <1>1 DEF RunFollowsUsage
<1>11. QED
    BY <1>1, <1>2, <1>3, <1>4, <1>9, <1>10 DEF ArgsInv

(* Whether a line can be read as the usage says does not depend on what    *)
(* the program knows of it.                                                *)
LEMMA LineStays ==
    ASSUME args' = args
    PROVE  /\ rest' = rest /\ command' = command
           /\ \A o : Usage(o)' <=> Usage(o)
           /\ \A o : Uses(o, ConfigFlag)' = Uses(o, ConfigFlag)
<1>1. rest' = rest /\ command' = command
    BY DEF rest, command
<1>2. QED
    BY <1>1 DEF Usage, Uses

(* How a command ends in which no options are read.                        *)
LEMMA OtherCommands ==
    ASSUME ArgsInv, NoArguments \/ ShowHelp \/ UseConfig \/ RunBare
    PROVE  ArgsInv'
<1>1. status = "start" /\ args' = args /\ i' = i /\ level' = level
    BY DEF NoArguments, ShowHelp, UseConfig, RunBare, Starts, End
<1>2. args \in Seq(Words) /\ i \in Nat /\ path \in Words \cup {None}
    BY DEF ArgsInv
<1>3. command' = command
    BY <1>1, LineStays
<1>4. status' \in {"usage", "help", "error", "check", "leases", "run"}
    BY DEF NoArguments, ShowHelp, UseConfig, RunBare, End
<1>5. status' \in {"run", "error"} => command # "run"
    BY DEF NoArguments, ShowHelp, UseConfig, RunBare, Starts, End
<1>6. path' \in Words \cup {None}
  <2>1. CASE NoArguments \/ ShowHelp
      BY <1>2, <2>1 DEF NoArguments, ShowHelp
  <2>2. CASE UseConfig
    <3>1. args # <<>>
        BY <2>2 DEF UseConfig, Starts
    <3>2. rest \in Seq(Words) /\ Len(rest) \in Nat
        BY <1>2, <3>1, RestOfLine
    <3>3. rest # <<>> => rest[1] \in Words /\ (Len(rest) > 1 => rest[2] \in Words)
        BY <3>2, ElementOfSeq
    <3>4. QED
        BY <1>2, <2>2, <3>3 DEF UseConfig
  <2>3. CASE RunBare
    <3>1. args # <<>> /\ path' = args[1]
        BY <2>3 DEF RunBare, Starts, command
    <3>2. QED
        BY <1>2, <3>1
  <2>4. QED
      BY <2>1, <2>2, <2>3
<1>7. RunFollowsUsage'
    BY <1>3, <1>5 DEF RunFollowsUsage
<1>8. QED
    BY <1>1, <1>2, <1>4, <1>6, <1>7 DEF ArgsInv

(* How the loop ends.                                                      *)
LEMMA LoopEnds ==
    ASSUME ArgsInv, NoPath \/ Unexpected \/ EndOfOptions
    PROVE  ArgsInv'
<1>1. /\ status = "options" /\ args' = args /\ i' = i /\ level' = level /\ path' = path
      /\ status' \in {"error", "run"}
    BY DEF NoPath, Unexpected, EndOfOptions, AtOption, End
<1>2. args \in Seq(Words) /\ i \in Nat /\ path \in Words \cup {None}
    BY DEF ArgsInv
<1>3. /\ rest' = rest /\ \A o : Usage(o)' <=> Usage(o)
      /\ \A o : Uses(o, ConfigFlag)' = Uses(o, ConfigFlag)
    BY <1>1, LineStays
<1>4. CASE EndOfOptions /\ path # None
  <2>1. status' = "run"
      BY <1>4 DEF EndOfOptions, End
  <2>2. PICK o \in SUBSET DOMAIN rest : Usage(o) /\ Uses(o, ConfigFlag) # {} /\ Means(o)
      BY <1>4, EndIsMeant
  <2>3. Means(o)'
      BY <1>1, <1>3, <2>2 DEF Means, Uses
  <2>4. RunFollowsUsage'
      BY <1>3, <2>1, <2>2, <2>3 DEF RunFollowsUsage
  <2>5. QED
      BY <1>1, <1>2, <2>1, <2>4 DEF ArgsInv
<1>5. CASE NoPath \/ Unexpected \/ (EndOfOptions /\ path = None)
  <2>1. status' = "error"
      BY <1>5 DEF NoPath, Unexpected, EndOfOptions, End
  <2>2. \A o \in SUBSET DOMAIN rest : Usage(o) => Uses(o, ConfigFlag) = {}
      BY <1>5, ErrorsAreErrors
  <2>3. RunFollowsUsage'
      BY <1>3, <2>1, <2>2 DEF RunFollowsUsage
  <2>4. QED
      BY <1>1, <1>2, <2>1, <2>3 DEF ArgsInv
<1>6. QED
    BY <1>4, <1>5

(* `run` starts the server exactly when its arguments follow the usage and *)
(* name a configuration file, and with what they name last.                *)
THEOREM RunArgumentsUnderstood == MainSpec => []RunFollowsUsage
<1>1. MainInit => ArgsInv
  <2>1. SUFFICES ASSUME MainInit PROVE ArgsInv
      OBVIOUS
  <2>2. args \in UNION {[1 .. m -> Words] : m \in 0 .. MaxWords}
      BY <2>1 DEF MainInit, ArgsInit, Ext!BoundedSeq, Ext!SeqOf
  <2>3. args \in Seq(Words)
      BY <2>2, ArgConstants, SeqDef
  <2>4. RunFollowsUsage
      BY <2>1 DEF MainInit, ArgsInit, RunFollowsUsage
  <2>5. QED
      BY <2>1, <2>3, <2>4 DEF MainInit, ArgsInit, ArgsInv
<1>2. ASSUME ArgsInv, [MainNext]_<<vars, arg_vars>> PROVE ArgsInv'
  <2>1. CASE NoArguments \/ ShowHelp \/ UseConfig \/ RunBare
      BY <1>2, <2>1, OtherCommands
  <2>2. CASE StartOptions
      BY <1>2, <2>2, StartUnderstood
  <2>3. CASE ReadConfig \/ ReadLevel
    <3>1. /\ status = "options" /\ i < Len(rest) /\ args' = args /\ status' = status
          /\ path' = path \/ i + 1 < Len(rest)
        BY <2>3 DEF ReadConfig, ReadLevel, AtOption
    <3>2. /\ args \in Seq(Words) /\ args # <<>> /\ i \in Nat /\ path \in Words \cup {None}
          /\ command = "run"
        BY <1>2, <3>1 DEF ArgsInv
    <3>3. rest \in Seq(Words) /\ Len(rest) \in Nat
        BY <3>2, RestOfLine
    <3>4. i' \in Nat /\ i' <= Len(rest) /\ path' \in Words \cup {None}
      <4>1. CASE ReadConfig
        <5>1. i + 1 < Len(rest) /\ i' = i + 2 /\ path' = rest[i + 2]
            BY <4>1 DEF ReadConfig
        <5>2. i + 2 \in 1 .. Len(rest)
            BY <3>2, <3>3, <5>1
        <5>3. rest[i + 2] \in Words
            BY <3>3, <5>2, ElementOfSeq
        <5>4. QED
            BY <3>2, <3>3, <5>1, <5>2, <5>3
      <4>2. CASE ReadLevel
          BY <3>1, <3>2, <3>3, <4>2 DEF ReadLevel
      <4>3. QED
          BY <2>3, <4>1, <4>2
    <3>5. \E options \in SUBSET (1 .. i') : Understood(options)'
        BY <1>2, <2>3, ReadConfigUnderstood, ReadLevelUnderstood
    <3>6. rest' = rest /\ command' = command
        BY <3>1, LineStays
    <3>7. RunFollowsUsage'
        BY <3>1 DEF RunFollowsUsage
    <3>8. QED
        BY <3>1, <3>2, <3>4, <3>5, <3>6, <3>7 DEF ArgsInv
  <2>4. CASE NoPath \/ Unexpected \/ EndOfOptions
      BY <1>2, <2>4, LoopEnds
  <2>5. CASE LoadConfig
      BY <2>5 DEF LoadConfig, ArgsInv, RunFollowsUsage
  <2>6. CASE CannotRead
      BY <1>2, <2>6 DEF CannotRead, End, ArgsInv, RunFollowsUsage
  <2>7. CASE UNCHANGED arg_vars
    <3>1. /\ args' = args /\ i' = i /\ path' = path /\ level' = level /\ status' = status
        BY <2>7 DEF arg_vars
    <3>2. /\ rest' = rest /\ command' = command /\ \A o : Usage(o)' <=> Usage(o)
          /\ \A o : Uses(o, ConfigFlag)' = Uses(o, ConfigFlag)
        BY <3>1, LineStays
    <3>3. \A o : Understood(o)' <=> Understood(o)
        BY <3>1, <3>2 DEF Understood, ReadsAs, OnlyReading, PathIsLast, LevelIsLast, Uses
    <3>4. \A o : Means(o)' <=> Means(o)
        BY <3>1, <3>2 DEF Means, Uses
    <3>5. RunFollowsUsage'
        BY <1>2, <3>1, <3>2, <3>4 DEF ArgsInv, RunFollowsUsage
    <3>6. QED
        BY <1>2, <3>1, <3>2, <3>3, <3>5 DEF ArgsInv
  <2>8. QED
      BY <1>2, <2>1, <2>2, <2>3, <2>4, <2>5, <2>6, <2>7
         DEF MainNext, ParseArguments, dispatch, cmd_run, cmd_check
<1>3. ArgsInv => RunFollowsUsage
    BY DEF ArgsInv
<1>4. QED
    BY <1>1, <1>2, <1>3, PTL DEF MainSpec

-----------------------------------------------------------------------------
(* The program's steps on the configuration are those of Startup, whatever *)
(* the command: what holds of every startup holds of the program.          *)
THEOREM ProgramStartsUp == MainSpec => Spec
<1>1. MainInit => Init
    BY DEF MainInit
<1>2. [MainNext]_<<vars, arg_vars>> => [Next]_vars
  <2>1. SUFFICES ASSUME [MainNext]_<<vars, arg_vars>> PROVE [Next]_vars
      OBVIOUS
  <2>2. CASE ParseArguments \/ LoadConfig \/ CannotRead
      BY <2>2 DEF ParseArguments, LoadConfig, CannotRead, vars
  <2>3. CASE cmd_run \/ cmd_check
      BY <2>3 DEF cmd_run, cmd_check, Next
  <2>4. QED
      BY <2>1, <2>2, <2>3 DEF MainNext
<1>3. QED
    BY <1>1, <1>2, PTL DEF MainSpec, Spec

=============================================================================
