-------------------------------- MODULE Startup --------------------------------
(***************************************************************************)
(* From `nanodhcp run -c <file>` to the receive loop: the configuration    *)
(* file is parsed line by line (src/config/parser.rs), validated, and the  *)
(* socket is bound (src/server/socket.rs, as built for Linux).  Lines come *)
(* in any order, and any key may come again.                               *)
(***************************************************************************)
EXTENDS ConfigValidate, FiniteSets

CONSTANTS
    Texts,           \* configuration files: for each key, the values its lines may give
    MaxDnsLines,     \* bounds on the keys whose lines add up
    MaxStatics

VARIABLES
    text,            \* the file being read
    phase,           \* reading, parsed, valid, serving, or why it stopped
    cfg,             \* what the lines so far have set
    given,           \* the keys that are Some
    dns_lines,
    pinned           \* the socket receives from the configured interface only

vars == <<text, phase, cfg, given, dns_lines, pinned>>

Required == {"interface", "server_ip", "subnet", "subnet_mask", "pool_start", "pool_end",
             "lease_time", "lease_file"}

(* The keys whose last line counts. *)
SingleKeys == Required \cup {"router", "allow_unbound"}

Failures == {"bad_line", "missing_key", "invalid", "no_socket"}

(* Each key has values of its kind. *)
WellFormed(values) ==
    /\ DOMAIN values = SingleKeys \cup {"dns", "static"}
    /\ values["interface"] \subseteq Name /\ values["lease_file"] \subseteq Name
    /\ values["subnet"] \subseteq Subnet
    /\ \A k \in {"server_ip", "subnet_mask", "pool_start", "pool_end", "router"} :
          values[k] \subseteq Word
    /\ values["lease_time"] \subseteq Nat /\ values["dns"] \subseteq Nat
    /\ values["allow_unbound"] \subseteq BOOLEAN
    /\ values["static"] \subseteq Binding

ASSUME StartupConstants ==
    /\ \A values \in Texts : WellFormed(values)
    /\ MaxDnsLines \in Nat /\ MaxStatics \in Nat

Init ==
    /\ text \in Texts
    /\ phase = "reading"
    /\ cfg = [interface |-> Empty, server_ip |-> 0, subnet |-> [addr |-> 0, prefix |-> 0],
              subnet_mask |-> 0, pool_start |-> 0, pool_end |-> 0, router |-> NoIp, dns |-> 0,
              lease_time |-> 0, lease_file |-> Empty, allow_unbound |-> FALSE, statics |-> <<>>]
    /\ given = {}
    /\ dns_lines = 0
    /\ pinned = FALSE

-----------------------------------------------------------------------------
ReadSingle(key) ==
    /\ phase = "reading"
    /\ \E value \in text[key] : cfg' = [cfg EXCEPT ![key] = value]
    /\ given' = given \cup {key}
    /\ UNCHANGED <<text, phase, dns_lines, pinned>>

(* A dns line adds the servers it lists, which may be none. *)
ReadDns ==
    /\ phase = "reading"
    /\ dns_lines < MaxDnsLines
    /\ dns_lines' = dns_lines + 1
    /\ \E n \in text["dns"] : cfg' = [cfg EXCEPT !.dns = @ + n]
    /\ UNCHANGED <<text, phase, given, pinned>>

ReadStatic ==
    /\ phase = "reading"
    /\ Len(cfg.statics) < MaxStatics
    /\ \E s \in text["static"] : cfg' = [cfg EXCEPT !.statics = Append(@, s)]
    /\ UNCHANGED <<text, phase, given, dns_lines, pinned>>

(* No '=', an unknown key, or a value that does not parse. *)
ReadBadLine ==
    /\ phase = "reading"
    /\ phase' = "bad_line"
    /\ UNCHANGED <<text, cfg, given, dns_lines, pinned>>

(* Mutant: the lease file is not asked for. *)
BugEndOfFile ==
    /\ phase = "reading"
    /\ phase' = IF Required \ {"lease_file"} \subseteq given THEN "parsed" ELSE "missing_key"
    /\ UNCHANGED <<text, cfg, given, dns_lines, pinned>>

EndOfFile ==
    /\ phase = "reading"
    /\ phase' = IF Required \subseteq given THEN "parsed" ELSE "missing_key"
    /\ UNCHANGED <<text, cfg, given, dns_lines, pinned>>

Validate ==
    /\ phase = "parsed"
    /\ phase' = IF validate(cfg) THEN "valid" ELSE "invalid"
    /\ UNCHANGED <<text, cfg, given, dns_lines, pinned>>

-----------------------------------------------------------------------------
(* Port 67 is taken or not permitted, or broadcasting is. *)
BindFails ==
    /\ phase = "valid"
    /\ phase' = "no_socket"
    /\ UNCHANGED <<text, cfg, given, dns_lines, pinned>>

BindToDevice ==
    /\ phase = "valid"
    /\ phase' = "serving"
    /\ pinned' = TRUE
    /\ UNCHANGED <<text, cfg, given, dns_lines>>

(* Mutant: the failure is logged whatever the configuration says. *)
BugBindToDeviceFails ==
    /\ phase = "valid"
    /\ phase' = "serving"
    /\ UNCHANGED <<text, cfg, given, dns_lines, pinned>>

BindToDeviceFails ==
    /\ phase = "valid"
    /\ phase' = IF cfg.allow_unbound THEN "serving" ELSE "no_socket"
    /\ UNCHANGED <<text, cfg, given, dns_lines, pinned>>

parse_config ==
    \/ \E key \in SingleKeys : ReadSingle(key)
    \/ ReadDns \/ ReadStatic
    \/ ReadBadLine \/ EndOfFile

bind == BindFails \/ BindToDevice \/ BindToDeviceFails

Next == parse_config \/ Validate \/ bind

Spec == Init /\ [][Next]_vars

-----------------------------------------------------------------------------
(***************************************************************************)
(* Properties.                                                             *)
(***************************************************************************)
(* The type invariant; no default ever stands for a required key.          *)
TypeOK ==
    /\ text \in Texts
    /\ phase \in {"reading", "parsed", "valid", "serving"} \cup Failures
    /\ cfg \in ParsedConfig
    /\ given \subseteq SingleKeys
    /\ dns_lines \in Nat
    /\ pinned \in BOOLEAN
    /\ phase \in {"parsed", "valid", "serving", "invalid", "no_socket"} => Required \subseteq given

(* The server never serves with a configuration that the allocator cannot  *)
(* rely on: validate, which masks bits and compares single addresses,      *)
(* implies the order of the addresses that assign_ip takes for granted.    *)
ServesUsable == phase \in {"valid", "serving"} => Usable(Effective(cfg))

(* The list of DNS servers of a served configuration fits an option: the   *)
(* assertion in OptionsWriter::push never fires, also when the servers     *)
(* come in several lines.                                                  *)
DnsFitsOption == phase = "serving" => 4 * cfg.dns <= 255

(* A server that is not tied to its interface was told it may be (bind:    *)
(* "serving on the wrong interface is dangerous").                         *)
PinnedUnlessAllowed == phase = "serving" /\ ~pinned => cfg.allow_unbound

(* The addresses that share the subnet's prefix, and those strictly        *)
(* between the least and the greatest of them.                             *)
SubnetOf(c) == {ip \in Word : ip \div BlockSize(c) = c.addr \div BlockSize(c)}

Hosts(c) == {ip \in SubnetOf(c) : \E low, high \in SubnetOf(c) : low < ip /\ ip < high}

Sound ==
    /\ {cfg.interface, cfg.lease_file} \cap {Empty} = {}
    /\ cfg.lease_time > 0 /\ 4 * cfg.dns <= 255
    /\ 2^W - cfg.subnet_mask = Cardinality(SubnetOf(cfg.subnet))
    /\ {cfg.server_ip, cfg.pool_start, cfg.pool_end} \subseteq Hosts(cfg.subnet)
    /\ cfg.router \in Hosts(cfg.subnet) \cup {NoIp}
    /\ cfg.pool_start <= cfg.pool_end
    /\ cfg.server_ip \notin cfg.pool_start .. cfg.pool_end
    /\ \A i \in DOMAIN cfg.statics : cfg.statics[i].ip \in Hosts(cfg.subnet)
    /\ Cardinality(StaticMacs(cfg)) = Len(cfg.statics)
    /\ Cardinality({cfg.statics[i].ip : i \in DOMAIN cfg.statics}) = Len(cfg.statics)

(* No sound configuration is refused: what validate asks for is no more    *)
(* than that all addresses are hosts of the subnet, the pool has one and   *)
(* not the server's, and bindings are one to one.                          *)
RefusedForCause == phase = "invalid" => ~Sound

=============================================================================
