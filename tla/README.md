# nanodhcp: TLA+ models, checks and proofs

nanodhcp is a DHCPv4 server for one LAN: a single-threaded process that
receives packets on UDP port 67, decides each one against a configuration and
a lease store, rewrites a lease file when a lease changes, and replies.  This
directory holds TLA+ modules translated from its Rust source, the TLC
configurations that check them, and theorems that TLAPS checks.  Paths of the
source are given from the root of the repository.

## The system

| part | source | state | operations |
|---|---|---|---|
| receive loop | `src/server/daemon.rs` `run`, `handle`, `send` | `SHUTDOWN`, `next_purge` | receive with a 1 s timeout, persist, reply, sweep every 300 s, stop on a signal |
| decisions | `daemon.rs` `decide`, `ack_dst` | none of its own | DISCOVER, REQUEST, RELEASE, DECLINE, INFORM |
| allocation | `src/lease/allocator.rs` | none | static binding, then the stored address, then the first free one |
| lease store | `src/lease/store.rs`, `model.rs` | `by_mac`, `declined` | load, get, insert, remove, quarantine, purge, save |
| lease file | `store.rs` `save`, `load` | the file and its temporary | write aside, sync, rename; read as a whole |
| clock | `src/util/time.rs` | the wall clock | `now()` |
| configuration | `src/config/*`, `src/util/ip.rs` | none after startup | parse, validate, CIDR arithmetic |
| packets | `src/dhcp/*` | none | parse a packet and its options, build a reply |
| the rest | `main.rs`, `server/socket.rs`, `util/log.rs`, `util/mac.rs` | none | command line, socket set-up, display |
| clients and the LAN (external) | `docs/protocol.md` | what each client believes; messages under way | discover, select, renew, reboot, release, decline; lose, repeat, delay, reorder |

The loop owns the store and passes it to `handle`, which has `decide` change
it in memory, then saves it if `decide` asked for that, then sends the reply.
The signal handler shares one flag with the loop.  The file is what connects
one process with the next.  Clients act concurrently with all of it: their
packets arrive in any order, repeated, late, or not at all.

What is hard to test: the order of changing memory, saving and replying
against a crash at each point; an address that goes from one client to another
while leases expire, are swept, declined, released and reloaded; two clients
offered the same address; saves that fail; a clock that jumps; a message that
arrives late, twice or never; a power loss that brings an old file back; names
in the lease file that look like other fields.
`PROJECT.json` lists these hazards at their lines, with the properties that
cover each.

What makes each part correct:

- *decisions and allocation*: what the server promises are tenancies (`Tenancy`):
  an address is let to one client at a time and no lease is cut short; a client
  that holds an address can renew it; a quarantined address is left alone;
- *clients and network*: what a client believes about its lease the server has
  promised, and a client that keeps trying is served in the end;
- *store and file*: what a client was promised is on disk before it is
  promised; a restart loses nothing and revives nothing; what is loaded is what
  was saved;
- *loop*: a signal ends it, an expired lease leaves memory;
- *configuration*: what `validate` accepts gives the allocator a usable pool;
- *packets*: what was written is read back, the parser stays in its buffer, and
  an answer is its client's;
- *command line*: the server runs on what the usage says, and only then.

## Modules

| module | models | role |
|---|---|---|
| `ConfigRules` | | `Usable`: what allocation relies on in a configuration |
| `DhcpConfig` | `config/model.rs` | the configuration as constants, assumed to be `Usable` |
| `LeaseStore` | `lease/store.rs`, `lease/model.rs` | operators on the two maps of the store |
| `Allocator` | `lease/allocator.rs` | `assign_ip` and its three tests |
| `LeaseServer` | `server/daemon.rs` | the state machine: loop, decisions, file, crashes, clock; properties |
| `Tenancy` | | what a DHCP server is for: addresses let to one tenant at a time, the abstract specification of `LeaseServer` and of `Lan` |
| `MCLeaseServer` | | small instances for TLC |
| `Lan` | `daemon.rs` with the clients of `docs/protocol.md` | `LeaseServer` among clients on an unreliable network |
| `PowerLoss` | `daemon.rs` on `store.rs` `save` | `LeaseServer` on a file (`AtomicFile`) that a power loss may set back |
| `LeaseText` | `store.rs` `save`, `load`, `parse_line`; `options.rs` `hostname` | the lease file as text, with host names |
| `DocClaims` | | a statement of the documentation that the code does not keep |
| `LeaseServerProofs` | | lemmas on the store and the allocator; `TypeOK`, `OneOwner` and `RefusedForWant`, whatever fails |
| `PromiseProofs` | | what clients are promised, without failures; `LeaseServer` implements `Tenancy`; quarantine |
| `LanProofs` | | the clients and the network: what they believe; `Lan` implements `Tenancy` |
| `PowerLossProofs` | | whom a power loss harms |
| `LeaseFile` | `store.rs` `save` | the steps of a save, errors, crashes, power losses |
| `AtomicFile` | | what `save` promises: an abstract file that is replaced as a whole |
| `Cidr`, `CidrBits` | `util/ip.rs` | subnets as blocks of addresses; the bit operations, compared with them |
| `ConfigValidate` | `config/validate.rs`, `model.rs` | every check of `validate`; the configuration as the allocator uses it |
| `Startup` | `config/parser.rs`, `config/mod.rs`, `socket.rs` `bind`, `main.rs` `cmd_run` | from the configuration file to serving |
| `Options` | `dhcp/options.rs`, `message.rs` | operators on an options area: what the walker tests, reads and writes |
| `Exchange` | `dhcp/packet.rs`, `options.rs`, `builder.rs`, `daemon.rs` `handle` | one datagram walked, answered, and the answer walked |
| `Header` | `dhcp/packet.rs` `parse`, `builder.rs` `base_reply` | operators on the fixed part of a datagram |
| `Datagram` | `packet.rs`, `builder.rs` | `Exchange` behind a `Header`: the whole datagram and the whole answer |
| `CommandLine` | `main.rs` `dispatch`, `parse_run_args`, `config_path` | the arguments, word by word |
| `Main` | `main.rs` `cmd_run`, `cmd_check`, `config/mod.rs` | `CommandLine` and then `Startup` |
| `MCLan`, `MCPowerLoss`, `MCLeaseText`, `MCLeaseFile`, `MCStartup`, `MCExchange` | | small instances for TLC |
| `LeaseFileProofs` | | `save` implements `AtomicFile` |
| `LeaseTextProofs` | | what is loaded is what was saved |
| `StartupProofs` | | the command line, `validate` and what is served |
| `ExchangeProofs` | | requests walked, answers built, and answers read |

`LeaseServer` extends `Allocator`, which extends `DhcpConfig` and
`LeaseStore`.  `Lan` and `PowerLoss` extend `LeaseServer`, `Datagram` extends
`Exchange` and `Header`, `Main` extends `Startup` and `CommandLine`; each of
them takes the steps of the modules it composes as they are.  `PromiseProofs`
extends `LeaseServerProofs`, which extends `LeaseServer`; `LanProofs` and
`PowerLossProofs` extend `PromiseProofs` and the module they are about.
Inductive invariants stand in the modules of proofs, before their use.

`Exchange` looks inside a datagram, which `LeaseServer` takes as parsed, and
leaves open what `LeaseServer` decides.  Its assumption that the DNS list fits
an option is what `DnsFitsOption` of `Startup` shows of every configuration
that is served.

Two other modules carry the assumptions of `LeaseServer`.  It takes the
configuration to be `Usable`; `Startup` models how a configuration comes to be
served, and `AcceptedIsUsable` proves that `validate` lets no other pass.  It
takes a save as one step that happens or does not; `LeaseFile` models the steps
of `save`, and `SaveIsAtomic` proves that they amount to that; `PowerLoss` puts
the two together.  It takes what is loaded to be what was saved, which `LeaseText`
shows of the text.

### LeaseServer and the code

`pc` says where the loop is: `head` (the `while` test), `recv`, `save` and
`send` (the two halves of `handle` after `decide`), `sweep`, `sweep_save`, and
`down` when there is no process.  Each way `decide` can handle a packet is an
action of its own, with the code's conditions as guards: `Ignore`, `Offer`,
`PoolExhausted`, `RequestIgnored`, `AckStatic`, `AckDynamic`, `Nak`, `Release`,
`Decline`, `InformIgnored`, `InformAck`.  The changes `decide` makes to the
store happen in that action; `Save` and `Send` are separate steps because a
crash or a tick of the clock can come between them.  `Start` is `load`
followed by the startup purge, which is not written back.  `Crash` may happen
at any point; `Exit` is the loop ending on the flag.  `now` is read by each
step for itself, as the code calls `time::now()` anew.

Abstractions: a lease is its address and expiry (its hostname is in `LeaseText`,
its kind is for display); a reply is its type, address, destination and end of lease (its
bytes are in `Exchange` and `Datagram`); a packet that `DhcpPacket::parse` refuses is the same as one of
type `NONE`.  `Save` replaces the file as a whole.

### Tenancy

`now` and `tenancy`, the address and end of each tenant's tenancy; `Let` an
address nobody has, `Extend` to a later end, `GiveUp`, and `Pass` of time, which
ends tenancies and nothing else.  There is no step that cuts a tenancy short.
`LeaseServer` implements it with the outstanding promises as tenancies, `Lan`
with what the clients believe.

### Lan and the code

The server's steps are those of `LeaseServer`; a packet is received from `wire`,
and a reply that is sent goes to `air` or is lost.  A client is its state
(`INIT`, `SELECTING`, `REQUESTING`, `BOUND`, `RENEWING`), its address, and when it
asked for it: its lease counts from there, so it ends before the server's.  The
exchange is that of `docs/protocol.md`; the clients are not in the repository
and are marked external.

A client recognises the answer to its latest message by the transaction id that
`base_reply` echoes.  The model keeps of all ids whether a message is *current*,
that is, whether a client still waits for its answer.  The network loses
messages (`Lose`, `SendLost`), delivers them again (`Receive` may leave the
message on the wire), and keeps outdated ones to deliver them later, in any
order.  A unicast reaches only a client that uses the address it is sent to.
`undone` holds the clients whose lease was ended by a late RELEASE or DECLINE of
their own: `decide` drops the sender's lease whatever the packet was sent for,
so a RELEASE that is delayed past a new exchange ends the lease its sender has
got since.  The properties say that this is the only exception: nobody else is
harmed by it, and without such a packet the beliefs of the clients hold.  A later
ACK makes the client whole again, unless a NAK it was sent before is still under
way (`Refused`): a client that hears the NAK first starts over, however good the
lease that the ACK announces.

### PowerLoss and the code

`older` are the versions of the lease file that a power loss may bring back
(`AtomicFile`).  `at_risk` are the clients that were sent an ACK while there are
such versions: since the file system last wrote the directory.  `lost` are those
whose ACK a power loss undid: the client was at risk, holds a dynamic lease, and
the file that is left does not have it (`UndoneBy`).  A power loss that leaves
the file as it was, or brings back a version that has the lease too, undoes
nothing.  `LosePower` comes after `Crash`.

### LeaseText and the code

The file is a sequence of characters; a MAC, an address or a number is one
character, for none of them contains a separator.  In a name `hostname` drops the
colons of a MAC and keeps its digits: a letter stands for what is left
(`WithoutColons`).  Reading goes by positions:
`Find` and `Skip` say where the next separator, or the next character that is
none, stands, and a line or a field is the part of the text between two such.
`Loaded` takes for each MAC the last line that is a lease of it, as the insertions
of `load` do.  `Ack` stores a lease under
the name that `hostname` makes of the client's bytes, `save` writes the leases
in any order that `sorted` allows, `Restart` loads them, and an administrator
may add one line by hand between two saves: `docs/leases.md` allows blank lines,
comments and malformed lines.

### LeaseFile and the code

`pc` is the next system call of `save`: `mkdir`, `create`, `write`, `sync`,
`rename`.  `live` and `tmp` are the two files as the running system shows
them.  `older` is what the disk may have under the lease file's name instead
of `live`: `rename` is not followed by a sync of the directory, so a power loss
may bring back a version it replaced, and would bring back a torn file had the
data not been synced.  `Fail` is the `?` of each step.  `Crash` ends the process
and leaves the files; `PowerLoss` picks among what the disk may have.  What a
version contains is left out: nothing in `save` depends on it.  A power loss
right after a save may therefore cost the leases of that save, but never more
than going back to an older whole file; `LeaseServer` models process crashes.

### Startup and the code

`Startup` reads lines until the end of the file, one action per kind of line:
single keys (the last line counts), `dns` (adds up), `static` (appends), and
lines that end the parse with an error.  Then come the test for required keys,
`validate`, and the two ways binding can fail.  A line is a key and a parsed
value; blank lines and comments do nothing.  `validate` collects messages in
the code; the model keeps whether there is one.  Bit operations are replaced by
blocks of addresses, which `MCStartup` compares with the operations
themselves.

### CommandLine, Main and the code

`CommandLine` is `dispatch`, with the loop of `parse_run_args` one action per
branch and its index.  `Main` lets `Startup` run when the command line was
accepted and its file can be read: to the end for `run`, to the end of
`config::load` for `check` and `leases`, which only print what follows.

### Exchange, Datagram and the code

`phase` follows `handle`: `header`, `request` (the walk of the request's
options, one action per branch of the loop in `Options::parse`), `decide`,
`build` (one `push` at a time, with its assertion), and then `reply`, where a
client walks the answer with the same parser, as the tests of `builder.rs` do.
It ends in `ignored`, `done`, or `panicked` if the assertion fired.  An option
of the request is kept as the range of the buffer that holds its value.  Bytes
run to `U8_MAX`, with PAD 0 and END `U8_MAX`, so that four-bit bytes show the
boundaries.  Which of the answers to a message type `decide` picks, or none, is
left open.  `Datagram` adds the 240 bytes in front of the options: `IsRequest`
is the tests of `DhcpPacket::parse`, and `base_reply` copies its fields one
after the other to their offsets, so that a wrong range overwrites its
neighbour.  A datagram is a real prefix and a real options area; the options
have four-bit bytes for the sake of their lengths, the prefix has whole ones.

### History variables of LeaseServer

Two history variables record what the outside world may rely on.  `promise`
holds for each client the last address it was ACKed and until when; it is
dropped when the lease ends, when the client releases or declines, and when
the server grants the client another address.  A NAK does not drop it, which
makes the properties stronger.  `hold` holds the addresses reported by DECLINE
to the running process; it is computed from the packet and the promise, not
from the store.

## Runs

| run | question | bounds |
|---|---|---|
| `lease_safety` | are promises exclusive, durable and renewable tenancies, and quarantines kept, and is nobody refused for nothing, through crashes and restarts? | two dynamic clients, one static that declines nothing, two free addresses around a static one, clock 0..4, every interval 2 |
| `lease_faults` | what survives failing saves, unreadable files and a clock set back? | the packets that move leases, clock 0..2, every interval 1 |
| `lease_liveness` | does the process stop, and do expired leases go? | REQUEST and RELEASE, clock 0..3, sweep interval 2 |
| `lan_safety` | do clients believe what the server has promised, and nothing else, on a bad network? | two clients that want one address, one of which reboots, releases and gives up early; one outdated message under way; clock 0..2, lease 2 |
| `lan_liveness` | is a client that keeps trying served, and alone at its address? | an eager client and one that does as it likes, three addresses, the first in use by a stranger; one crash; time stands still |
| `power_loss` | whom does a power loss harm? | two clients, one address; crashes and power losses without bound; clock 0..4, lease 2 |
| `lease_file` | is `save` atomic, and is its result true, whatever fails? | three versions, so that a power loss can skip one; saves, failures and power losses in any order |
| `lease_text` | is what is loaded what was saved, whatever clients call themselves and administrators add? | two clients, two addresses; four names: a dash, one without a fit character, one that looks like a comment and one like a line; nine lines |
| `startup` | does the server run on what the usage says, is what is served usable, is what is sound accepted, do masks and blocks agree? | command lines of up to five of eight words; three-bit addresses; three kinds of file: one varies the addresses and up to two bindings over three subnets (one unaligned, one without hosts, one with all addresses), one varies the subnet and its mask over all of them, one varies everything else, with up to two `dns` lines of 1 or 63 servers |
| `options` | is every datagram read to its end, inside its buffer, as its grammar says, and every answer read as it was built? | four-bit bytes; all options areas of up to 4 bytes over PAD, END, two codes and the router's code, which are lengths as well, and all sequences of three pieces, whole or broken options; a prefix of 240 different bytes, the same with any one byte changed to 0, 1 or 2, or cut off; router or none, the longest DNS list that fits or none |
| `claim_failed_save`, `claim_tmp_is_live` | does the code do what a document or a comment says? | expected to fail, see below |

Two clients and two addresses are enough for every conflict the properties
speak of: they relate two clients and one address, and a second free address
lets a client be moved.  The static client's address lies between the free
ones, so that the scan has to step over it, and the initial lease files hold a
lease of that address and a lease of that client, as a change of configuration
leaves them.  With intervals of 2 a lease can be renewed before it ends, end
exactly when another step happens, and outlive a sweep; the clock leaves room
for a lease, its sweep and a second lease.  The two dynamic clients are
symmetric in the safety runs of `LeaseServer` and in `power_loss`.

In `lan_safety` one address makes every grant a conflict; one outdated message
per moment is enough for a late RELEASE, REQUEST or DISCOVER of either client,
and a message can be delivered any number of times.  The clock allows a whole
lease.  Crashes are left to `lan_liveness`: `LeaseServer` keeps its promises
through them (`PromisesAreTenancies`), and for a client a crash is a lost
answer.  In `lan_liveness` time stands still, so that no lease or quarantine
ends and a client that is served has been served by the protocol.  Three
addresses are as many as two clients and a stranger need.

The properties, and the change to the code that each one notices (the
operators `Bug...`), are:

- `TypeOK`: a reply forgotten after saving;
- `OneOwner`, an address is stored for one client only: no purge before the insert;
- `NoDoublePromise`, an address is held by one client only: expiry compared the wrong way;
- `PromiseDurable`, what a client holds is on disk: reply before save;
- `RestartLosesNothing`, memory and file agree up to expired leases: a static
  client's stale record dropped without a save;
- `RenewalHonoured`, a holder is known and gets its address: the pool's end excluded;
- `QuarantineHonoured`: the stored address reused without asking for a quarantine;
- `RefusedForWant`, leases and quarantines alone use addresses up: expiry
  compared the wrong way;
- `ImplementsTenancy` and `TenancyBelieved`: expiry compared the wrong way;
- `BeliefsPromised` and `NoEviction`: an answer carries the transaction id of
  whatever the client sent last; `LanTypeOK`: an answer announced that is not
  sent; `NoConflict`: reply before save; `Served`: no transaction id echoed;
- `SettledIsDurable`: reply before save; `HarmConfined`: expiry compared the
  wrong way;
- `LoadsWhatWasSaved`: a lease without a name saved without a dash; `TypeOK` of
  `LeaseText`: spaces kept in a name;
- `ShutdownObeyed`: the flag not tested;
- `ExpiredSwept`: a sweep due only at the exact second;
- `NeverTorn`: no sync before the rename; `ResultIsTrue`: an error dropped;
  `ImplementsAtomicFile`: the lease file itself opened for writing; `TypeOK` of
  `LeaseFile`: a short write taken for a whole one;
- `BitsAgree`: a mask for prefix 0 shifted by the word's width;
- `ServesUsable`: the broadcast address let through; `RefusedForCause`: a
  one-sided comparison; `DnsFitsOption`: 64 servers;
  `PinnedUnlessAllowed`: a failed `SO_BINDTODEVICE` only logged; `TypeOK` of
  `Startup`: a required key not asked for;
- `NeverOverreads`: the length byte taken for part of the value; `RoundTrip`: a
  length that counts code and itself; `WalkFollowsGrammar`: the length byte not
  skipped; `ParametersAsked`: the last request list counts; `Terminates`: a
  walk that stays at a PAD; `TypeOK` of `Exchange`: END taken for an option;
  `AnswersTheClient`: the hardware address copied to the relay's place;
- `RunFollowsUsage`: a path read as the next option, too.

### Fairness

`WF_vars(LoopStep)`: the process always takes its next step, because
`recv_from` returns within `POLL_INTERVAL` and every other step is a bounded
computation or a system call that returns.  The disjunction is fair as a whole:
which packet arrives is not.  `WF_vars(Tick)`: time passes.  Nothing is assumed
of clients, of restarts or of saves succeeding there.  In `Datagram`,
`WF(DatagramNext)`: `handle` waits for nobody, so it runs as long as it has a
step.

`LanFairness` for `Served`: the process runs, and is started again after a crash
(`Restart=on-failure` in `packaging/nanodhcp.service`).  Of an eager client:
it takes its steps (weak fairness), which include sending again after a
timeout; and the network delivers some of its messages of each kind, and some
of the replies of each kind, if they keep being sent (strong fairness).
Nothing is assumed of the other client, and a message may be lost any number of
times.

### Where the documentation and the code differ

Two are runs of one property that TLC finds violated:

- `claim_failed_save`: an ACK is sent though its lease was not saved; after a
  restart another client gets the address.
- `claim_tmp_is_live`: a lease file named `*.tmp` is its own temporary file, and
  a crash in the middle of a save leaves it truncated.

Others can be read off the actions named, and no run is spent on them:

- a static client is given its address while that address is quarantined
  (`assign_ip`), although `docs/leases.md` says that a quarantined address is
  never handed out;
- the startup sweep is not written to the file (`Start`), although
  `docs/leases.md` says that the file is rewritten when a sweep removes anything;
- a sweep makes the server forget a client's previous address (`Sweep`), so the
  client may get another though its own is free, against the priority that
  `docs/leases.md` promises;
- INFORM is answered by unicast although the broadcast flag is set
  (`InformAck`), against `docs/protocol.md`;
- `validate` accepts a static binding of the server's own address, which is then
  handed out;
- `docs/leases.md` says that a lease is written to disk only after the server
  sends an ACK; `handle` saves first and sends then, and `PromiseDurable` depends
  on that order.

## Theorems

The theorems about the lease server hold for every configuration that
satisfies `ConfigAccepted`, every set of packets, intervals, clock bound and
initial file in which each address has one owner (`ServerConstants`).

**Whatever fails** (`LeaseServerProofs`): `TypeCorrect`, `OneOwnerAlways`,
`RefusalIsForWant`.  The second rests on `AssignedIsFree`: the allocator gives a
dynamic client an address of the pool that no other unexpired lease names, and
`decide` purges the expired ones before it inserts.  The third counts: each
address that could be given and is not belongs to another client's lease, and no
lease names two (`RefusalIsCounted`).

**What the server promises** (`PromiseProofs`), under
`NoFaults` (saves and loads succeed, the clock does not go back; crashes and
restarts at any step remain): `PromisesAreExclusive`, `PromisesAreDurable`,
`RestartIsHarmless`, `RenewalsAreHonoured` and `PromisesAreTenancies`.  None of
these properties is inductive.  `LeaseInv` adds what ties the clients' promises
together, in two parts.  `StoreInv` is about the server alone: an ACK on its way
is already stored in memory, and memory and file agree except between a change
and its save.  `Kept(m)` is about one client: its outstanding dynamic promise is
covered by the file always and by memory while a process runs, and names an
address of the pool that is not reserved.
Exclusiveness then follows from `OneOwner` of the file; renewal from the
allocator's second step.  `PromisesAreTenancies` is the refinement of `Tenancy`:
an ACK that is sent lets a vacant address, by exclusiveness in the next state,
or extends a tenancy of the same address, because the lease an ACK announces is
stored and covers what the client was promised before; for static clients, whose
leases are not stored, `TenancyInv` adds that an ACK on its way ends no earlier
than the promise it replaces.  `NoFaults` is needed: `claim_failed_save` shows
what fails without it, and a clock that is set back breaks promises as well: a
renewal then stores an earlier end than the client was promised before, and if
the process crashes before its ACK is sent the client does not know.

**Quarantine** (`PromiseProofs`): `QuarantineIsHonoured`, whatever fails, if every
DECLINE names the address it is about, as table 5 of RFC 2131 asks for
(`DeclinesNamed`); under `NoFaults` even if some do not.  `QuarantineInv` says
that every hold is known to `declined` for at least as long.  A DECLINE that
names no address means the one the client holds (`Understood`): if the lease
file could not be read, the server does not know which that is.

**What clients believe** (`LanProofs`), under `NoFaults`, for any number of
clients and whatever the network loses, repeats, delays and reorders:
`LanTypeCorrect`, `BeliefsArePromised`, `NobodyEvicted`, `AddressesAreUnique`,
`BeliefsAreTenancies`.  `ServerAmongClients` shows that the server's steps among
the clients are those of `LeaseServer`, so that everything proved there holds
here.  `LanInv` strengthens the properties by what fits together on the way: the
one current message of a client says what the client waits for (`WireFits`), so
does the answer that is being prepared for it (`EchoFits`) and the one on its
way (`AirFits`); a client that has a lease, or will have it when it hears the
ACK that is under way, has been promised it for as long as it counts on
(`LeasesBacked`).  What a client asks for is counted from before the server
answers, so its lease ends first.  Uniqueness follows from
`PromisesAreExclusive`; no eviction from `RenewalsAreHonoured`.

**Power** (`PowerLossProofs`): `SettledLeasesAreDurable` and
`PowerLossIsConfined`, for a server whose saves and loads succeed.  `LossInv`
keeps `StoreInv`, with `Kept(m)` for every client that lost nothing and, for
those that are not at risk either, the lease in every version of the file that
can come back; each of these versions has one owner per address.  A save
preserves that because the file it writes covers every client that lost nothing,
a power loss because a client at risk either has its lease in the version that
comes back or is `lost` from then on.

**Startup** (`StartupProofs`) discharges `ConfigAccepted`: `AcceptedIsUsable`
shows for every address width that what `validate` accepts is usable, from the
lemma that an address with the subnet's prefix lies between network and
broadcast address, and `ServesOnlyUsable` that nothing else is served;
`ServedDnsFits` discharges the assumption of `Exchange` on the DNS list, and
`ServesPinned` says when a socket may stay unbound.  `RefusesOnlyUnsound` is the
other direction: everything `validate` asks for is part of `Sound`.  It needs
that a subnet's block is aligned, so that the host test agrees with the bounds
(`HostPasses`), and that a count of bindings equal to the count of their
addresses leaves no two alike (`CountedAreDistinct`).
`RunArgumentsUnderstood` compares the loop of `parse_run_args` with the usage, of
which there is one reading at most: after i words the loop has read options that
any reading of the line agrees with on these words (`Understood`), and has kept
the last path and level among them.  `ProgramStartsUp` shows that the whole
program handles its configuration as `Startup` does.

**The lease file** (`LeaseFileProofs`), if it is not its own temporary file:
`save` implements `AtomicFile` (`SaveIsAtomic`), never tears the file
(`LeaseFileStaysWhole`) and returns the truth (`SaveTellsTheTruth`).  The
strengthening is that a save that is about to rename has written all of its
version and synced it.  `FileTypesCorrect` holds of any lease file.

**The text in it** (`LeaseTextProofs`), for any finite set of clients, any names
and any lines of an administrator: `NamesAreWords`, `FileLoadsAsSaved`.  The two
are inductive together (`TextInv`).  A name is one word because every character
that `hostname` keeps is fit for one (`NameIsWord`); so a formatted lease is one
line, and the fields found in it are those it was made of (`FormatIsRead`).  A line at
either end of a text leaves every other line as it was (`LineAppended`,
`LinePrepended`), and changes what is loaded by the lease it is
(`LoadsAppended`, `LoadsPrepended`): a later line replaces, an earlier one does
not.  `SavedIsRead` goes along the file with that, one lease at a time; where a
definition is recursive, as the flattening of the lines into one text is, that
it exists is shown by the induction of `Upward` (`Flattened`).

**Datagrams** (`ExchangeProofs`), for every width of a byte, every request and
every configuration whose DNS list fits an option.  The walk of a request or an
answer never leaves its buffer (`WalkStaysInside`); the assertion of `push` never
fires, and a client reads exactly the options that were pushed
(`AnswersAreReadable`); `ExchangeTypes`.  The strengthening, `WrittenInv`, says
that what is written lies one option behind another from the start of the
buffer, with a code that is neither PAD nor END in front of each, and that the
walk of the answer stands at the end of one of them.  `WalkIsGrammar`: what the
walk has found, followed by what the rest of the area says, is what the whole
area says (`WalkInv`).  The grammar is a function defined by recursion from the
end to the beginning; that it exists is shown by induction over the set of
positions on which it is defined (`Downward`, `SaidUnfolds`).
`ParametersAreAsked` combines the two: the options of an answer are settled when
it is built, from what the walk found (`AskedFor`), and are what the client
reads.  `AnswersReachTheClient` is about the fixed part: `ReplyBytes` says of each
byte of a reply where it comes from, so that no field has run into another, and
`FixedInv` that an answer is built for a datagram that was accepted and was not
relayed, with an address exactly if it grants a lease.  `DatagramIsExchange`
carries the theorems about options over to datagrams.  The theorems are about
`Steps`, which is `Spec` without its fairness.

Assumptions on constants, each checked by TLC on the instances: `ServerConstants`
and `LanConstants` above; `Width`, what the provers do not know of powers of two
(they are positive, and the smaller divides the larger); `ArgConstants`, the words
of a command line and "none" are distinct; `ByteConstants`, option codes are bytes
and those compared are distinct; `ExchangeConstants`, what `Startup` shows of a
configuration; `HeaderConstants` and `DatagramConstants`, bytes are numbers and
fields have their lengths; `TextConstants`, names and lines are sequences of
characters, and a line does not contain its end.

TLC checked `LeaseInv` and `QuarantineInv` on the instance of `lease_safety`,
`LanInv` on that of `lan_safety`, `LossInv` on that of `power_loss`, `SaveInv` on
that of `lease_file` and `ArgsInv` on that of `startup` before they were proved.
One property of `Lan` turned out to be too
strong in the attempt: an ACK counted as making a client whole again though a NAK
reaches the client first.  The instance of `lan_safety` is too small to show it;
`Refused` now says what is meant.

Only model-checked: the liveness properties (`Served`, `ShutdownObeyed`,
`ExpiredSwept`, `Terminates`), because the provers have no rule for fairness; and
`BitsAgree`, which rests on recursive bit operators.  Every other property
of a passing run is proved, for all values of the constants that satisfy the
assumptions named.

## Plan

1. Under a clock that is set back, or saves that fail: a weaker `Tenancy` that
   leaves out the promises such a fault has touched, as `PowerLoss` does for power.
2. Configuration lines character by character, with the means of `LeaseText`.

## Not modelled

- `util/log.rs` and the date in a log line (`time.rs`, `format_utc`): display
  only, no state.
- `util/mac.rs`: how a MAC is written and read, and what `leases` and `check`
  print.  In `LeaseText` a MAC is one character.
- Parsing the characters of a configuration line: a line is a key and a value, or
  a bad one.
- The system calls of `socket.rs`: which of them fail is a choice.
- Several servers or relays on the LAN; a relayed packet is ignored (`Ignore`,
  `Relayed`).
