------------------------------ MODULE LeaseText ------------------------------
(***************************************************************************)
(* The lease file as text (src/lease/store.rs): one lease a line, its four *)
(* fields separated by white space, the third of them a name that the      *)
(* client chooses.  LeaseServer takes for granted that what is loaded is   *)
(* what was saved; here that is a property.                                *)
(*                                                                         *)
(* Text is a sequence of characters.  A formatted MAC, address or number   *)
(* counts as one character: none of them contains a separator.             *)
(***************************************************************************)
EXTENDS LeaseStore, Sequences, FiniteSets

Ext == INSTANCE SequencesExt

CONSTANTS
    Mac, Ip, Time,
    Hostnames,       \* what clients may put into option 12, as sequences of characters
    Edits            \* lines an administrator may add to the file

Character(kind, value) == [kind |-> kind, value |-> value]

Char(kind) == Character(kind, 0)

Space   == Char("space")
NewLine == Char("newline")
Comment == Char("#")
Dash    == Char("-")

Dotted(ip) == Character("ip", ip)
Number(n)  == Character("number", n)

(* "letter" is any other printable character that a host name may have,    *)
(* "odd" one that it may not.                                              *)
Chars ==
    {Char(kind) : kind \in {"space", "newline", "#", "-", "letter", "odd"}}
        \cup {Character("mac", mac) : mac \in Mac}
        \cup {Dotted(ip) : ip \in Ip} \cup {Number(n) : n \in Time}

Lacks(s, char) == \A i \in DOMAIN s : s[i] # char

ASSUME TextConstants ==
    /\ IsFiniteSet(Mac) /\ Ip \subseteq Nat /\ Time \subseteq Nat
    /\ \A raw \in Hostnames : raw \in Seq(Chars)
    /\ \A line \in Edits : line \in Seq(Chars) /\ Lacks(line, NewLine)

-----------------------------------------------------------------------------
(* Options::hostname: unsafe characters are dropped, not refused.  None is *)
(* the empty sequence.                                                     *)
None == <<>>

(* The colons of a MAC are unsafe, its digits are not. *)
WithoutColons(char) == IF char.kind = "mac" THEN Char("letter") ELSE char

Filtered(raw, kinds) ==
    Ext!FlattenSeq(
        [i \in DOMAIN raw |-> IF raw[i].kind \in kinds THEN <<WithoutColons(raw[i])>> ELSE <<>>])

(* Mutant: every character that can be printed is fit for the log.         *)
bug_hostname(raw) == Filtered(raw, {"letter", "-", "mac", "ip", "number", "space", "#"})

hostname(raw) == Filtered(raw, {"letter", "-", "mac", "ip", "number"})

(* Mutant: a client without a name has none in its line either. *)
bug_hostname_str(lease) == lease.hostname

hostname_str(lease) == IF lease.hostname = None THEN <<Dash>> ELSE lease.hostname

-----------------------------------------------------------------------------
(* LeaseStore::save *)
format(mac, lease) ==
    <<Character("mac", mac), Space, Dotted(lease.ip), Space>>
        \o hostname_str(lease)
        \o <<Space, Number(lease.expires_at)>>

(* The orders LeaseStore::sorted may return: a hash map leaves open which  *)
(* of two leases of one address comes first.                               *)
Orders(by_mac) ==
    {macs \in Bijection(1 .. Cardinality(DOMAIN by_mac), DOMAIN by_mac) :
        \A i \in 1 .. Len(macs) - 1 : by_mac[macs[i]].ip <= by_mac[macs[i + 1]].ip}

SavedText(by_mac, order) ==
    Ext!FlattenSeq([i \in DOMAIN order |-> format(order[i], by_mac[order[i]]) \o <<NewLine>>])

-----------------------------------------------------------------------------
(* Reading.  Where the next c is, or the next that is none: behind the     *)
(* last character if there is no such.                                     *)
Find(s, from, c)  == Ext!Min({i \in from .. Len(s) + 1 : i = Len(s) + 1 \/ s[i] = c})
Skip(s, from, c)  == Ext!Min({i \in from .. Len(s) + 1 : i = Len(s) + 1 \/ s[i] # c})

(* str::lines *)
LineStarts(s) == {i \in 1 .. Len(s) : i = 1 \/ s[i - 1] = NewLine}

Line(s, start) == SubSeq(s, start, Find(s, start, NewLine) - 1)

(* str::split_whitespace, which makes trim() of no effect: where the next  *)
(* field ends, and that field, empty if there is none.                     *)
After(line, from) == Find(line, Skip(line, from, Space), Space)

Field(line, from) == SubSeq(line, Skip(line, from, Space), After(line, from) - 1)

(* The four that parse_line takes.                                         *)
Fields(line) ==
    LET second == After(line, 1)
        third  == After(line, second)
    IN  <<Field(line, 1), Field(line, second), Field(line, third), Field(line, After(line, third))>>

(* Only a comment's first field starts with its sign: no MAC does.         *)
Skipped(fields) == fields[1] = <<>> \/ fields[1][1] = Comment

Is(field, kind) == Len(field) = 1 /\ field[1].kind = kind

WellFormed(fields) ==
    Is(fields[1], "mac") /\ Is(fields[2], "ip") /\ fields[3] # <<>> /\ Is(fields[4], "number")

IsLease(fields) == ~Skipped(fields) /\ WellFormed(fields)

MacOf(fields) == fields[1][1].value

read_hostname(host) == IF host = <<Dash>> THEN None ELSE host

parse_line(fields) ==
    [ip         |-> fields[2][1].value,
     hostname   |-> read_hostname(fields[3]),
     expires_at |-> fields[4][1].value]

(* LeaseStore::load: of two lines for one MAC the last one counts.         *)
FieldsAt(s) == [i \in LineStarts(s) |-> Fields(Line(s, i))]

LinesOf(at, mac) == {i \in DOMAIN at : IsLease(at[i]) /\ MacOf(at[i]) = mac}

Loaded(at) ==
    [mac \in {MacOf(at[i]) : i \in {j \in DOMAIN at : IsLease(at[j])}} |->
        parse_line(at[Ext!Max(LinesOf(at, mac))])]

load(s) == Loaded(FieldsAt(s))

-----------------------------------------------------------------------------
VARIABLES
    by_mac,          \* LeaseStore.by_mac, with host names
    text,            \* the lease file
    recorded,        \* history: the leases it is meant to hold
    edited           \* the administrator has been at it since the last save

vars == <<by_mac, text, recorded, edited>>

Init == by_mac = NoEntries /\ text = <<>> /\ recorded = NoEntries /\ edited = FALSE

(* decide(): an ACK stores the name the client gave. *)
Ack(mac, ip, raw, until) ==
    /\ by_mac' = Insert(by_mac, mac,
                        [ip |-> ip, hostname |-> hostname(raw), expires_at |-> until])
    /\ UNCHANGED <<text, recorded, edited>>

Forget(mac) ==
    /\ mac \in DOMAIN by_mac
    /\ by_mac' = Remove(by_mac, mac)
    /\ UNCHANGED <<text, recorded, edited>>

(* A client that calls itself "-" has no name for the reader of the file.  *)
AsRead(lease) == [lease EXCEPT !.hostname = read_hostname(@)]

save ==
    /\ \E order \in Orders(by_mac) : text' = SavedText(by_mac, order)
    /\ recorded' = [mac \in DOMAIN by_mac |-> AsRead(by_mac[mac])]
    /\ edited' = FALSE
    /\ UNCHANGED by_mac

Restart ==
    /\ by_mac' = load(text)
    /\ UNCHANGED <<text, recorded, edited>>

(* docs/leases.md: blank lines and comments are ignored, malformed lines   *)
(* skipped.  The line may come first or last, and names no MAC or a new    *)
(* lease for it.                                                           *)
Edit(line) ==
    LET fields == Fields(line)
        entry  == Put(recorded, MacOf(fields), parse_line(fields))
    IN  /\ ~edited
        /\ edited' = TRUE
        /\ \/ /\ text' = text \o line \o <<NewLine>>
              /\ recorded' = IF IsLease(fields) THEN entry ELSE recorded
           \/ /\ text' = line \o <<NewLine>> \o text
              /\ recorded' = IF IsLease(fields) /\ MacOf(fields) \notin DOMAIN recorded
                             THEN entry ELSE recorded
        /\ UNCHANGED by_mac

Next ==
    \/ \E mac \in Mac, ip \in Ip, raw \in Hostnames \cup {None}, until \in Time :
          Ack(mac, ip, raw, until)
    \/ \E mac \in Mac : Forget(mac)
    \/ save \/ Restart
    \/ \E line \in Edits : Edit(line)

Spec == Init /\ [][Next]_vars

-----------------------------------------------------------------------------
(***************************************************************************)
(* Properties.                                                             *)
(***************************************************************************)
NamedLease(lease) ==
    /\ lease = [ip |-> lease.ip, hostname |-> lease.hostname, expires_at |-> lease.expires_at]
    /\ lease.ip \in Ip /\ lease.expires_at \in Time
    /\ lease.hostname \in Seq(Chars) /\ Lacks(lease.hostname, Space) /\ Lacks(lease.hostname, NewLine)

IsNamedMap(leases) ==
    /\ IsMap(leases, Mac, {leases[mac] : mac \in DOMAIN leases})
    /\ \A mac \in DOMAIN leases : NamedLease(leases[mac])

(* The type invariant: a name is one word, in memory and in the file, and  *)
(* the file consists of whole lines.                                       *)
TypeOK ==
    /\ IsNamedMap(by_mac) /\ IsNamedMap(recorded)
    /\ text \in Seq(Chars)
    /\ text = <<>> \/ text[Len(text)] = NewLine
    /\ edited \in BOOLEAN

(* Whatever clients call themselves, what the server loads is what it      *)
(* saved, lease by lease and field by field: a name never hides, alters or *)
(* adds a lease.  A line that an administrator adds changes the lease it   *)
(* names, and a malformed one none at all (LeaseStore::load, parse_line,   *)
(* Options::hostname).                                                     *)
LoadsWhatWasSaved == load(text) = recorded

=============================================================================
