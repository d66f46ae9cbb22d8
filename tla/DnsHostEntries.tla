--------------------------- MODULE DnsHostEntries ---------------------------
(***************************************************************************)
(* DnsApi of src/src/resources/dns.rs: get_entry, add_entry, update_entry  *)
(* and delete_entry, as TypedCalls: every mutation is a Get followed by a  *)
(* write.                                                                  *)
(*                                                                         *)
(* An address, with its type, family, TTL, weight and publication, is a    *)
(* model value.  Valid ones pass DnsHostAddress::with_options and are read *)
(* as they are stored.  Foreign ones only the firewall holds: they are     *)
(* read as a Valid one, with a default for a TTL or a weight that does not *)
(* parse, or dropped (link-local, TTL 0, ...).  The order of addresses and *)
(* their repetition are left out.  list_entries reads as get_entry does    *)
(* and is left out too.                                                    *)
(***************************************************************************)
EXTENDS Integers, FiniteSets

CONSTANTS Calls,
          Hosts,        \* normalized host names
          Valid, Foreign,
          Parsed,       \* what a Foreign address is read as
          Dropped,      \* the address is not read at all
          MaxAddresses, \* MAX_ADDRESSES, 8 in the code
          Omitted,      \* None in DnsHostEntryUpdate
          Absent, NoMessage

Addresses == Valid \union Foreign

\* What the firewall can hold for a host.
StoredEntry == [addrs: (SUBSET Addresses) \ {{}}, reverse: BOOLEAN]

VARIABLES store, request, reply, waiting, raw, applied, before, after,
          op, phase, existing, outcome

-----------------------------------------------------------------------------
(* The data of dns.rs.                                                     *)

\* validate_addresses: not empty, MAX_ADDRESSES at most.
AddressLists == {a \in SUBSET Valid : a # {} /\ Cardinality(a) <= MaxAddresses}

\* DnsHostEntryCreate, as a caller builds it or get_entry parses it.
HostEntry == [addrs: AddressLists, reverse: BOOLEAN]

\* DnsHostEntryCreate::new, DnsHostEntryUpdate::new and the with_ methods:
\* the arguments a call can have.
Op(kind, h, a, r, f) == [kind |-> kind, key |-> h, addrs |-> a, reverse |-> r, force |-> f]

AddOps == {Op("add", h, a, r, f) :
             h \in Hosts, a \in AddressLists, r \in BOOLEAN, f \in BOOLEAN}
UpdateOps == {Op("update", h, a, r, FALSE) :
             h \in Hosts, a \in AddressLists \union {Omitted}, r \in BOOLEAN \union {Omitted}}
NameOps == {Op(k, h, Omitted, Omitted, FALSE) : k \in {"get", "delete"}, h \in Hosts}

Operation == AddOps \union UpdateOps \union NameOps

-----------------------------------------------------------------------------
(* What each operation reads, decides and writes.                          *)

\* update_entry returns at once if there is nothing to update.
Rejected(o) == o.kind = "update" /\ o.addrs = Omitted /\ o.reverse = Omitted

\* Everything starts with get_entry.
Reads(o) == TRUE

\* An answer without the entry, or with no records, is None and no error.
Readable(o, answer) == "read"

\* Faulty variant: addresses the client rejects are kept.
EntryUnfiltered(o, content) == content

\* with_options, after parse_u32, parse_u8 and the from_sophos functions.
AsRead(a) == IF a \in Valid THEN a ELSE Parsed[a]

\* entry_from_node and addresses_from_node: addresses that do not validate are
\* dropped; an entry left with none, or with too many, is skipped.
Seen(o, content) ==
  LET kept == {a \in content.addrs : AsRead(a) # Dropped}
  IN  IF kept # {} /\ Cardinality(kept) <= MaxAddresses
        THEN [content EXCEPT !.addrs = {AsRead(a) : a \in kept}]
        ELSE Absent

\* Faulty variant: force is not asked for.
DecisionForced(o, entry) ==
  CASE o.kind = "get" -> IF entry = Absent THEN "not_found" ELSE "found"
    [] o.kind = "add" -> "write"
    [] o.kind \in {"update", "delete"} -> IF entry = Absent THEN "invalid_request" ELSE "write"

\* The operation after its read.
Decision(o, entry) ==
  CASE o.kind = "get" -> IF entry = Absent THEN "not_found" ELSE "found"
    [] o.kind = "add" -> IF entry # Absent /\ ~o.force THEN "invalid_request" ELSE "write"
    [] o.kind \in {"update", "delete"} -> IF entry = Absent THEN "invalid_request" ELSE "write"

\* Faulty variant: the Create is sent as "set", as it is for groups.
ActUpsert(o, entry) ==
  CASE o.kind = "add" -> IF entry = Absent THEN "set" ELSE "update"
    [] o.kind = "update" -> "update"
    [] OTHER -> "remove"

Act(o, entry) ==
  CASE o.kind = "add" -> IF entry = Absent THEN "add" ELSE "update"
    [] o.kind = "update" -> "update"
    [] OTHER -> "remove"

\* Faulty variant: an omitted reverse-lookup flag is taken for FALSE.
MergedReset(o, entry) ==
  [addrs |-> IF o.addrs = Omitted THEN entry.addrs ELSE o.addrs,
   reverse |-> IF o.reverse = Omitted THEN FALSE ELSE o.reverse]

\* update_entry's merge.
Merged(o, entry) ==
  [addrs |-> IF o.addrs = Omitted THEN entry.addrs ELSE o.addrs,
   reverse |-> IF o.reverse = Omitted THEN entry.reverse ELSE o.reverse]

\* The entry submit_entry sends; delete_entry sends none.
Written(o, entry) ==
  CASE o.kind = "add" -> [addrs |-> o.addrs, reverse |-> o.reverse]
    [] o.kind = "update" -> Merged(o, entry)
    [] OTHER -> Absent

\* Faulty variant: add_entry always reports a creation.
SuccessAlwaysCreated(o, entry) == IF o.kind = "add" THEN "created" ELSE "ok"

\* The Ok of a mutation: add_entry says which request it sent.
Success(o, entry) ==
  IF o.kind # "add" THEN "ok" ELSE IF entry = Absent THEN "created" ELSE "updated"

Intent(o) ==
  CASE o.kind = "get" -> {}
    [] o.kind = "add" -> IF o.force THEN {"insert", "overwrite"} ELSE {"insert"}
    [] o.kind = "update" -> {"overwrite"}
    [] o.kind = "delete" -> {"remove"}

INSTANCE TypedCalls WITH Keys <- Hosts, Contents <- StoredEntry, Entries <- HostEntry

ASSUME DnsAssumption ==
  /\ IsFiniteSet(Addresses) /\ Valid \intersect Foreign = {}
  /\ Parsed \in [Foreign -> Valid \union {Dropped}] /\ Dropped \notin Valid
  /\ MaxAddresses \in Nat
  /\ Absent \notin StoredEntry
  /\ Omitted \notin BOOLEAN /\ \A a \in SUBSET Valid : a # Omitted
  /\ NoMessage \notin Request /\ NoMessage \notin Reply

-----------------------------------------------------------------------------
\* add_entry without force never replaces an entry, whatever other calls did
\* between its read and its write: the write is a Create, which the firewall
\* refuses for a name that exists. (README.md:90, dns.rs:319-340.)
UnforcedAddNeverReplaces ==
  \A c \in Calls :
    op[c].kind = "add" /\ ~op[c].force /\ applied[c] > 0 => before[c] = Absent

\* The action add_entry reports is the one that took place at the firewall,
\* although it was chosen before the write. (DnsMutationAction, dns.rs:328-339.)
ReportedActionHappened ==
  \A c \in Calls :
    /\ outcome[c] = "created" => before[c] = Absent /\ after[c] # Absent
    /\ outcome[c] = "updated" => before[c] # Absent /\ after[c] # Absent

\* Nothing but entries the client itself would accept is written, also where
\* update_entry writes back what it read: no unusable address, and between 1
\* and MAX_ADDRESSES of them. (validate_addresses and addresses_from_node.)
OnlyValidEntriesWritten ==
  \A c \in Calls : applied[c] > 0 => after[c] \in HostEntry \union {Absent}

\* update_entry keeps what it was not given, provided the entry is still the
\* one it read and holds no address the client cannot represent.
\* (dns.rs:354-360.)
UnracedUpdateKeepsOmitted ==
  \A c \in Calls :
    op[c].kind = "update" /\ applied[c] > 0 /\ before[c] = raw[c] =>
      /\ op[c].reverse = Omitted => after[c].reverse = before[c].reverse
      /\ op[c].addrs = Omitted /\ before[c].addrs \subseteq Valid
           => after[c].addrs = before[c].addrs

-----------------------------------------------------------------------------
(* Claims of the documentation and the tests that do not hold.             *)

\* README.md:125: "Update only the address while preserving the existing
\* reverse-DNS setting". It does not when another call changed the setting
\* between the read and the write. (dns.rs:350-362.)
AddressUpdateKeepsReverse ==
  \A c \in Calls :
    op[c].kind = "update" /\ op[c].reverse = Omitted /\ applied[c] > 0 =>
      after[c].reverse = before[c].reverse


\* README.md:118: "force = true updates the existing host entry instead of
\* failing". It fails when another call creates the entry between the read, which
\* finds no records, and the Create. (dns.rs:320-338.)
ForcedAddNeverFailsAsExisting ==
  \A c \in Calls :
    [](/\ op[c].kind = "add" /\ op[c].force
       /\ phase[c] = "reading" /\ reply[c] # NoMessage /\ reply[c].kind = "zero_records"
       => [](reply[c] # NoMessage => reply[c].kind # "exists"))

=============================================================================
