---------------------------- MODULE NetworkHosts ----------------------------
(***************************************************************************)
(* The hosts of src/src/resources/network.rs, as TypedCalls.  IP hosts,    *)
(* networks and ranges are one resource, IPHost, told apart by a field of  *)
(* the record: three APIs share one namespace.  Their updates are sent     *)
(* without a read and their deletes read first.  FQDN hosts are updated by *)
(* read and merge.                                                         *)
(*                                                                         *)
(* An address (or an address and a mask, or two ends of a range) is a      *)
(* model value; so is a name, a group and a description.  Host groups are  *)
(* in MemberGroups.                                                        *)
(***************************************************************************)
EXTENDS FiniteSets

CONSTANTS Calls,
          Names,       \* the hosts' names; each is used in one resource only
          Misread,     \* the names among them that hold an entity reference
          Addresses,   \* values that a call can give, and the client can read
          Missing,     \* a value that is not there, or not whole
          Unparsable,  \* an address that is not IPv4, in an IPv4 record
          Groups,      \* FQDN host groups, as stored
          Texts,       \* descriptions
          Decoded,     \* groups and descriptions as they are read
          Foreign,     \* a family other than IPv4, or an unknown HostType
          Plain,       \* the class of an FQDN host
          NoText,      \* an empty group or description
          Omitted,     \* None in FqdnHostUpdate and FqdnHostCreate
          Absent, NoMessage

VARIABLES store, request, reply, waiting, raw, applied, before, after,
          op, phase, existing, outcome

Resources == {"IPHost", "FQDNHost"}

\* HostType, which IpHostVariant stands for.
Variants == {"IP", "Network", "IPRange"}

-----------------------------------------------------------------------------
(* Objects and arguments.                                                  *)

ClassesOf(r) == IF r = "IPHost" THEN Variants \union {Foreign} ELSE {Plain}

ValuesOf(r) ==
  Addresses \union {Missing} \union IF r = "IPHost" THEN {Unparsable} ELSE {}

GroupSetsOf(r) == IF r = "IPHost" THEN {{}} ELSE SUBSET Groups

TextsOf(r) == IF r = "IPHost" THEN {NoText} ELSE Texts \union {NoText}

\* What the firewall can hold of a resource.
Objects(r) ==
  [resource: {r}, class: ClassesOf(r), value: ValuesOf(r),
   groups: GroupSetsOf(r), text: TextsOf(r)]

StoredHost == UNION {Objects(r) : r \in Resources}

\* IpHost, IpNetwork, IpRange and FqdnHost: what is read of them.
HostRecord == {x \in StoredHost : x.value \in Addresses}

Op(kind, k, r, u, v, g, t) ==
  [kind |-> kind, key |-> k, resource |-> r, class |-> u, value |-> v, groups |-> g, text |-> t]

\* IpHostCreate, IpNetworkCreate and IpRangeCreate are what both writes take.
IpWrites == {Op(kind, k, "IPHost", u, v, {}, NoText) :
               kind \in {"create", "update"}, k \in Names, u \in Variants, v \in Addresses}
FqdnCreates == {Op("create", k, "FQDNHost", Plain, v, g, t) :
                  k \in Names, v \in Addresses, g \in SUBSET Groups, t \in TextsOf("FQDNHost") \union {Omitted}}
FqdnUpdates == {Op("update", k, "FQDNHost", Plain, v, g, t) :
                  k \in Names, v \in Addresses \union {Omitted},
                  g \in (SUBSET Groups) \union {Omitted}, t \in TextsOf("FQDNHost") \union {Omitted}}
NameOps == {Op(kind, k, r, u, Omitted, Omitted, Omitted) :
              kind \in {"get", "delete"}, k \in Names,
              r \in Resources, u \in Variants \union {Plain}}

Operation ==
  IpWrites \union FqdnCreates \union FqdnUpdates
    \union {o \in NameOps : o.class = Plain <=> o.resource = "FQDNHost"}

-----------------------------------------------------------------------------
(* What each operation reads, decides and writes.                          *)

\* The constructors refuse blank names, addresses that are not IPv4 and
\* reversed ranges; nothing is left to refuse in a call.
Rejected(o) == FALSE

\* A Create, and the update of an IP host, are sent without looking.
Reads(o) == ~(o.kind = "create" \/ (o.kind = "update" /\ o.resource = "IPHost"))

\* child_ipv4 makes an error of a bad address, whichever of the three types was
\* asked for. Records of another family or type are passed over first.
Readable(o, answer) ==
  IF /\ answer.kind = "resource" /\ answer.content.resource = "IPHost"
     /\ answer.content.class # Foreign /\ answer.content.value = Unparsable
    THEN "invalid_request" ELSE "read"

ReadGroups(groups) == {Decoded[g] : g \in groups} \ {NoText}
ReadText(text) == IF text = NoText THEN NoText ELSE Decoded[text]

\* Faulty variant: any record of the name will do.
SeenAnyType(o, content) ==
  IF content.value \notin Addresses \/ o.key \in Misread
    THEN Absent
    ELSE [content EXCEPT !.groups = ReadGroups(@), !.text = ReadText(@)]

\* get_ip_host, get_ip_network, get_ip_range and get_fqdn_host: a record of
\* another type, without its values, or read with another name is no record.
Seen(o, content) ==
  IF content.class # o.class \/ content.value \notin Addresses \/ o.key \in Misread
    THEN Absent
    ELSE [content EXCEPT !.groups = ReadGroups(@), !.text = ReadText(@)]

Decision(o, entry) ==
  CASE o.kind = "get" -> IF entry = Absent THEN "not_found" ELSE "found"
    [] o.kind # "get" /\ ~Reads(o) -> "write"
    [] o.kind # "get" /\ Reads(o) -> IF entry = Absent THEN "invalid_request" ELSE "write"

\* Faulty variant: write_ip_host always sends "set".
ActAlwaysSet(o, entry) == IF o.kind = "delete" THEN "remove" ELSE "set"

Act(o, entry) ==
  CASE o.kind = "create" -> "add"
    [] o.kind = "update" -> "update"
    [] OTHER -> "remove"

\* Faulty variant: what is not given is sent as it is.
KeptUnset(given, old) == given

\* unwrap_or, or.
Kept(given, old) == IF given = Omitted THEN old ELSE given

\* A Create without a description sends an empty one.
Description(o, entry) ==
  IF o.kind = "create" THEN Kept(o.text, NoText) ELSE Kept(o.text, entry.text)

\* Faulty variant: the groups are cleared by an update that does not give them.
WrittenWithoutGroups(o, entry) ==
  CASE o.kind = "delete" -> Absent
    [] o.kind # "delete" /\ ~Reads(o) ->
         [resource |-> o.resource, class |-> o.class, value |-> o.value,
          groups |-> o.groups, text |-> Description(o, entry)]
    [] o.kind # "delete" /\ Reads(o) ->
         [resource |-> o.resource, class |-> o.class, value |-> Kept(o.value, entry.value),
          groups |-> IF o.groups = Omitted THEN {} ELSE o.groups,
          text |-> Description(o, entry)]

\* ip_host_payload, ip_network_payload, ip_range_payload and fqdn_host_payload.
Written(o, entry) ==
  CASE o.kind = "delete" -> Absent
    [] o.kind # "delete" /\ ~Reads(o) ->
         [resource |-> o.resource, class |-> o.class, value |-> o.value,
          groups |-> o.groups, text |-> Description(o, entry)]
    [] o.kind # "delete" /\ Reads(o) ->
         [resource |-> o.resource, class |-> o.class, value |-> Kept(o.value, entry.value),
          groups |-> Kept(o.groups, entry.groups), text |-> Description(o, entry)]

Success(o, entry) == "ok"

Intent(o) ==
  CASE o.kind = "get" -> {}
    [] o.kind = "create" -> {"insert"}
    [] o.kind = "update" -> {"overwrite"}
    [] o.kind = "delete" -> {"remove"}

INSTANCE TypedCalls WITH Keys <- Names, Contents <- StoredHost, Entries <- HostRecord

ASSUME HostAssumption ==
  /\ Misread \subseteq Names
  /\ \A g \in Groups : Decoded[g] \in Groups \union {NoText}
  /\ \A t \in Texts : Decoded[t] \in Texts \union {NoText}
  /\ Foreign \notin Variants /\ Plain \notin Variants
  /\ Missing \notin Addresses /\ Unparsable \notin Addresses \union {Missing}
  /\ Omitted \notin Addresses \union Texts \union {NoText}
  /\ \A g \in SUBSET Groups : g # Omitted
  /\ Absent \notin StoredHost
  /\ NoMessage \notin Request /\ NoMessage \notin Reply

\* A name is used in one resource.
OneResource ==
  \A c \in Calls :
    /\ store[op[c].key] # Absent => store[op[c].key].resource = op[c].resource
    /\ \A d \in Calls : op[c].key = op[d].key => op[c].resource = op[d].resource

HostInit == Init /\ OneResource

HostSpec == HostInit /\ [][Next]_vars

-----------------------------------------------------------------------------
\* Types, and no object is overwritten with one of the other resource.
HostTypeOK == TypeOK /\ OneResource

\* A record the call can stand for: of its type, complete, and IPv4.
Usable(o, content) ==
  /\ content # Absent
  /\ content.class = o.class /\ content.value \in Addresses

\* A delete by type removes an object only after it has read a usable record of
\* that type under the name: never a network it was told is a host, never a
\* record with an address it cannot parse. What it removes is such a record too,
\* unless it is what another call created or updated after the read: the Remove
\* names no type. (network.rs:524-532, :559-567, :594-602.)
DeleteRemovesOwnType ==
  \A c \in Calls :
    op[c].kind = "delete" /\ applied[c] > 0 =>
      /\ Usable(op[c], raw[c])
      /\ \/ Usable(op[c], before[c])
         \/ \E d \in Overtakers(c) : op[d].kind \in {"create", "update"}

\* Only an update of an IP host can turn an object of one type into one of
\* another: not a Create that meets an object of the name, whatever it races
\* with, and not the merge of an FQDN host. (network.rs:516-522, :830-844.)
OnlyUpdatesConvert ==
  \A c \in Calls :
    /\ applied[c] > 0 /\ before[c] # Absent /\ after[c] # Absent
    /\ before[c].class # after[c].class
    => op[c].kind = "update" /\ op[c].resource = "IPHost"

\* Groups and descriptions that are read as they are stored.
Faithful(content) ==
  /\ \A g \in content.groups : Decoded[g] = g /\ g # NoText
  /\ content.text # NoText => Decoded[content.text] = content.text

\* An update of an FQDN host that nobody changed since it was read keeps the
\* FQDN, the groups and the description it does not give; groups given as an
\* empty list are a value and not an omission. (network.rs:711-726,
\* tests/network.rs:577.)
UnracedFqdnUpdateKeepsOmitted ==
  \A c \in Calls :
    /\ op[c].kind = "update" /\ op[c].resource = "FQDNHost"
    /\ applied[c] > 0 /\ before[c] = raw[c] /\ Faithful(before[c])
    => /\ after[c].value = Kept(op[c].value, before[c].value)
       /\ after[c].groups = Kept(op[c].groups, before[c].groups)
       /\ after[c].text = Kept(op[c].text, before[c].text)

-----------------------------------------------------------------------------
(* A claim of the tests that does not hold.                                *)

\* tests/network.rs:322 and :328: "ip_network_delete_wrong_type_does_not_send_
\* remove", "IP host is not deleted as a network". It is, if it takes the place
\* of the network between the read and the Remove, which names no type.
\* (network.rs:559-567.)
WrongTypeNotDeleted ==
  \A c \in Calls :
    op[c].kind = "delete" /\ op[c].class = "Network" /\ applied[c] > 0 =>
      before[c].class # "IP"

=============================================================================
