---------------------------- MODULE MemberGroups ----------------------------
(***************************************************************************)
(* The objects that hold a list of members: services with their entries,   *)
(* service groups and URL groups (service.rs), IP host groups and FQDN     *)
(* host groups (network.rs), as TypedCalls.  The five APIs differ in the   *)
(* operation of their Create, in whether they carry a description or a     *)
(* class (a service's type, an IP group's family), and in what they make   *)
(* of a record they cannot use.                                            *)
(*                                                                         *)
(* A member is a model value, a list is the set of its members (both       *)
(* normalize functions and values_from_children drop repetitions; the      *)
(* order is left out).  What is stored and what is read differ:            *)
(* parse_xml_nodes skips an entity reference, so a stored "A&B", which     *)
(* travels as A&amp;B, is read as "AB".                                    *)
(***************************************************************************)
EXTENDS FiniteSets

CONSTANTS Calls,
          Names,        \* the objects' names; each is used in one resource only
          Misread,      \* the names among them that hold an entity reference
          Members,      \* members, as stored
          Broken,       \* service entries that miss a required field
          Requests,     \* the lists that calls are made with
          Texts,        \* descriptions
          Decoded,      \* members and descriptions as they are read
          ServiceTypes,
          Foreign,      \* a type, or family, that the client passes over
          Plain,        \* the class of everything else
          NoText,       \* an empty member or description
          Omitted,      \* None in an update
          Absent, NoMessage

VARIABLES store, request, reply, waiting, raw, applied, before, after,
          op, phase, existing, outcome

Resources == {"service", "service_group", "url_group", "ip_host_group", "fqdn_host_group"}

Described == {"service_group", "ip_host_group", "fqdn_host_group"}

-----------------------------------------------------------------------------
(* Objects and arguments.                                                  *)

ClassesOf(r) ==
  CASE r = "service" -> ServiceTypes \union {Foreign}
    [] r = "ip_host_group" -> {Plain, Foreign}
    [] OTHER -> {Plain}

TextsOf(r) == IF r \in Described THEN Texts \union {NoText} ELSE {NoText}

\* What the firewall can hold of a resource. Only a service has broken entries.
Objects(r) ==
  [resource: {r}, members: SUBSET Members, text: TextsOf(r), class: ClassesOf(r)]

StoredObject == UNION {Objects(r) : r \in Resources}

\* The lists that ServiceCreate::new, ServiceGroupUpdate::new, ... let through.
ListsOf(r) == IF r = "service" THEN {l \in Requests : l \intersect Broken = {}} ELSE Requests

\* A call names the type of a service; the other payloads fix the class.
CallClasses(r) == IF r = "service" THEN ServiceTypes ELSE {Plain}

Op(kind, k, r, l, t, u) ==
  [kind |-> kind, key |-> k, resource |-> r, list |-> l, text |-> t, class |-> u]

ListKinds == {"create", "add", "remove", "replace"}

ListOps(r) == {Op(kind, k, r, l, t, u) :
                 kind \in ListKinds, k \in Names, l \in ListsOf(r),
                 t \in IF r \in Described THEN TextsOf(r) \union {Omitted} ELSE {Omitted},
                 u \in CallClasses(r)}
NameOps(r) == {Op(kind, k, r, {}, Omitted, Plain) : kind \in {"get", "delete"}, k \in Names}

Operation == UNION {ListOps(r) \union NameOps(r) : r \in Resources}

-----------------------------------------------------------------------------
(* What each operation reads, decides and writes.                          *)

\* Lists and names are normalized before a request is built: the constructors
\* refuse what is empty.
Rejected(o) == FALSE

\* A Create is sent without looking.
Reads(o) == o.kind # "create"

\* Faulty variant: a service's entries are not validated on the way in.
ReadableUnchecked(o, answer) == "read"

\* An answer without the object is None; normalize_service_entries makes an
\* error of one bad entry, which fails the whole call. A service of an unknown
\* type is passed over before its entries are looked at.
Readable(o, answer) ==
  IF /\ answer.kind = "resource" /\ o.resource = "service"
     /\ answer.content.class # Foreign
     /\ answer.content.members \intersect Broken # {}
    THEN "invalid_request" ELSE "read"

\* values_from_children and child_text, after parse_xml_nodes.
ReadMembers(members) == {Decoded[m] : m \in members} \ {NoText}
ReadText(text) == IF text = NoText THEN NoText ELSE Decoded[text]

\* get_service, get_group, ...: the record is passed over if its class is not
\* one of the client's, or if the name it is read with is not the one asked for.
Seen(o, content) ==
  IF content.class = Foreign \/ o.key \in Misread
    THEN Absent
    ELSE [content EXCEPT !.members = ReadMembers(@), !.text = ReadText(@)]

Decision(o, entry) ==
  CASE o.kind = "get" -> IF entry = Absent THEN "not_found" ELSE "found"
    [] o.kind = "create" -> "write"
    [] o.kind \in {"add", "remove", "replace"} /\ o.resource = "service" ->
         IF entry = Absent \/ entry.class # o.class THEN "invalid_request" ELSE "write"
    [] OTHER -> IF entry = Absent THEN "invalid_request" ELSE "write"

\* Faulty variant: every resource is created with with_set_operation("set").
ActAlwaysSet(o, entry) ==
  CASE o.kind = "create" -> "set"
    [] o.kind = "delete" -> "remove"
    [] OTHER -> "update"

\* create_group of service.rs uses with_set_operation("set").
Act(o, entry) ==
  CASE o.kind = "create" ->
         IF o.resource \in {"service_group", "url_group"} THEN "set" ELSE "add"
    [] o.kind = "delete" -> "remove"
    [] OTHER -> "update"

\* Faulty variant: remove keeps what was requested.
UpdatedSwapped(o, entry) ==
  CASE o.kind = "add" -> entry.members \union o.list
    [] o.kind = "remove" -> entry.members \intersect o.list
    [] OTHER -> o.list

\* Faulty variant: a member that is there already is dropped with its duplicate.
UpdatedDroppingTwins(o, entry) ==
  CASE o.kind = "add" -> (entry.members \union o.list) \ (entry.members \intersect o.list)
    [] o.kind = "remove" -> entry.members \ o.list
    [] OTHER -> o.list

\* add_unique, remove_requested, or the list as given.
Updated(o, entry) ==
  CASE o.kind = "add" -> entry.members \union o.list
    [] o.kind = "remove" -> entry.members \ o.list
    [] OTHER -> o.list

\* Faulty variants: an update without a description clears it; the absent
\* description is sent as it is.
DescriptionCleared(o, entry) == IF o.text = Omitted THEN NoText ELSE o.text
DescriptionUnset(o, entry) == o.text

\* description.or(existing.description).unwrap_or_default(), where the payload
\* has a description.
Description(o, entry) ==
  CASE o.resource \notin Described -> NoText
    [] o.resource \in Described /\ o.text # Omitted -> o.text
    [] o.resource \in Described /\ o.text = Omitted ->
         IF o.kind = "create" THEN NoText ELSE entry.text

\* The object that service_payload, service_group_payload, ... describe.
Written(o, entry) ==
  IF o.kind = "delete" THEN Absent
  ELSE [resource |-> o.resource, members |-> Updated(o, entry),
        text |-> Description(o, entry), class |-> o.class]

Success(o, entry) == "ok"

\* Only the groups of service.rs are created over what exists.
Intent(o) ==
  CASE o.kind = "get" -> {}
    [] o.kind = "create" ->
         IF o.resource \in {"service_group", "url_group"} THEN {"insert", "overwrite"} ELSE {"insert"}
    [] o.kind = "delete" -> {"remove"}
    [] OTHER -> {"overwrite"}

INSTANCE TypedCalls WITH Keys <- Names, Contents <- StoredObject, Entries <- StoredObject

ASSUME GroupAssumption ==
  /\ Broken \subseteq Members /\ Misread \subseteq Names
  /\ Requests \subseteq (SUBSET Members) \ {{}}
  /\ \A m \in Members : Decoded[m] \in Members \union {NoText}
  /\ \A t \in Texts : Decoded[t] \in Texts \union {NoText}
  /\ Foreign \notin ServiceTypes \union {Plain}
  /\ Omitted \notin Texts \union {NoText}
  /\ Absent \notin StoredObject
  /\ NoMessage \notin Request /\ NoMessage \notin Reply

\* A name is used in one resource.
OneResource ==
  \A c \in Calls :
    /\ store[op[c].key] # Absent => store[op[c].key].resource = op[c].resource
    /\ \A d \in Calls : op[c].key = op[d].key => op[c].resource = op[d].resource

GroupInit == Init /\ OneResource

GroupSpec == GroupInit /\ [][Next]_vars

-----------------------------------------------------------------------------
\* Types, and no object is overwritten with one of another resource.
GroupTypeOK == TypeOK /\ OneResource

\* What an update was asked for is in what it wrote, whatever else has happened
\* to the group: members added are in, members removed are out, a replaced list
\* is the list. (service.rs:606-637, network.rs:963-973.)
RequestHonoured ==
  \A c \in Calls :
    applied[c] > 0 =>
      /\ op[c].kind = "add" => op[c].list \subseteq after[c].members
      /\ op[c].kind = "remove" => op[c].list \intersect after[c].members = {}
      /\ op[c].kind \in {"create", "replace"} => op[c].list = after[c].members

\* Members and descriptions that are read as they are stored.
Faithful(content) ==
  /\ \A m \in content.members : Decoded[m] = m /\ m # NoText
  /\ content.text # NoText => Decoded[content.text] = content.text

\* An update of a group that nobody changed since it was read changes nothing
\* else: members that were not named, the description when none was given, the
\* type of a service. (tests/url_groups.rs:191, tests/services.rs:316 and :511.)
UnracedUpdateKeepsRest ==
  \A c \in Calls :
    /\ op[c].kind \in {"add", "remove"}
    /\ applied[c] > 0 /\ before[c] = raw[c] /\ Faithful(before[c])
    => /\ after[c].members \ op[c].list = before[c].members \ op[c].list
       /\ op[c].text = Omitted => after[c].text = before[c].text
       /\ after[c].class = before[c].class

\* A Create of a service or a host group that races another caller's never
\* replaces what that one made; create_group of service.rs, sent with "set", is
\* the one that does. (service.rs:281-291, :531-545, network.rs:629-642.)
CreateReplacesOnlyServiceRsGroups ==
  \A c \in Calls :
    op[c].kind = "create" /\ applied[c] > 0 /\ before[c] # Absent =>
      op[c].resource \in {"service_group", "url_group"}

\* A service the client knows all of, and of the type that an update is for.
Fit(o, content) ==
  /\ content # Absent
  /\ content.class # Foreign /\ content.members \intersect Broken = {}
  /\ o.kind # "delete" => content.class = o.class

\* A service that is not fit to be changed, having an unknown type, another type
\* or an entry that does not parse, is neither updated nor deleted, then or later,
\* by the call that found it so. Nor does a call replace one that was fit when it
\* looked and is not any more, unless another call has written what it replaces:
\* the type is compared after the read, and no write asks for one.
\* (service.rs:357-372, :336-341 and the ? on normalize_service_entries, :1069.)
UnfitServiceKept ==
  \A c \in Calls :
    op[c].resource = "service" /\ op[c].kind # "create" /\ applied[c] > 0 =>
      /\ Fit(op[c], raw[c])
      /\ \/ Fit(op[c], before[c])
         \/ \E d \in Overtakers(c) : op[d].kind # "delete"

-----------------------------------------------------------------------------
(* A claim of the tests that does not hold.                                *)

\* tests/url_groups.rs:191: "url_group_remove_domains_preserves_unmentioned_
\* domains". A member with an entity reference is replaced by what is left of
\* it, although nobody else touched the group. (service.rs:1255-1262.)
UnmentionedMembersKept ==
  \A c \in Calls :
    op[c].kind \in {"add", "remove"} /\ applied[c] > 0 /\ before[c] = raw[c] =>
      before[c].members \ op[c].list \subseteq after[c].members

=============================================================================
