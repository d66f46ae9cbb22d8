---------------------------- MODULE NamedObjects ----------------------------
(***************************************************************************)
(* Objects and settings with free-form fields: src/src/resources/common.rs *)
(* and firewall.rs, webfilter.rs, zone.rs, admin.rs, user.rs, system.rs on *)
(* top of it, as TypedCalls.  An update reads all fields, merges the given *)
(* ones into them and writes everything back.                              *)
(*                                                                         *)
(* A field is one element (a text, or an object of elements) or, when its  *)
(* tag is repeated, a list.  Two levels are kept: what is below a nested   *)
(* tag is a model value, and merge_fields does there what it does here.    *)
(* parse_xml_nodes skips entity references, so a stored "A&B" is read as   *)
(* "AB".  Attributes, and text beside elements, are left out.              *)
(***************************************************************************)
EXTENDS Naturals

CONSTANTS Calls,
          Names,             \* names of objects; each is used in one resource only
          Singles,           \* settings, which have no name
          Fields, Tags,      \* tags of an object, and of an object below it
          BadTags,           \* those among them that xml.rs refuses to write
          Password, Schedule, \* the fields that update_password and BackupUpdate give
          Texts,             \* texts, as stored; names among them
          Decoded,           \* texts as they are read
          NoText,            \* the empty text
          MaxItems,          \* bound on the length of a list
          Payloads,          \* the fields that calls are made with
          Omitted,           \* the key field is not among them
          Absent, NoMessage

VARIABLES store, request, reply, waiting, raw, applied, before, after,
          op, phase, existing, outcome

-----------------------------------------------------------------------------
(* Fields.                                                                 *)

Leaf == Texts \union {NoText}

Text(t) == [shape |-> "text", is |-> t]

Lists == UNION {[1..n -> Leaf] : n \in 0..MaxItems}

\* serde_json's values, with null, booleans and numbers as texts.
Value ==
  [shape: {"text"}, is: Leaf]
    \union [shape: {"object"}, is: [Tags -> Leaf \union {Absent}]]
    \union [shape: {"list"}, is: Lists]

Payload == [Fields -> Value \union {Absent}]

\* What fields_from_node can make of elements: no list of fewer than two, no
\* object without a field.
Canonical(v) ==
  /\ v.shape = "list" => DOMAIN v.is \notin {1..0, 1..1}
  /\ v.shape = "object" => \E s \in Tags : v.is[s] # Absent

\* A payload as elements, and these as fields again: value_to_xml writes a list
\* as repeated elements, and an object without fields as an empty element.
Elements(v) ==
  CASE v = Absent -> Absent
    [] v # Absent /\ Canonical(v) -> v
    [] v # Absent /\ ~Canonical(v) /\ v.shape = "object" -> Text(NoText)
    [] v # Absent /\ ~Canonical(v) /\ v.shape = "list" ->
         IF DOMAIN v.is = 1..0 THEN Absent ELSE Text(v.is[1])

ReadText(t) == IF t \in {NoText, Absent} THEN t ELSE Decoded[t]

\* value_from_node and insert_grouped_value, after parse_xml_nodes.
ReadValue(v) ==
  CASE v = Absent -> Absent
    [] v # Absent /\ v.shape = "text" -> [v EXCEPT !.is = ReadText(@)]
    [] v # Absent /\ v.shape = "object" -> [v EXCEPT !.is = [s \in Tags |-> ReadText(@[s])]]
    [] v # Absent /\ v.shape = "list" -> [v EXCEPT !.is = [i \in DOMAIN @ |-> ReadText(@[i])]]

\* Faulty variant: a nested object replaces the one that was read.
MergedFlat(old, new) == IF new = Absent THEN old ELSE new

\* Faulty variant: the merge does not replace what it cannot merge.
MergedTimidly(old, new) == IF old = Absent THEN new ELSE old

\* One field of merge_fields: objects are merged, anything else is replaced.
Merged(old, new) ==
  IF /\ old # Absent /\ new # Absent
     /\ old.shape = "object" /\ new.shape = "object"
    THEN [shape |-> "object",
          is |-> [s \in Tags |-> IF new.is[s] = Absent THEN old.is[s] ELSE new.is[s]]]
    ELSE IF new = Absent THEN old ELSE new

MergeFields(base, updates) == [f \in Fields |-> Merged(base[f], updates[f])]

-----------------------------------------------------------------------------
(* Objects and arguments.                                                  *)

\* rule stands for firewall rules and their groups, ACL rules, zones, policies
\* and admin profiles; record for interfaces, VLANs and notifications; settings
\* for the settings that are only read.
Resources == {"rule", "user", "activity", "record", "backup", "settings"}

Single(r) == r \in {"backup", "settings"}

KeysOf(r) == IF Single(r) THEN Singles ELSE Names

Keys == Names \union Singles

StoredFields == [Fields -> {v \in Value : Canonical(v)} \union {Absent}]

\* What the firewall can hold. name is the text of the key field, Name or
\* RuleName; settings have none.
StoredObject == [resource: Resources, name: Names \union {NoText}, fields: StoredFields]

\* ApiObject: what is read.
ApiObject == [resource: Resources, name: Leaf, fields: Payload]

\* The operations a resource has.
Offers(r) ==
  CASE r = "rule" -> {"get", "create", "update", "delete"}
    [] r = "user" -> {"get", "create", "update", "delete"}
    [] r = "activity" -> {"get", "create", "delete"}
    [] r = "backup" -> {"get", "update"}
    [] OTHER -> {"get"}

\* with_field lets any value with well-formed tags through; update_password gives
\* one text, BackupUpdate an object, or nothing.
PayloadsOf(kind, r) ==
  CASE kind = "update" /\ r = "user" ->
         {p \in Payloads : /\ p[Password] # Absent /\ p[Password].shape = "text"
                           /\ \A f \in Fields \ {Password} : p[f] = Absent}
    [] kind = "update" /\ r = "backup" ->
         {p \in Payloads : /\ p[Schedule] # Absent => p[Schedule].shape = "object"
                           /\ \A f \in Fields \ {Schedule} : p[f] = Absent}
    [] OTHER -> Payloads

Op(kind, k, r, p, n) ==
  [kind |-> kind, key |-> k, resource |-> r, fields |-> p, name |-> n]

\* with_field can also be given the key field itself.
FieldOps(r) ==
  {o \in {Op(kind, k, r, p, n) : kind \in Offers(r) \intersect {"create", "update"},
                                 k \in KeysOf(r), p \in Payloads, n \in Names \union {Omitted}} :
     /\ o.fields \in PayloadsOf(o.kind, r)
     /\ r # "rule" => o.name = Omitted}
NameOps(r) ==
  {Op(kind, k, r, [f \in Fields |-> Absent], Omitted) :
     kind \in Offers(r) \intersect {"get", "delete"}, k \in KeysOf(r)}

Operation == UNION {FieldOps(r) \union NameOps(r) : r \in Resources}

-----------------------------------------------------------------------------
(* What each operation reads, decides and writes.                          *)

\* Names, tags at every level and passwords are validated before a call is made.
Rejected(o) == FALSE

Reads(o) == o.kind # "create"

\* get_singleton, unlike get_object, passes "no records" on as an error, and
\* makes one of an answer without the resource.
Readable(o, answer) ==
  CASE Single(o.resource) /\ answer.kind = "zero_records" -> "zero_records"
    [] Single(o.resource) /\ answer.kind = "no_resource" -> "response_parse"
    [] OTHER -> "read"

\* get_object finds the record that is read with the name asked for.
Seen(o, content) ==
  IF ~Single(o.resource) /\ ReadText(content.name) # o.key
    THEN Absent
    ELSE [content EXCEPT !.name = ReadText(@),
                         !.fields = [f \in Fields |-> ReadValue(@[f])]]

\* The fields of the payload: of the request, or merged into what was read.
PayloadFields(o, entry) ==
  IF o.kind = "create" THEN o.fields ELSE MergeFields(entry.fields, o.fields)

\* A tag below a field that is not a plain name.
HasBadSubfield(v) ==
  v.shape = "object" /\ \E s \in Tags \intersect BadTags : v.is[s] # Absent

\* build_request_xml validates every tag, also one that came from the firewall.
Buildable(fields) ==
  \A f \in Fields : fields[f] # Absent => f \notin BadTags /\ ~HasBadSubfield(fields[f])

\* Faulty variant: the tags that were read are not validated.
DecisionUnvalidated(o, entry) ==
  CASE o.kind = "get" -> IF entry = Absent THEN "not_found" ELSE "found"
    [] o.kind = "create" -> "write"
    [] o.kind \in {"update", "delete"} -> IF entry = Absent THEN "invalid_request" ELSE "write"

Decision(o, entry) ==
  CASE o.kind = "get" -> IF entry = Absent THEN "not_found" ELSE "found"
    [] o.kind = "create" -> "write"
    [] o.kind = "update" ->
         IF entry # Absent /\ Buildable(PayloadFields(o, entry)) THEN "write" ELSE "invalid_request"
    [] o.kind = "delete" -> IF entry = Absent THEN "invalid_request" ELSE "write"

Act(o, entry) ==
  CASE o.kind = "create" -> "add"
    [] o.kind = "update" -> "update"
    [] OTHER -> "remove"

\* Faulty variant: the name is only filled in where no field gives it, as
\* build_set_xml does.
NameUnlessGiven(o) ==
  CASE Single(o.resource) -> NoText
    [] ~Single(o.resource) /\ o.name # Omitted -> o.name
    [] OTHER -> o.key

\* Faulty variant: a setting is given a name as well.
NameAlways(o) == o.key

\* payload_with_key overrides the key field; update_singleton has none.
PayloadName(o) == IF Single(o.resource) THEN NoText ELSE o.key

\* The elements that are sent, as the firewall then holds them.
Written(o, entry) ==
  IF o.kind = "delete" THEN Absent
  ELSE [resource |-> o.resource, name |-> PayloadName(o),
        fields |-> [f \in Fields |-> Elements(PayloadFields(o, entry)[f])]]

Success(o, entry) == "ok"

Intent(o) ==
  CASE o.kind = "get" -> {}
    [] o.kind = "create" -> {"insert"}
    [] o.kind = "update" -> {"overwrite"}
    [] o.kind = "delete" -> {"remove"}

INSTANCE TypedCalls WITH Contents <- StoredObject, Entries <- ApiObject

ASSUME ObjectAssumption ==
  /\ Names \subseteq Texts /\ Names \intersect Singles = {}
  /\ Password \in Fields /\ Schedule \in Fields
  /\ \A t \in Texts : Decoded[t] \in Leaf
  /\ MaxItems \in Nat
  /\ \A p \in Payloads : p \in Payload /\ Buildable(p)
  /\ Absent \notin Leaf /\ Absent \notin Value
  /\ Absent \notin StoredObject /\ Absent \notin ApiObject
  /\ Omitted \notin Names
  /\ NoMessage \notin Request /\ NoMessage \notin Reply

\* A name is used in one resource.
OneResource ==
  \A c \in Calls :
    /\ store[op[c].key] # Absent => store[op[c].key].resource = op[c].resource
    /\ \A d \in Calls : op[c].key = op[d].key => op[c].resource = op[d].resource

\* No call renames an object, even one that is given the key field among the
\* fields: it would make a second object, or an object that later calls by its
\* name do not find. (payload_with_key, common.rs:105-109; build_set_xml,
\* xml.rs:82-86, leaves a key field that is there as it is.)
NamesKept ==
  \A k \in Keys :
    store[k] # Absent => store[k].name = IF k \in Names THEN k ELSE NoText

ObjectInit == Init /\ OneResource /\ NamesKept

ObjectSpec == ObjectInit /\ [][Next]_vars

-----------------------------------------------------------------------------
\* Types, and no object is overwritten with one of another resource.
ObjectTypeOK == TypeOK /\ OneResource

\* Fields that are read as they are stored.
Faithful(fields) == \A f \in Fields : ReadValue(fields[f]) = fields[f]

\* An update of an object that nobody changed since it was read leaves every
\* field alone that it is not given, and within a nested object every subfield
\* that it is not given: update_rule, update_password, update_backup and the
\* rest. (merge_fields, common.rs:111-122.)
UnracedUpdateKeepsUnnamed ==
  \A c \in Calls :
    /\ op[c].kind = "update" /\ applied[c] > 0
    /\ before[c] = raw[c] /\ Faithful(before[c].fields)
    => \A f \in Fields :
         LET given == op[c].fields[f]
             old == before[c].fields[f]
         IN  /\ given = Absent => after[c].fields[f] = old
             /\ given # Absent /\ old # Absent /\ given.shape = "object" /\ old.shape = "object"
                => \A s \in Tags : given.is[s] = Absent => after[c].fields[f].is[s] = old.is[s]

\* Whatever was stored, and whatever happened since it was read, an update
\* leaves the given texts and lists in place of what was there, and the given
\* subfields in a nested object. (merge_fields, common.rs:111-122.)
UpdateHonoured ==
  \A c \in Calls :
    op[c].kind = "update" /\ applied[c] > 0 =>
      \A f \in Fields :
        LET given == op[c].fields[f]
            new == after[c].fields[f]
        IN  /\ given # Absent /\ given.shape # "object" => new = Elements(given)
            /\ given # Absent /\ given.shape = "object" =>
                 \A s \in Tags : given.is[s] # Absent =>
                   new.shape = "object" /\ new.is[s] = given.is[s]

\* An object that was read with a tag that cannot be written is not updated at
\* all, rather than updated without the field: the merge carries tags that no
\* caller gave, at both levels, and only the request builder looks at them. A
\* subfield with such a tag stops every update that does not replace the whole
\* of its field. (xml.rs:89-92, :118-124; common.rs:111-122.)
UnwritableNotDropped ==
  \A c \in Calls :
    op[c].kind = "update" /\ applied[c] > 0 =>
      \A f \in Fields :
        LET given == op[c].fields[f]
            old == raw[c].fields[f]
        IN  old # Absent =>
              /\ f \notin BadTags
              /\ HasBadSubfield(old) => given # Absent /\ given.shape # "object"

=============================================================================
