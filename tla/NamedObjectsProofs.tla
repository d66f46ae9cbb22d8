------------------------- MODULE NamedObjectsProofs -------------------------
(***************************************************************************)
(* Proofs about NamedObjects, for any fields, texts, lists, names and      *)
(* number of calls.  Its operators are WellFormed, so that                 *)
(* TypedCallsProofs applies.                                               *)
(***************************************************************************)
EXTENDS NamedObjects, TLAPS

P == INSTANCE TypedCallsProofs WITH Contents <- StoredObject, Entries <- ApiObject

-----------------------------------------------------------------------------
(* Fields.                                                                 *)

Element == {v \in Value : Canonical(v)}

\* A value is one of the three shapes, and not Absent.
LEMMA ValueShape ==
  ASSUME NEW v \in Value
  PROVE  /\ v # Absent
         /\ \/ v.shape = "text" /\ v.is \in Leaf
               /\ v \in [shape: {"text"}, is: Leaf]
            \/ v.shape = "object" /\ v.is \in [Tags -> Leaf \union {Absent}]
               /\ v \in [shape: {"object"}, is: [Tags -> Leaf \union {Absent}]]
            \/ v.shape = "list" /\ v.is \in Lists
               /\ v \in [shape: {"list"}, is: Lists]
  BY ObjectAssumption DEF Value, ObjectAssumption

LEMMA TextValue ==
  ASSUME NEW t \in Leaf
  PROVE  Text(t) \in Element
  BY DEF Text, Element, Value, Canonical

LEMMA ObjectValue ==
  ASSUME NEW is \in [Tags -> Leaf \union {Absent}]
  PROVE  [shape |-> "object", is |-> is] \in Value
  BY DEF Value

LEMMA ListValue ==
  ASSUME NEW is \in Lists
  PROVE  [shape |-> "list", is |-> is] \in Value
  BY DEF Value

LEMMA ReadTextType ==
  ASSUME NEW t \in Leaf \union {Absent}
  PROVE  /\ ReadText(t) \in Leaf \union {Absent}
         /\ t # Absent => ReadText(t) \in Leaf
         /\ ReadText(Absent) = Absent
  BY ObjectAssumption DEF ReadText, Leaf, ObjectAssumption

\* Reading keeps the shape of a value, and makes none out of nothing.
LEMMA ReadValueType ==
  ASSUME NEW v \in Value \union {Absent}
  PROVE  /\ ReadValue(v) \in Value \union {Absent}
         /\ ReadValue(v) = Absent => v = Absent
  <1>1. CASE v = Absent
    BY <1>1 DEF ReadValue
  <1>2. CASE v \in Value /\ v.shape = "text"
    <2>1. v # Absent /\ v.is \in Leaf /\ v \in [shape: {"text"}, is: Leaf]
      BY <1>2, ValueShape
    <2>2. ReadValue(v) = Text(ReadText(v.is))
      BY <1>2, <2>1 DEF ReadValue, Text
    <2>3. ReadValue(v) \in Value
      BY <2>1, <2>2, ReadTextType, TextValue DEF Element
    <2>4. QED
      BY <2>3, ValueShape
  <1>3. CASE v \in Value /\ v.shape = "object"
    <2> DEFINE is == [s \in Tags |-> ReadText(v.is[s])]
    <2>1. v # Absent /\ v.is \in [Tags -> Leaf \union {Absent}]
          /\ v \in [shape: {"object"}, is: [Tags -> Leaf \union {Absent}]]
      BY <1>3, ValueShape
    <2>2. ReadValue(v) = [shape |-> "object", is |-> is]
      BY <1>3, <2>1 DEF ReadValue
    <2>3. is \in [Tags -> Leaf \union {Absent}]
      BY <2>1, ReadTextType
    <2>4. ReadValue(v) \in Value
      BY <2>2, <2>3, ObjectValue
    <2>5. QED
      BY <2>4, ValueShape
  <1>4. CASE v \in Value /\ v.shape = "list"
    <2> DEFINE is == [i \in DOMAIN v.is |-> ReadText(v.is[i])]
    <2>1. v # Absent /\ v.is \in Lists /\ v \in [shape: {"list"}, is: Lists]
      BY <1>4, ValueShape
    <2>2. ReadValue(v) = [shape |-> "list", is |-> is]
      BY <1>4, <2>1 DEF ReadValue
    <2>3. PICK n \in 0..MaxItems : v.is \in [1..n -> Leaf]
      BY <2>1 DEF Lists
    <2>4. is \in [1..n -> Leaf]
      <3>1. DOMAIN v.is = 1..n
        BY <2>3
      <3>2. \A i \in 1..n : ReadText(v.is[i]) \in Leaf
        BY <2>3, ReadTextType, ObjectAssumption DEF ObjectAssumption
      <3>3. QED
        BY <3>1, <3>2
    <2>5. is \in Lists
      BY <2>4 DEF Lists
    <2>6. ReadValue(v) \in Value
      BY <2>2, <2>5, ListValue
    <2>7. QED
      BY <2>6, ValueShape
  <1>5. QED
    BY <1>1, <1>2, <1>3, <1>4, ValueShape

\* What is sent, is what the firewall can hold; elements are sent as they are.
LEMMA ElementsType ==
  ASSUME NEW v \in Value \union {Absent}
  PROVE  /\ Elements(v) \in Element \union {Absent}
         /\ v \in Element \union {Absent} => Elements(v) = v
  <1>1. CASE v = Absent
    BY <1>1, ValueShape DEF Elements, Element
  <1>2. CASE v \in Value /\ Canonical(v)
    BY <1>2, ValueShape DEF Elements, Element
  <1>3. CASE v \in Value /\ ~Canonical(v)
    <2>1. v # Absent /\ v \notin Element
      BY <1>3, ValueShape DEF Element
    <2>2. CASE v.shape = "object"
      <3>1. Elements(v) = Text(NoText)
        BY <1>3, <2>1, <2>2 DEF Elements
      <3>2. QED
        BY <2>1, <3>1, TextValue DEF Leaf
    <2>3. CASE v.shape = "list"
      <3>1. Elements(v) = IF DOMAIN v.is = 1..0 THEN Absent ELSE Text(v.is[1])
        BY <1>3, <2>1, <2>3 DEF Elements
      <3>2. CASE DOMAIN v.is = 1..0
        BY <2>1, <3>1, <3>2
      <3>3. CASE DOMAIN v.is # 1..0
        <4>1. DOMAIN v.is = 1..1
          BY <1>3, <2>3, <3>3 DEF Canonical
        <4>2. v.is \in Lists
          BY <1>3, <2>3, ValueShape
        <4>3. PICK n \in 0..MaxItems : v.is \in [1..n -> Leaf]
          BY <4>2 DEF Lists
        <4>4. v.is[1] \in Leaf
          BY <4>1, <4>3
        <4>5. QED
          BY <2>1, <3>1, <3>3, <4>4, TextValue
      <3>4. QED
        BY <3>2, <3>3
    <2>4. QED
      BY <1>3, <2>2, <2>3, ValueShape DEF Canonical
  <1>4. QED
    BY <1>1, <1>2, <1>3

LEMMA MergedType ==
  ASSUME NEW old \in Value \union {Absent}, NEW new \in Value \union {Absent}
  PROVE  /\ Merged(old, new) \in Value \union {Absent}
         /\ old # Absent \/ new # Absent => Merged(old, new) # Absent
  <1>1. CASE /\ old # Absent /\ new # Absent
             /\ old.shape = "object" /\ new.shape = "object"
    <2> DEFINE is == [s \in Tags |-> IF new.is[s] = Absent THEN old.is[s] ELSE new.is[s]]
    <2>1. /\ old.is \in [Tags -> Leaf \union {Absent}]
          /\ new.is \in [Tags -> Leaf \union {Absent}]
      BY <1>1, ValueShape
    <2>2. is \in [Tags -> Leaf \union {Absent}]
      BY <2>1
    <2>3. Merged(old, new) = [shape |-> "object", is |-> is]
      BY <1>1 DEF Merged
    <2>4. QED
      BY <2>2, <2>3, ObjectValue, ValueShape
  <1>2. CASE ~(/\ old # Absent /\ new # Absent
               /\ old.shape = "object" /\ new.shape = "object")
    BY <1>2 DEF Merged
  <1>3. QED
    BY <1>1, <1>2

-----------------------------------------------------------------------------
(* The operators of NamedObjects.                                          *)

Kinds == {"get", "delete", "create", "update"}

\* What the arguments of a call can be.
LEMMA OpShape ==
  ASSUME NEW o \in Operation
  PROVE  /\ o.kind \in Kinds /\ o.resource \in Resources
         /\ o.kind \in Offers(o.resource)
         /\ o.key \in KeysOf(o.resource) /\ o.key \in Keys
         /\ o.fields \in Payload
         /\ o.kind \in {"create", "update"} => Buildable(o.fields)
         /\ o.name \in Names \union {Omitted}
  <1>1. PICK r \in Resources : o \in FieldOps(r) \union NameOps(r)
    BY DEF Operation
  <1>2. KeysOf(r) \subseteq Keys
    BY DEF KeysOf, Keys
  <1>3. CASE o \in FieldOps(r)
    <2>1. /\ o.kind \in Offers(r) \intersect {"create", "update"}
          /\ o.key \in KeysOf(r) /\ o.resource = r
          /\ o.fields \in Payloads /\ o.name \in Names \union {Omitted}
      BY <1>3 DEF FieldOps, Op
    <2>2. QED
      BY <1>2, <2>1, ObjectAssumption DEF ObjectAssumption, Kinds
  <1>4. CASE o \in NameOps(r)
    <2>1. /\ o.kind \in Offers(r) \intersect {"get", "delete"}
          /\ o.key \in KeysOf(r) /\ o.resource = r
          /\ o.fields = [f \in Fields |-> Absent] /\ o.name = Omitted
      BY <1>4 DEF NameOps, Op
    <2>2. QED
      BY <1>2, <2>1 DEF Payload, Kinds
  <1>5. QED
    BY <1>1, <1>3, <1>4

\* The arguments of an update or a create come from its payload.
LEMMA PayloadNameType ==
  ASSUME NEW o \in Operation
  PROVE  /\ PayloadName(o) \in Names \union {NoText}
         /\ PayloadName(o) = IF o.key \in Names THEN o.key ELSE NoText
  <1>1. o.key \in KeysOf(o.resource)
    BY OpShape
  <1>2. QED
    BY <1>1, ObjectAssumption DEF PayloadName, KeysOf, ObjectAssumption

\* What is read of an object.
LEMMA SeenShape ==
  ASSUME NEW o \in Operation, NEW x \in StoredObject, Seen(o, x) # Absent
  PROVE  /\ Seen(o, x) \in ApiObject
         /\ Seen(o, x).fields = [f \in Fields |-> ReadValue(x.fields[f])]
  <1> DEFINE fields == [f \in Fields |-> ReadValue(x.fields[f])]
  <1>1. /\ x.resource \in Resources /\ x.name \in Names \union {NoText}
        /\ x.fields \in StoredFields
    BY DEF StoredObject
  <1>2. fields \in Payload
    <2>1. \A f \in Fields : x.fields[f] \in Value \union {Absent}
      BY <1>1 DEF StoredFields
    <2>2. QED
      BY <2>1, ReadValueType DEF Payload
  <1>3. ReadText(x.name) \in Leaf
    <2>1. x.name \in Leaf /\ x.name # Absent
      BY <1>1, ObjectAssumption DEF ObjectAssumption, Leaf
    <2>2. QED
      BY <2>1, ReadTextType
  <1>4. Seen(o, x) = [resource |-> x.resource, name |-> ReadText(x.name), fields |-> fields]
    BY DEF Seen, StoredObject
  <1>5. QED
    BY <1>1, <1>2, <1>3, <1>4 DEF ApiObject

\* What the call that has seen an entry decides, and writes.
LEMMA WrittenShape ==
  ASSUME NEW o \in Operation, NEW e \in ApiObject \union {Absent},
         Decision(o, e) = "write"
  PROVE  /\ o.kind \in {"create", "update", "delete"}
         /\ Reads(o) => e # Absent
         /\ o.kind = "delete" => Reads(o) /\ Written(o, e) = Absent
         /\ o.kind # "delete" =>
              /\ Written(o, e) \in StoredObject
              /\ Written(o, e).resource = o.resource
              /\ Written(o, e).name = PayloadName(o)
              /\ Written(o, e).fields = [f \in Fields |-> Elements(PayloadFields(o, e)[f])]
         /\ o.kind = "update" =>
              /\ e \in ApiObject
              /\ \A f \in Fields : PayloadFields(o, e)[f] = Merged(e.fields[f], o.fields[f])
              /\ Buildable(PayloadFields(o, e))
  <1>1. /\ o.kind \in {"create", "update", "delete"}
        /\ Reads(o) => e # Absent
        /\ o.kind = "delete" => Reads(o)
        /\ o.kind = "update" => Reads(o) /\ Buildable(PayloadFields(o, e))
    BY OpShape DEF Decision, Kinds, Reads
  <1>2. o.kind = "update" =>
          /\ e \in ApiObject
          /\ PayloadFields(o, e) = [f \in Fields |-> Merged(e.fields[f], o.fields[f])]
    BY <1>1 DEF PayloadFields, MergeFields
  <1>3. ASSUME o.kind # "delete"
        PROVE  Written(o, e) \in StoredObject
    <2>1. o.resource \in Resources /\ o.fields \in Payload
      BY OpShape
    <2>2. PayloadFields(o, e) \in Payload
      <3>1. CASE o.kind = "create"
        BY <2>1, <3>1 DEF PayloadFields
      <3>2. CASE o.kind = "update"
        <4>1. e.fields \in Payload
          BY <1>2, <3>2 DEF ApiObject
        <4>2. QED
          BY <1>2, <2>1, <3>2, <4>1, MergedType DEF Payload
      <3>3. QED
        BY <1>1, <1>3, <3>1, <3>2
    <2>3. [f \in Fields |-> Elements(PayloadFields(o, e)[f])] \in StoredFields
      BY <2>2, ElementsType DEF Payload, StoredFields, Element
    <2>4. QED
      BY <1>3, <2>1, <2>3, PayloadNameType DEF Written, StoredObject
  <1>4. QED
    BY <1>1, <1>2, <1>3 DEF Written

\* The premise of the theorems about TypedCalls.
LEMMA ObjectWellFormed == P!WellFormed
  <1>1. NoMessage \notin P!Request /\ NoMessage \notin P!Reply /\ Absent \notin StoredObject
    BY ObjectAssumption DEF ObjectAssumption, Request, P!Request, Reply, P!Reply,
       WriteActs, P!WriteActs, ReplyKinds, P!ReplyKinds
  <1>2. ASSUME NEW o \in Operation
        PROVE  /\ o.key \in Keys
               /\ \A answer \in P!Reply : Readable(o, answer) \in {"read"} \union P!ReadErrors
               /\ \A content \in StoredObject : Seen(o, content) \in ApiObject \union {Absent}
               /\ ~Rejected(o) /\ ~Reads(o) => Decision(o, Absent) = "write"
               /\ Intent(o) \subseteq {"insert", "overwrite", "remove"}
    <2>1. o.kind \in Kinds /\ o.key \in Keys
      BY OpShape
    <2>2. Intent(o) \subseteq {"insert", "overwrite", "remove"}
      BY <2>1 DEF Intent, Kinds
    <2>3. ~Reads(o) => Decision(o, Absent) = "write"
      BY <2>1 DEF Reads, Decision, Kinds
    <2>4. \A content \in StoredObject : Seen(o, content) \in ApiObject \union {Absent}
      BY SeenShape
    <2>5. \A answer \in P!Reply : Readable(o, answer) \in {"read"} \union P!ReadErrors
      <3> TAKE answer \in P!Reply
      <3>1. CASE Single(o.resource) /\ answer.kind = "zero_records"
        BY <3>1 DEF Readable, P!ReadErrors
      <3>2. CASE Single(o.resource) /\ answer.kind = "no_resource"
        BY <3>2 DEF Readable, P!ReadErrors
      <3>3. CASE ~Single(o.resource) \/ answer.kind \notin {"zero_records", "no_resource"}
        BY <3>3 DEF Readable, P!ReadErrors
      <3>4. QED
        BY <3>1, <3>2, <3>3
    <2>6. QED
      BY <2>1, <2>2, <2>3, <2>4, <2>5
  <1>3. ASSUME NEW o \in Operation, NEW e \in ApiObject \union {Absent}
        PROVE  /\ Decision(o, e) \in {"write", "invalid_request"} \union P!Answers
               /\ Decision(o, e) \in P!Answers => Intent(o) = {}
               /\ Decision(o, e) = "write" =>
                    /\ Act(o, e) \in P!WriteActs
                    /\ P!KindsOf(Act(o, e)) \subseteq Intent(o)
                    /\ Written(o, e) \in StoredObject \union {Absent}
                    /\ (Written(o, e) = Absent) <=> (Act(o, e) = "remove")
               /\ Success(o, e) \in P!Successes
    <2>1. o.kind \in Kinds
      BY OpShape
    <2>2. Success(o, e) \in P!Successes
      BY DEF Success, P!Successes
    <2>3. CASE o.kind = "get"
      BY <2>2, <2>3 DEF Decision, Intent, P!Answers
    <2>4. CASE o.kind # "get"
      <3>1. Decision(o, e) \in {"write", "invalid_request"} /\ "invalid_request" \notin P!Answers
            /\ "write" \notin P!Answers
        BY <2>1, <2>4 DEF Decision, P!Answers, Kinds
      <3>2. /\ Act(o, e) \in P!WriteActs
            /\ P!KindsOf(Act(o, e)) \subseteq Intent(o)
            /\ (Act(o, e) = "remove") <=> (o.kind = "delete")
        <4>1. CASE o.kind = "create"
          BY <4>1 DEF Act, P!WriteActs, P!KindsOf, Intent
        <4>2. CASE o.kind = "update"
          BY <4>2 DEF Act, P!WriteActs, P!KindsOf, Intent
        <4>3. CASE o.kind = "delete"
          BY <4>3 DEF Act, P!WriteActs, P!KindsOf, Intent
        <4>4. QED
          BY <2>1, <2>4, <4>1, <4>2, <4>3 DEF Kinds
      <3>3. Decision(o, e) = "write" =>
              /\ Written(o, e) \in StoredObject \union {Absent}
              /\ (Written(o, e) = Absent) <=> (o.kind = "delete")
        BY WrittenShape, ObjectAssumption DEF ObjectAssumption
      <3>4. QED
        BY <2>2, <3>1, <3>2, <3>3
    <2>5. QED
      BY <2>3, <2>4
  <1>4. QED
    BY <1>1, <1>2, <1>3 DEF P!WellFormed

-----------------------------------------------------------------------------
(* The specification is the instance of TypedCalls.                        *)

LEMMA SameInit == Init <=> P!Init
  BY DEF Init, P!Init, ExchangeInit, P!ExchangeInit

LEMMA SameFirewall ==
  ASSUME NEW c \in Calls
  PROVE  FirewallStep(c) <=> P!FirewallStep(c)
  BY DEF FirewallStep, P!FirewallStep, callVars, P!callVars, Firewall, P!Firewall,
         ProcessGet, P!ProcessGet, ProcessWrite, P!ProcessWrite,
         RefuseWrite, P!RefuseWrite, RefuseOther, P!RefuseOther,
         Answer, P!Answer, Accepts, P!Accepts, WriteActs, P!WriteActs

LEMMA SameCalls ==
  ASSUME NEW c \in Calls
  PROVE  /\ Begin(c) <=> P!Begin(c)
         /\ ReadAnswered(c) <=> P!ReadAnswered(c)
         /\ WriteAnswered(c) <=> P!WriteAnswered(c)
         /\ TransportError(c) <=> P!TransportError(c)
  BY DEF Begin, P!Begin, ReadAnswered, P!ReadAnswered, WriteAnswered, P!WriteAnswered,
         TransportError, P!TransportError, Finish, P!Finish, Hangup, P!Hangup,
         Return, P!Return, Submit, P!Submit, Post, P!Post, Entry, P!Entry,
         ReadOutcome, P!ReadOutcome, WriteOutcome, P!WriteOutcome

LEMMA SameStep == [Next]_vars <=> [P!Next]_(P!vars)
  BY SameFirewall, SameCalls DEF Next, P!Next, vars, P!vars

LEMMA SameSpec == Spec <=> P!Spec
  BY SameInit, SameStep, PTL DEF Spec, P!Spec

LEMMA ObjectSpecIsSpec == ObjectSpec => Spec
  BY PTL DEF ObjectSpec, ObjectInit, Spec

\* What is on the wire for a call, and what the call has done, fit its phase.
LEMMA InvCorrect == ObjectSpec => []P!CallsInv
  BY ObjectSpecIsSpec, SameSpec, ObjectWellFormed, P!InvCorrect

\* The part of the invariant that speaks of what a call has done.
LEMMA EffectFacts ==
  ASSUME P!CallsInv, NEW c \in Calls
  PROVE  /\ op[c] \in Operation /\ existing[c] \in ApiObject \union {Absent}
         /\ raw[c] \in StoredObject \union {Absent}
         /\ applied[c] \in {0, 1}
         /\ applied[c] = 1 => /\ Decision(op[c], existing[c]) = "write"
                              /\ after[c] = Written(op[c], existing[c])
                              /\ P!Accepts(Act(op[c], existing[c]), before[c])
         /\ existing[c] # Absent =>
              /\ raw[c] # Absent /\ existing[c] = Seen(op[c], raw[c])
              /\ Readable(op[c], P!Found(raw[c])) = "read"
  BY P!EffectFacts DEF P!WriteAllowed

\* Objects stay in their resource and under their name.
ResourceInv == OneResource /\ NamesKept

\* A call names the object it was made for in every request.
LEMMA RequestKey ==
  ASSUME P!CallsInv, NEW c \in Calls, request[c] # NoMessage
  PROVE  /\ request[c].key = op[c].key
         /\ request[c].act \in WriteActs =>
              \/ request[c].act = "remove"
              \/ /\ request[c].content # Absent
                 /\ request[c].content.resource = op[c].resource
                 /\ request[c].content.name = IF op[c].key \in Names THEN op[c].key ELSE NoText
  <1>1. P!TypeOK /\ P!CallInv(c)
    BY DEF P!CallsInv
  <1>2. \/ request[c] = P!GetRequest(op[c])
        \/ /\ request[c] = P!WriteRequest(op[c], existing[c])
           /\ P!WriteAllowed(op[c], existing[c])
    BY <1>1, ObjectWellFormed, P!PendingRequest
  <1>3. CASE request[c] = P!GetRequest(op[c])
    BY <1>3 DEF P!GetRequest, WriteActs
  <1>4. CASE /\ request[c] = P!WriteRequest(op[c], existing[c])
             /\ P!WriteAllowed(op[c], existing[c])
    <2>1. /\ request[c].key = op[c].key
          /\ request[c].act = Act(op[c], existing[c])
          /\ request[c].content = Written(op[c], existing[c])
          /\ Decision(op[c], existing[c]) = "write"
      BY <1>4 DEF P!WriteRequest, P!WriteAllowed
    <2>2. op[c].kind = "delete" => request[c].act = "remove"
      BY <2>1 DEF Act
    <2>3. op[c].kind # "delete" =>
            /\ Written(op[c], existing[c]) \in StoredObject
            /\ Written(op[c], existing[c]).resource = op[c].resource
            /\ Written(op[c], existing[c]).name = PayloadName(op[c])
      BY <2>1, EffectFacts, WrittenShape
    <2>4. PayloadName(op[c]) = IF op[c].key \in Names THEN op[c].key ELSE NoText
      BY EffectFacts, PayloadNameType
    <2>5. Absent \notin StoredObject
      BY ObjectAssumption DEF ObjectAssumption
    <2>6. QED
      BY <2>1, <2>2, <2>3, <2>4, <2>5
  <1>5. QED
    BY <1>2, <1>3, <1>4

LEMMA ResourceStep == P!CallsInv /\ ResourceInv /\ [Next]_vars => ResourceInv'
  <1> SUFFICES ASSUME P!CallsInv, ResourceInv, [Next]_vars
               PROVE  ResourceInv'
    OBVIOUS
  <1> USE DEF ResourceInv, OneResource, NamesKept
  <1>1. ASSUME UNCHANGED <<store, op, raw>> PROVE ResourceInv'
    BY <1>1
  <1>2. CASE UNCHANGED vars
    BY <1>1, <1>2 DEF vars
  <1>3. ASSUME NEW c \in Calls,
               Begin(c) \/ ReadAnswered(c) \/ WriteAnswered(c) \/ TransportError(c)
        PROVE  UNCHANGED <<store, op, raw>>
    BY <1>3 DEF Begin, ReadAnswered, WriteAnswered, TransportError
  <1>4. ASSUME NEW c \in Calls, FirewallStep(c) PROVE ResourceInv'
    <2>1. op' = op /\ request[c] # NoMessage
      BY <1>4 DEF FirewallStep, callVars, Firewall, ProcessGet, ProcessWrite,
                  RefuseWrite, RefuseOther
    <2>2. request[c].key = op[c].key
      BY <2>1, RequestKey
    <2>3. store \in [Keys -> StoredObject \union {Absent}]
          /\ raw \in [Calls -> StoredObject \union {Absent}] /\ op[c].key \in Keys
      BY EffectFacts, OpShape DEF P!CallsInv, P!TypeOK, P!ExchangeTypeOK
    <2>4. CASE ProcessGet(c)
      <3>1. store' = store /\ raw' = [raw EXCEPT ![c] = store[op[c].key]]
        BY <2>2, <2>4 DEF ProcessGet
      <3>2. QED
        BY <2>1, <2>3, <3>1
    <2>5. CASE ProcessWrite(c)
      <3> DEFINE new == IF request[c].act = "remove" THEN Absent ELSE request[c].content
      <3>1. raw' = raw /\ store' = [store EXCEPT ![op[c].key] = new]
        BY <2>2, <2>5 DEF ProcessWrite
      <3>2. request[c].act \in WriteActs
        BY <2>5 DEF ProcessWrite
      <3>3. new # Absent =>
              /\ new.resource = op[c].resource
              /\ new.name = IF op[c].key \in Names THEN op[c].key ELSE NoText
        BY <2>1, <3>2, RequestKey
      <3>4. ASSUME NEW d \in Calls, store'[op[d].key] # Absent
            PROVE  store'[op[d].key].resource = op[d].resource
        <4>1. op[d].key \in Keys
          BY EffectFacts, OpShape
        <4>2. CASE op[d].key = op[c].key
          <5>1. store'[op[d].key] = new
            BY <2>3, <3>1, <4>2
          <5>2. QED
            BY <3>3, <3>4, <4>2, <5>1
        <4>3. CASE op[d].key # op[c].key
          <5>1. store'[op[d].key] = store[op[d].key]
            BY <2>3, <3>1, <4>1, <4>3
          <5>2. QED
            BY <3>4, <5>1
        <4>4. QED
          BY <4>2, <4>3
      <3>5. ASSUME NEW k \in Keys, store'[k] # Absent
            PROVE  store'[k].name = IF k \in Names THEN k ELSE NoText
        BY <2>3, <3>1, <3>3, <3>5
      <3>6. QED
        BY <2>1, <3>1, <3>4, <3>5
    <2>6. CASE RefuseWrite(c) \/ RefuseOther(c)
      BY <1>1, <2>1, <2>6 DEF RefuseWrite, RefuseOther
    <2>7. QED
      BY <1>4, <2>4, <2>5, <2>6 DEF FirewallStep, Firewall
  <1>5. QED
    BY <1>1, <1>2, <1>3, <1>4 DEF Next

LEMMA ResourceCorrect == ObjectSpec => []ResourceInv
  <1>1. ObjectInit => ResourceInv
    BY DEF ObjectInit, Init, ExchangeInit, ResourceInv
  <1>2. QED
    BY <1>1, ResourceStep, InvCorrect, PTL DEF ObjectSpec

-----------------------------------------------------------------------------
(* Theorems.                                                               *)

\* What is on the wire, read and stored has its type, and an object is never
\* overwritten with one of the other resource.
THEOREM TypeCorrect == ObjectSpec => []ObjectTypeOK
  <1>1. P!TypeOK /\ ResourceInv => ObjectTypeOK
    BY DEF ObjectTypeOK, ResourceInv,
           TypeOK, P!TypeOK, ExchangeTypeOK, P!ExchangeTypeOK, Request, P!Request,
           Reply, P!Reply, WriteActs, P!WriteActs, ReplyKinds, P!ReplyKinds,
           Phases, P!Phases, Outcomes, P!Outcomes, Successes, P!Successes,
           Refusals, P!Refusals, Answers, P!Answers
  <1>2. P!Spec => []P!TypeOK
    BY ObjectWellFormed, P!TypeCorrect
  <1>3. QED
    BY <1>1, <1>2, ObjectSpecIsSpec, SameSpec, ResourceCorrect, PTL

\* A call changes only the object it names, once at most and as its operation
\* intends; if it succeeded it has, if it was refused it never will.
THEOREM ObjectsImplementConfigStore == ObjectSpec => ImplementsConfigStore
  <1>1. P!Spec => P!ImplementsConfigStore
    BY ObjectWellFormed, P!CallsImplementConfigStore
  <1>2. P!Config!ConfigInit => Config!ConfigInit
    BY DEF Config!ConfigInit, P!Config!ConfigInit, Config!Kinds, P!Config!Kinds,
           VerdictOf, P!VerdictOf, Successes, P!Successes, Refusals, P!Refusals,
           Answers, P!Answers
  <1>3. [P!Config!ConfigNext]_(P!Config!configVars) => [Config!ConfigNext]_(Config!configVars)
    BY DEF Config!ConfigNext, P!Config!ConfigNext, Config!configVars, P!Config!configVars,
           Config!Change, P!Config!Change, Config!Conclude, P!Config!Conclude,
           Config!KindOf, P!Config!KindOf,
           VerdictOf, P!VerdictOf, Successes, P!Successes, Refusals, P!Refusals,
           Answers, P!Answers
  <1>4. QED
    BY <1>1, <1>2, <1>3, ObjectSpecIsSpec, SameSpec, PTL
       DEF P!ImplementsConfigStore, ImplementsConfigStore, Config!ConfigSpec, P!Config!ConfigSpec

\* An object keeps the name it is found by.
THEOREM NamesKeptCorrect == ObjectSpec => []NamesKept
  BY ResourceCorrect, PTL DEF ResourceInv

\* What an update that has been made was computed from.
LEMMA UpdateFacts ==
  ASSUME P!CallsInv, NEW c \in Calls, op[c].kind = "update", applied[c] > 0,
         NEW f \in Fields
  PROVE  /\ raw[c] \in StoredObject
         /\ raw[c].fields[f] \in Element \union {Absent}
         /\ op[c].fields[f] \in Value \union {Absent}
         /\ existing[c].fields[f] = ReadValue(raw[c].fields[f])
         /\ existing[c].fields[f] \in Value \union {Absent}
         /\ after[c].fields[f] = Elements(Merged(existing[c].fields[f], op[c].fields[f]))
         /\ Merged(existing[c].fields[f], op[c].fields[f]) # Absent =>
              /\ f \notin BadTags
              /\ ~HasBadSubfield(Merged(existing[c].fields[f], op[c].fields[f]))
  <1> DEFINE o == op[c]
             e == existing[c]
  <1>1. /\ applied[c] = 1 /\ o \in Operation
        /\ Decision(o, e) = "write" /\ e \in ApiObject \union {Absent}
        /\ after[c] = Written(o, e)
    BY EffectFacts
  <1>2. /\ e \in ApiObject /\ e # Absent
        /\ after[c].fields = [g \in Fields |-> Elements(PayloadFields(o, e)[g])]
        /\ PayloadFields(o, e)[f] = Merged(e.fields[f], o.fields[f])
        /\ Buildable(PayloadFields(o, e))
    BY <1>1, WrittenShape, ObjectAssumption DEF ObjectAssumption
  <1>3. raw[c] \in StoredObject /\ e = Seen(o, raw[c])
    BY <1>2, EffectFacts
  <1>4. raw[c].fields[f] \in Element \union {Absent}
    BY <1>3 DEF StoredObject, StoredFields, Element
  <1>5. o.fields[f] \in Value \union {Absent} /\ e.fields[f] \in Value \union {Absent}
    BY <1>1, <1>2, OpShape DEF Payload, ApiObject
  <1>6. e.fields[f] = ReadValue(raw[c].fields[f])
    <2>1. Seen(o, raw[c]).fields = [g \in Fields |-> ReadValue(raw[c].fields[g])]
      BY <1>1, <1>2, <1>3, SeenShape
    <2>2. QED
      BY <1>3, <2>1
  <1>7. Merged(e.fields[f], o.fields[f]) # Absent =>
          f \notin BadTags /\ ~HasBadSubfield(Merged(e.fields[f], o.fields[f]))
    BY <1>2 DEF Buildable
  <1>8. QED
    BY <1>2, <1>3, <1>4, <1>5, <1>6, <1>7

\* A merge of two objects, as it is sent: of the subfields that are not given
\* the old ones are kept, and the object is one if any subfield is there.
LEMMA MergedObjects ==
  ASSUME NEW old \in Value, NEW new \in Value, old.shape = "object", new.shape = "object",
         NEW s \in Tags, old.is[s] # Absent \/ new.is[s] # Absent
  PROVE  /\ Elements(Merged(old, new)) = Merged(old, new)
         /\ Merged(old, new).shape = "object"
         /\ \A t \in Tags : Merged(old, new).is[t] =
                              IF new.is[t] = Absent THEN old.is[t] ELSE new.is[t]
  <1>1. old # Absent /\ new # Absent
    BY ValueShape
  <1>2. Merged(old, new) =
          [shape |-> "object",
           is |-> [t \in Tags |-> IF new.is[t] = Absent THEN old.is[t] ELSE new.is[t]]]
    BY <1>1 DEF Merged
  <1>3. /\ Merged(old, new).shape = "object"
        /\ \A t \in Tags : Merged(old, new).is[t] =
                             IF new.is[t] = Absent THEN old.is[t] ELSE new.is[t]
    BY <1>2
  <1>4. Merged(old, new) # Absent /\ Merged(old, new) \in Value
    BY <1>2, MergedType, ValueShape, ObjectValue,
       [t \in Tags |-> IF new.is[t] = Absent THEN old.is[t] ELSE new.is[t]]
         \in [Tags -> Leaf \union {Absent}]
  <1>5. Canonical(Merged(old, new))
    BY <1>3 DEF Canonical
  <1>6. QED
    BY <1>3, <1>4, <1>5, ElementsType DEF Element

\* A call on a object or setting that succeeded has made its change, one that was
\* refused has not and never will.
THEOREM AnswerCorrect == ObjectSpec => []AnswerMatchesEffect
  <1>1. P!AnswerMatchesEffect => AnswerMatchesEffect
    BY DEF AnswerMatchesEffect, P!AnswerMatchesEffect, Successes, P!Successes,
           Refusals, P!Refusals
  <1>2. P!Spec => []P!AnswerMatchesEffect
    BY ObjectWellFormed, P!AnswerCorrect
  <1>3. QED
    BY <1>1, <1>2, ObjectSpecIsSpec, SameSpec, PTL

\* It sends one Get at most and then one write at most.
THEOREM NothingResentCorrect == ObjectSpec => NothingResent
  <1>1. P!Spec => P!NothingResent
    BY ObjectWellFormed, P!NothingResentCorrect
  <1>2. QED
    BY <1>1, ObjectSpecIsSpec, SameSpec, PTL DEF NothingResent, P!NothingResent, vars, P!vars

\* If its object did not change between the two it is atomic.
THEOREM UnracedCorrect == ObjectSpec => []UnracedCallIsAtomic
  <1>1. P!UnracedCallIsAtomic => UnracedCallIsAtomic
    BY DEF UnracedCallIsAtomic, P!UnracedCallIsAtomic, View, P!View, Successes, P!Successes
  <1>2. P!Spec => []P!UnracedCallIsAtomic
    BY ObjectWellFormed, P!UnracedCorrect
  <1>3. QED
    BY <1>1, <1>2, ObjectSpecIsSpec, SameSpec, PTL

\* A field that was merged, sent and read as it was sent, merged again.
LEMMA MergedTwice ==
  ASSUME NEW old \in Value \union {Absent}, NEW new \in Value \union {Absent}
  PROVE  Elements(Merged(Elements(Merged(old, new)), new)) = Elements(Merged(old, new))
  <1> DEFINE m == Merged(old, new)
             w == Elements(m)
             Both(a, b) == a # Absent /\ b # Absent /\ a.shape = "object" /\ b.shape = "object"
  <1>1. m \in Value \union {Absent} /\ w \in Element \union {Absent}
    BY MergedType, ElementsType
  <1>2. w \in Value \union {Absent} /\ Elements(w) = w
    BY <1>1, ElementsType DEF Element
  <1>3. Both(old, new) =>
          /\ m.shape = "object"
          /\ \A s \in Tags : m.is[s] = IF new.is[s] = Absent THEN old.is[s] ELSE new.is[s]
    BY DEF Merged
  <1>4. ~Both(old, new) => m = IF new = Absent THEN old ELSE new
    BY DEF Merged
  <1>5. w = Elements(m)
    OBVIOUS
  <1> HIDE DEF m, w
  <1>6. CASE new = Absent
    <2>1. Merged(w, new) = w
      BY <1>6 DEF Merged
    <2>2. QED
      BY <1>2, <2>1 DEF m, w
  <1>7. CASE new # Absent /\ ~Both(w, new)
    <2>1. Merged(w, new) = new
      BY <1>7 DEF Merged
    <2>2. CASE Both(old, new)
      <3>1. m # Absent
        <4> DEFINE is == [s \in Tags |-> IF new.is[s] = Absent THEN old.is[s] ELSE new.is[s]]
        <4>1. old.is \in [Tags -> Leaf \union {Absent}] /\ new.is \in [Tags -> Leaf \union {Absent}]
          BY <2>2, ValueShape
        <4>2. is \in [Tags -> Leaf \union {Absent}]
          BY <4>1
        <4>3. m = [shape |-> "object", is |-> is]
          BY <2>2 DEF m, Merged
        <4>4. QED
          BY <4>2, <4>3, ObjectValue, ValueShape
      <3>2. ~Canonical(m)
        <4>1. Canonical(m) => w = m
          BY <1>1, <1>5, <3>1, ElementsType DEF Element
        <4>2. QED
          BY <1>3, <1>7, <2>2, <3>1, <4>1
      <3>3. \A s \in Tags : new.is[s] = Absent
        BY <1>3, <2>2, <3>2 DEF Canonical
      <3>4. ~Canonical(new)
        BY <2>2, <3>3 DEF Canonical
      <3>5. w = Text(NoText) /\ Elements(new) = Text(NoText)
        BY <1>3, <1>5, <2>2, <3>1, <3>2, <3>4 DEF Elements
      <3>6. QED
        BY <2>1, <3>5 DEF m, w
    <2>3. QED
      BY <1>4, <1>7, <2>1, <2>2 DEF m, w
  <1>8. CASE new # Absent /\ Both(w, new)
    <2>1. Canonical(w) /\ w \in Value /\ new \in Value
      BY <1>1, <1>8 DEF Element
    <2>2. w = m
      <3>1. m # Absent
        BY <1>5, <1>8 DEF Elements
      <3>2. Canonical(m)
        <4>1. \A t : Text(t).shape # "object"
          BY DEF Text
        <4>2. m.shape \in {"text", "object", "list"}
          BY <1>1, <3>1, ValueShape
        <4>3. ASSUME ~Canonical(m) PROVE w = Absent \/ \E t : w = Text(t)
          <5>1. m.shape # "text"
            BY <4>3 DEF Canonical
          <5>2. QED
            BY <1>5, <3>1, <4>2, <4>3, <5>1 DEF Elements
        <4>4. QED
          BY <1>8, <4>1, <4>3
      <3>3. QED
        BY <1>1, <1>5, <3>1, <3>2, ElementsType DEF Element
    <2>3. \A s \in Tags : new.is[s] # Absent => w.is[s] = new.is[s]
      BY <1>3, <1>4, <1>8, <2>2
    <2>4. w.is \in [Tags -> Leaf \union {Absent}]
          /\ w \in [shape: {"object"}, is: [Tags -> Leaf \union {Absent}]]
      BY <1>8, <2>1, ValueShape
    <2>5. [s \in Tags |-> IF new.is[s] = Absent THEN w.is[s] ELSE new.is[s]] = w.is
      BY <2>3, <2>4
    <2>6. Merged(w, new) = w
      BY <1>8, <2>4, <2>5 DEF Merged
    <2>7. QED
      BY <1>2, <2>6 DEF m, w
  <1>9. QED
    BY <1>6, <1>7, <1>8

LEMMA Idempotence == P!Idempotent
  <1> SUFFICES ASSUME NEW o \in Operation, NEW e \in ApiObject \union {Absent},
                      Reads(o), Decision(o, e) = "write", Written(o, e) \in ApiObject,
                      Decision(o, Written(o, e)) = "write"
               PROVE  Written(o, Written(o, e)) = Written(o, e)
    BY DEF P!Idempotent, P!WriteAllowed
  <1> DEFINE w == Written(o, e)
  <1>1. o.kind = "update"
    BY WrittenShape, ObjectAssumption DEF Reads, ObjectAssumption
  <1>2. /\ e.fields \in Payload /\ o.fields \in Payload
        /\ w.fields = [f \in Fields |-> Elements(Merged(e.fields[f], o.fields[f]))]
    <2>1. /\ e \in ApiObject /\ o.fields \in Payload
          /\ \A f \in Fields : PayloadFields(o, e)[f] = Merged(e.fields[f], o.fields[f])
          /\ w.fields = [f \in Fields |-> Elements(PayloadFields(o, e)[f])]
      BY <1>1, WrittenShape, OpShape
    <2>2. QED
      BY <2>1 DEF ApiObject
  <1>3. \A f \in Fields : Elements(Merged(w.fields[f], o.fields[f])) = w.fields[f]
    BY <1>2, MergedTwice DEF Payload
  <1>4. /\ w = [resource |-> o.resource, name |-> PayloadName(o), fields |-> w.fields]
        /\ Written(o, w) =
             [resource |-> o.resource, name |-> PayloadName(o),
              fields |-> [f \in Fields |-> Elements(Merged(w.fields[f], o.fields[f]))]]
    BY <1>1 DEF Written, PayloadFields, MergeFields
  <1>5. [f \in Fields |-> Elements(Merged(w.fields[f], o.fields[f]))] = w.fields
    BY <1>2, <1>3
  <1>6. QED
    BY <1>4, <1>5

\* The partial update of an object or of a setting, made again on what it left
\* and read as it was sent, leaves the same: merging keeps what it merged.
THEOREM RepeatCorrect == ObjectSpec => []RepeatChangesNothing
  <1>1. P!RepeatChangesNothing => RepeatChangesNothing
    BY DEF RepeatChangesNothing, P!RepeatChangesNothing
  <1>2. P!Spec => []P!RepeatChangesNothing
    BY ObjectWellFormed, Idempotence, P!RepeatCorrect
  <1>3. QED
    BY <1>1, <1>2, ObjectSpecIsSpec, SameSpec, PTL

\* The merge of an object nobody changed keeps what is not given.
THEOREM UnracedUpdateCorrect == ObjectSpec => []UnracedUpdateKeepsUnnamed
  <1>1. ASSUME P!CallsInv PROVE UnracedUpdateKeepsUnnamed
    <2> SUFFICES ASSUME NEW c \in Calls, op[c].kind = "update", applied[c] > 0,
                        before[c] = raw[c], Faithful(before[c].fields),
                        NEW f \in Fields
                 PROVE  LET given == op[c].fields[f]
                            old == before[c].fields[f]
                        IN  /\ given = Absent => after[c].fields[f] = old
                            /\ /\ given # Absent /\ old # Absent
                               /\ given.shape = "object" /\ old.shape = "object"
                               => \A s \in Tags : given.is[s] = Absent =>
                                    after[c].fields[f].is[s] = old.is[s]
      BY DEF UnracedUpdateKeepsUnnamed
    <2> DEFINE given == op[c].fields[f]
               old == before[c].fields[f]
    <2>1. /\ old \in Element \union {Absent} /\ given \in Value \union {Absent}
          /\ after[c].fields[f] = Elements(Merged(old, given))
      BY <1>1, UpdateFacts DEF Faithful
    <2>2. ASSUME given = Absent PROVE after[c].fields[f] = old
      <3>1. Merged(old, given) = old
        BY <2>2 DEF Merged
      <3>2. QED
        BY <2>1, <3>1, ElementsType DEF Element
    <2>3. ASSUME given # Absent, old # Absent,
                 given.shape = "object", old.shape = "object",
                 NEW s \in Tags, given.is[s] = Absent
          PROVE  after[c].fields[f].is[s] = old.is[s]
      <3>1. given \in Value /\ old \in Value /\ Canonical(old)
        BY <2>1, <2>3 DEF Element
      <3>2. PICK t \in Tags : old.is[t] # Absent
        BY <2>3, <3>1 DEF Canonical
      <3>3. QED
        BY <2>1, <2>3, <3>1, <3>2, MergedObjects
    <2>4. QED
      BY <2>2, <2>3
  <1>2. QED
    BY <1>1, InvCorrect, PTL

\* The given fields are there when an update has been made.
THEOREM UpdateHonouredCorrect == ObjectSpec => []UpdateHonoured
  <1>1. ASSUME P!CallsInv PROVE UpdateHonoured
    <2> SUFFICES ASSUME NEW c \in Calls, op[c].kind = "update", applied[c] > 0,
                        NEW f \in Fields, op[c].fields[f] # Absent
                 PROVE  LET given == op[c].fields[f]
                            new == after[c].fields[f]
                        IN  /\ given.shape # "object" => new = Elements(given)
                            /\ given.shape = "object" =>
                                 \A s \in Tags : given.is[s] # Absent =>
                                   new.shape = "object" /\ new.is[s] = given.is[s]
      BY DEF UpdateHonoured
    <2> DEFINE given == op[c].fields[f]
               old == existing[c].fields[f]
               new == after[c].fields[f]
    <2>1. /\ old \in Value \union {Absent} /\ given \in Value
          /\ new = Elements(Merged(old, given))
      BY <1>1, UpdateFacts
    <2>2. ASSUME given.shape # "object" PROVE new = Elements(given)
      <3>1. Merged(old, given) = given
        BY <2>2 DEF Merged
      <3>2. QED
        BY <2>1, <3>1
    <2>3. ASSUME given.shape = "object", NEW s \in Tags, given.is[s] # Absent
          PROVE  new.shape = "object" /\ new.is[s] = given.is[s]
      <3>1. CASE old # Absent /\ old.shape = "object"
        BY <2>1, <2>3, <3>1, MergedObjects
      <3>2. CASE ~(old # Absent /\ old.shape = "object")
        <4>1. Merged(old, given) = given
          BY <3>2 DEF Merged
        <4>2. Canonical(given)
          BY <2>3 DEF Canonical
        <4>3. QED
          BY <2>1, <2>3, <4>1, <4>2, ElementsType DEF Element
      <3>3. QED
        BY <3>1, <3>2
    <2>4. QED
      BY <2>2, <2>3
  <1>2. QED
    BY <1>1, InvCorrect, PTL

\* What cannot be written back stops the update.
THEOREM UnwritableCorrect == ObjectSpec => []UnwritableNotDropped
  <1>1. ASSUME P!CallsInv PROVE UnwritableNotDropped
    <2> SUFFICES ASSUME NEW c \in Calls, op[c].kind = "update", applied[c] > 0,
                        NEW f \in Fields, raw[c].fields[f] # Absent
                 PROVE  /\ f \notin BadTags
                        /\ HasBadSubfield(raw[c].fields[f]) =>
                             op[c].fields[f] # Absent /\ op[c].fields[f].shape # "object"
      BY DEF UnwritableNotDropped
    <2> DEFINE given == op[c].fields[f]
               old == raw[c].fields[f]
               read == existing[c].fields[f]
    <2>1. /\ old \in Value /\ given \in Value \union {Absent}
          /\ read = ReadValue(old)
          /\ Merged(read, given) # Absent =>
               f \notin BadTags /\ ~HasBadSubfield(Merged(read, given))
      BY <1>1, UpdateFacts DEF Element
    <2>2. read \in Value /\ read # Absent
      BY <2>1, ReadValueType, ValueShape
    <2>3. Merged(read, given) # Absent
      BY <2>1, <2>2, MergedType
    <2>4. ASSUME HasBadSubfield(old), given = Absent \/ given.shape = "object"
          PROVE  FALSE
      <3>1. PICK s \in Tags \intersect BadTags : old.is[s] # Absent
        BY <2>4 DEF HasBadSubfield
      <3>2. old.shape = "object" /\ old.is \in [Tags -> Leaf \union {Absent}]
        BY <2>1, <2>4, ValueShape DEF HasBadSubfield
      <3>3. read = [old EXCEPT !.is = [t \in Tags |-> ReadText(@[t])]]
        BY <2>1, <3>2, ValueShape DEF ReadValue
      <3>4. ReadText(old.is[s]) # Absent
        BY <3>1, <3>2, ReadTextType, ObjectAssumption DEF ObjectAssumption
      <3>5. read.shape = "object" /\ read.is[s] # Absent
        <4>1. old \in [shape: {"object"}, is: [Tags -> Leaf \union {Absent}]]
          BY <2>1, <3>2, ValueShape
        <4>2. read = [shape |-> "object", is |-> [t \in Tags |-> ReadText(old.is[t])]]
          BY <3>3, <4>1
        <4>3. QED
          BY <3>1, <3>4, <4>2
      <3>6. Merged(read, given).shape = "object" /\ Merged(read, given).is[s] # Absent
        BY <2>2, <2>4, <3>1, <3>5 DEF Merged
      <3>7. QED
        BY <2>1, <2>3, <3>1, <3>6 DEF HasBadSubfield
    <2>5. QED
      BY <2>1, <2>3, <2>4
  <1>2. QED
    BY <1>1, InvCorrect, PTL

=============================================================================
