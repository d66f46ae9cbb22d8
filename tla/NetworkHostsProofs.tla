------------------------- MODULE NetworkHostsProofs -------------------------
(***************************************************************************)
(* Proofs about NetworkHosts, for any addresses, groups, descriptions and  *)
(* number of calls.  Its operators are WellFormed, so that                 *)
(* TypedCallsProofs applies.                                               *)
(***************************************************************************)
EXTENDS NetworkHosts, TLAPS

P == INSTANCE TypedCallsProofs WITH
       Keys <- Names, Contents <- StoredHost, Entries <- HostRecord

-----------------------------------------------------------------------------
(* The operators of NetworkHosts.                                          *)

Kinds == {"get", "delete", "create", "update"}

\* What the arguments of a call can be.
LEMMA OpShape ==
  ASSUME NEW o \in Operation
  PROVE  /\ o.kind \in Kinds /\ o.key \in Names /\ o.resource \in Resources
         /\ o.resource = "IPHost" => o.class \in Variants
         /\ o.resource = "FQDNHost" => o.class = Plain
         /\ o.kind \in {"create", "update"} =>
              /\ o.value \in Addresses \union {Omitted}
              /\ o.groups \in GroupSetsOf(o.resource) \union {Omitted}
              /\ o.text \in TextsOf(o.resource) \union {Omitted}
         /\ (o.kind \in {"create", "update"} /\ ~Reads(o)) =>
              o.value \in Addresses /\ o.groups \in GroupSetsOf(o.resource)
  <1> USE DEF Kinds, Op, Reads, Resources
  <1>1. CASE o \in IpWrites
    BY <1>1 DEF IpWrites, GroupSetsOf, TextsOf
  <1>2. CASE o \in FqdnCreates
    BY <1>2 DEF FqdnCreates, GroupSetsOf, TextsOf
  <1>3. CASE o \in FqdnUpdates
    BY <1>3 DEF FqdnUpdates, GroupSetsOf, TextsOf
  <1>4. CASE o \in NameOps /\ (o.class = Plain <=> o.resource = "FQDNHost")
    <2>1. /\ o.kind \in {"get", "delete"} /\ o.key \in Names /\ o.resource \in Resources
          /\ o.class \in Variants \union {Plain}
      BY <1>4 DEF NameOps
    <2>2. QED
      BY <1>4, <2>1
  <1>5. QED
    BY <1>1, <1>2, <1>3, <1>4 DEF Operation

\* The update of an IP host carries no description.
LEMMA IpUpdateText ==
  ASSUME NEW o \in Operation, o.kind = "update", o.resource = "IPHost"
  PROVE  o.text = NoText
  BY DEF Operation, IpWrites, FqdnCreates, FqdnUpdates, NameOps, Op

\* An object belongs to the resource it says.
LEMMA StoredShape ==
  ASSUME NEW x \in StoredHost
  PROVE  /\ x.resource \in Resources
         /\ x \in Objects(x.resource)
         /\ x.class \in ClassesOf(x.resource) /\ x.value \in ValuesOf(x.resource)
         /\ x.groups \in GroupSetsOf(x.resource) /\ x.text \in TextsOf(x.resource)
         /\ x # Absent
  <1>1. PICK r \in Resources : x \in Objects(r)
    BY DEF StoredHost
  <1>2. x.resource = r
    BY <1>1 DEF Objects
  <1>3. QED
    BY <1>1, <1>2, HostAssumption DEF Objects, HostAssumption

\* An object made of parts that fit its resource.
LEMMA ObjectFromParts ==
  ASSUME NEW r \in Resources, NEW u \in ClassesOf(r), NEW v \in ValuesOf(r),
         NEW g \in GroupSetsOf(r), NEW t \in TextsOf(r)
  PROVE  [resource |-> r, class |-> u, value |-> v, groups |-> g, text |-> t] \in StoredHost
  <1>1. [resource |-> r, class |-> u, value |-> v, groups |-> g, text |-> t] \in Objects(r)
    BY DEF Objects
  <1>2. QED
    BY <1>1 DEF StoredHost

\* What is read of an object is again an object of its resource.
LEMMA SeenShape ==
  ASSUME NEW o \in Operation, NEW x \in StoredHost, Seen(o, x) # Absent
  PROVE  /\ Seen(o, x) \in HostRecord
         /\ Seen(o, x).resource = x.resource
         /\ Seen(o, x).groups = ReadGroups(x.groups)
         /\ Seen(o, x).text = ReadText(x.text)
         /\ Seen(o, x).value = x.value
         /\ x.class = o.class /\ x.value \in Addresses
  <1>1. /\ x.resource \in Resources
        /\ x.class \in ClassesOf(x.resource) /\ x.value \in ValuesOf(x.resource)
        /\ x.groups \in GroupSetsOf(x.resource) /\ x.text \in TextsOf(x.resource)
    BY StoredShape
  <1>2. ReadGroups(x.groups) \in GroupSetsOf(x.resource)
    BY <1>1, HostAssumption DEF ReadGroups, GroupSetsOf, HostAssumption
  <1>3. ReadText(x.text) \in TextsOf(x.resource)
    BY <1>1, HostAssumption DEF ReadText, TextsOf, HostAssumption
  <1>4. /\ Seen(o, x) = [x EXCEPT !.groups = ReadGroups(x.groups), !.text = ReadText(x.text)]
        /\ x.class = o.class /\ x.value \in Addresses
    BY DEF Seen
  <1>5. Seen(o, x) = [resource |-> x.resource, class |-> x.class, value |-> x.value,
                      groups |-> ReadGroups(x.groups), text |-> ReadText(x.text)]
    <2>1. x \in [resource : {x.resource}, class : ClassesOf(x.resource),
                 value : ValuesOf(x.resource), groups : GroupSetsOf(x.resource),
                 text : TextsOf(x.resource)]
      BY StoredShape DEF Objects
    <2>2. QED
      BY <1>4, <2>1
  <1>6. Seen(o, x) \in StoredHost
    BY <1>1, <1>2, <1>3, <1>5, ObjectFromParts
  <1>7. QED
    BY <1>4, <1>5, <1>6 DEF HostRecord

\* What the call that has seen an entry decides, and writes.
LEMMA WrittenShape ==
  ASSUME NEW o \in Operation, NEW e \in HostRecord \union {Absent},
         Decision(o, e) = "write"
  PROVE  /\ o.kind \in {"create", "update", "delete"}
         /\ Reads(o) => e # Absent
         /\ o.kind = "delete" => Reads(o) /\ Written(o, e) = Absent
         /\ o.kind # "delete" => /\ Written(o, e) \in StoredHost
                                 /\ Written(o, e).resource = o.resource
                                 /\ Written(o, e).class = o.class
                                 /\ Written(o, e).text = Description(o, e)
                                 /\ Reads(o) => /\ Written(o, e).value = Kept(o.value, e.value)
                                                /\ Written(o, e).groups = Kept(o.groups, e.groups)
  <1>1. /\ o.kind \in {"create", "update", "delete"}
        /\ Reads(o) => e # Absent
        /\ o.kind = "delete" => Reads(o)
    BY OpShape DEF Decision, Kinds, Reads
  <1>2. ASSUME o.kind # "delete"
        PROVE  Written(o, e) \in StoredHost
    <2>1. /\ o.resource \in Resources /\ o.class \in ClassesOf(o.resource)
          /\ o.value \in Addresses \union {Omitted}
          /\ o.groups \in GroupSetsOf(o.resource) \union {Omitted}
          /\ o.text \in TextsOf(o.resource) \union {Omitted}
          /\ ~Reads(o) => o.value \in Addresses /\ o.groups \in GroupSetsOf(o.resource)
      BY <1>1, <1>2, OpShape DEF ClassesOf, Resources
    <2>2. Reads(o) => /\ o.kind = "update" /\ o.resource = "FQDNHost"
                      /\ e \in StoredHost /\ e.value \in Addresses
      BY <1>1, <1>2, <2>1 DEF Reads, Resources, HostRecord
    <2>3. ~Reads(o) => \/ o.kind = "create"
                       \/ o.kind = "update" /\ o.resource = "IPHost"
      BY DEF Reads
    <2>4. Description(o, e) \in TextsOf(o.resource)
      <3>1. NoText \in TextsOf(o.resource)
        BY <2>1 DEF TextsOf
      <3>2. CASE o.kind = "create"
        BY <2>1, <3>1, <3>2 DEF Description, Kept
      <3>3. CASE Reads(o)
        <4>1. e.text \in TextsOf(o.resource)
          BY <2>2, StoredShape, <3>3 DEF TextsOf
        <4>2. QED
          BY <2>1, <2>2, <3>3, <4>1 DEF Description, Kept
      <3>4. CASE o.kind = "update" /\ o.resource = "IPHost"
        <4>1. o.text = NoText
          BY <3>4, IpUpdateText
        <4>2. NoText # Omitted
          BY HostAssumption DEF HostAssumption
        <4>3. QED
          BY <3>1, <3>4, <4>1, <4>2 DEF Description, Kept
      <3>5. QED
        BY <2>3, <3>2, <3>3, <3>4
    <2>5. CASE ~Reads(o)
      BY <1>2, <2>1, <2>4, <2>5, ObjectFromParts DEF Written, ValuesOf
    <2>6. CASE Reads(o)
      <3>1. Kept(o.value, e.value) \in ValuesOf(o.resource)
        BY <2>1, <2>2, <2>6 DEF Kept, ValuesOf
      <3>2. Kept(o.groups, e.groups) \in GroupSetsOf(o.resource)
        <4>1. e.groups \in SUBSET Groups
          BY <2>2, <2>6, StoredShape DEF GroupSetsOf
        <4>2. QED
          BY <2>1, <2>2, <2>6, <4>1 DEF Kept, GroupSetsOf
      <3>3. QED
        BY <1>2, <2>1, <2>4, <2>6, <3>1, <3>2, ObjectFromParts DEF Written
    <2>7. QED
      BY <2>5, <2>6
  <1>3. QED
    BY <1>1, <1>2 DEF Written

\* The premise of the theorems about TypedCalls.
LEMMA HostWellFormed == P!WellFormed
  <1>1. NoMessage \notin P!Request /\ NoMessage \notin P!Reply /\ Absent \notin StoredHost
    BY HostAssumption DEF HostAssumption, Request, P!Request, Reply, P!Reply,
       WriteActs, P!WriteActs, ReplyKinds, P!ReplyKinds
  <1>2. ASSUME NEW o \in Operation
        PROVE  /\ o.key \in Names
               /\ \A answer \in P!Reply : Readable(o, answer) \in {"read"} \union P!ReadErrors
               /\ \A content \in StoredHost : Seen(o, content) \in HostRecord \union {Absent}
               /\ ~Rejected(o) /\ ~Reads(o) => Decision(o, Absent) = "write"
               /\ Intent(o) \subseteq {"insert", "overwrite", "remove"}
    <2>1. o.kind \in Kinds /\ o.key \in Names
      BY OpShape
    <2>2. Intent(o) \subseteq {"insert", "overwrite", "remove"}
      BY <2>1 DEF Intent, Kinds
    <2>3. ~Reads(o) => Decision(o, Absent) = "write"
      BY <2>1 DEF Reads, Decision, Kinds
    <2>4. \A content \in StoredHost : Seen(o, content) \in HostRecord \union {Absent}
      BY SeenShape
    <2>5. \A answer \in P!Reply : Readable(o, answer) \in {"read"} \union P!ReadErrors
      BY DEF Readable, P!ReadErrors
    <2>6. QED
      BY <2>1, <2>2, <2>3, <2>4, <2>5
  <1>3. ASSUME NEW o \in Operation, NEW e \in HostRecord \union {Absent}
        PROVE  /\ Decision(o, e) \in {"write", "invalid_request"} \union P!Answers
               /\ Decision(o, e) \in P!Answers => Intent(o) = {}
               /\ Decision(o, e) = "write" =>
                    /\ Act(o, e) \in P!WriteActs
                    /\ P!KindsOf(Act(o, e)) \subseteq Intent(o)
                    /\ Written(o, e) \in StoredHost \union {Absent}
                    /\ (Written(o, e) = Absent) <=> (Act(o, e) = "remove")
               /\ Success(o, e) \in P!Successes
    <2>1. o.kind \in Kinds
      BY OpShape
    <2>2. Success(o, e) \in P!Successes
      BY DEF Success, P!Successes
    <2>3. CASE o.kind = "get"
      BY <2>2, <2>3 DEF Decision, Intent, P!Answers
    <2>4. CASE o.kind # "get"
      <3>1. Decision(o, e) \in {"write", "invalid_request"} /\ "invalid_request" \notin P!Answers
            /\ "write" \notin P!Answers
        BY <2>4 DEF Decision, P!Answers
      <3>2. /\ Act(o, e) \in P!WriteActs
            /\ P!KindsOf(Act(o, e)) \subseteq Intent(o)
            /\ (Act(o, e) = "remove") <=> (o.kind = "delete")
        <4>1. CASE o.kind = "create"
          BY <4>1 DEF Act, P!WriteActs, P!KindsOf, Intent
        <4>2. CASE o.kind = "update"
          BY <4>2 DEF Act, P!WriteActs, P!KindsOf, Intent
        <4>3. CASE o.kind = "delete"
          BY <4>3 DEF Act, P!WriteActs, P!KindsOf, Intent
        <4>4. QED
          BY <2>1, <2>4, <4>1, <4>2, <4>3 DEF Kinds
      <3>3. Decision(o, e) = "write" =>
              /\ Written(o, e) \in StoredHost \union {Absent}
              /\ (Written(o, e) = Absent) <=> (o.kind = "delete")
        BY WrittenShape, StoredShape
      <3>4. QED
        BY <2>2, <3>1, <3>2, <3>3
    <2>5. QED
      BY <2>3, <2>4
  <1>4. QED
    BY <1>1, <1>2, <1>3 DEF P!WellFormed

-----------------------------------------------------------------------------
(* The specification is the instance of TypedCalls.                        *)

LEMMA SameInit == Init <=> P!Init
  BY DEF Init, P!Init, ExchangeInit, P!ExchangeInit

LEMMA SameFirewall ==
  ASSUME NEW c \in Calls
  PROVE  FirewallStep(c) <=> P!FirewallStep(c)
  BY DEF FirewallStep, P!FirewallStep, callVars, P!callVars, Firewall, P!Firewall,
         ProcessGet, P!ProcessGet, ProcessWrite, P!ProcessWrite,
         RefuseWrite, P!RefuseWrite, RefuseOther, P!RefuseOther,
         Answer, P!Answer, Accepts, P!Accepts, WriteActs, P!WriteActs

LEMMA SameCalls ==
  ASSUME NEW c \in Calls
  PROVE  /\ Begin(c) <=> P!Begin(c)
         /\ ReadAnswered(c) <=> P!ReadAnswered(c)
         /\ WriteAnswered(c) <=> P!WriteAnswered(c)
         /\ TransportError(c) <=> P!TransportError(c)
  BY DEF Begin, P!Begin, ReadAnswered, P!ReadAnswered, WriteAnswered, P!WriteAnswered,
         TransportError, P!TransportError, Finish, P!Finish, Hangup, P!Hangup,
         Return, P!Return, Submit, P!Submit, Post, P!Post, Entry, P!Entry,
         ReadOutcome, P!ReadOutcome, WriteOutcome, P!WriteOutcome

LEMMA SameStep == [Next]_vars <=> [P!Next]_(P!vars)
  BY SameFirewall, SameCalls DEF Next, P!Next, vars, P!vars

LEMMA SameSpec == Spec <=> P!Spec
  BY SameInit, SameStep, PTL DEF Spec, P!Spec

LEMMA HostSpecIsSpec == HostSpec => Spec
  BY PTL DEF HostSpec, HostInit, Spec

\* What is on the wire for a call, and what the call has done, fit its phase.
LEMMA InvCorrect == HostSpec => []P!CallsInv
  BY HostSpecIsSpec, SameSpec, HostWellFormed, P!InvCorrect

\* The part of the invariant that speaks of what a call has done.
LEMMA EffectFacts ==
  ASSUME P!CallsInv, NEW c \in Calls
  PROVE  /\ op[c] \in Operation /\ existing[c] \in HostRecord \union {Absent}
         /\ raw[c] \in StoredHost \union {Absent}
         /\ applied[c] \in {0, 1}
         /\ applied[c] = 1 => /\ Decision(op[c], existing[c]) = "write"
                              /\ after[c] = Written(op[c], existing[c])
                              /\ P!Accepts(Act(op[c], existing[c]), before[c])
         /\ existing[c] # Absent =>
              /\ raw[c] # Absent /\ existing[c] = Seen(op[c], raw[c])
              /\ Readable(op[c], P!Found(raw[c])) = "read"
  BY P!EffectFacts DEF P!WriteAllowed

\* Objects stay in their resource: those stored, and those read.
ResourceInv ==
  /\ OneResource
  /\ \A c \in Calls : raw[c] # Absent => raw[c].resource = op[c].resource

\* A call names the object it was made for in every request.
LEMMA RequestKey ==
  ASSUME P!CallsInv, NEW c \in Calls, request[c] # NoMessage
  PROVE  /\ request[c].key = op[c].key
         /\ request[c].act \in WriteActs =>
              \/ request[c].act = "remove"
              \/ request[c].content.resource = op[c].resource
  <1>1. P!TypeOK /\ P!CallInv(c)
    BY DEF P!CallsInv
  <1>2. \/ request[c] = P!GetRequest(op[c])
        \/ /\ request[c] = P!WriteRequest(op[c], existing[c])
           /\ P!WriteAllowed(op[c], existing[c])
    BY <1>1, HostWellFormed, P!PendingRequest
  <1>3. CASE request[c] = P!GetRequest(op[c])
    BY <1>3 DEF P!GetRequest, WriteActs
  <1>4. CASE /\ request[c] = P!WriteRequest(op[c], existing[c])
             /\ P!WriteAllowed(op[c], existing[c])
    <2>1. /\ request[c].key = op[c].key
          /\ request[c].act = Act(op[c], existing[c])
          /\ request[c].content = Written(op[c], existing[c])
          /\ Decision(op[c], existing[c]) = "write"
      BY <1>4 DEF P!WriteRequest, P!WriteAllowed
    <2>2. op[c].kind = "delete" => request[c].act = "remove"
      BY <2>1 DEF Act
    <2>3. QED
      BY <2>1, <2>2, EffectFacts, WrittenShape
  <1>5. QED
    BY <1>2, <1>3, <1>4

\* What a call has written over was of its resource.
BeforeInv ==
  \A c \in Calls : before[c] # Absent => before[c].resource = op[c].resource

LEMMA ResourceStep == P!CallsInv /\ ResourceInv /\ [Next]_vars => ResourceInv'
  <1> SUFFICES ASSUME P!CallsInv, ResourceInv, [Next]_vars
               PROVE  ResourceInv'
    OBVIOUS
  <1> USE DEF ResourceInv, OneResource
  <1>1. ASSUME UNCHANGED <<store, op, raw>> PROVE ResourceInv'
    BY <1>1
  <1>2. CASE UNCHANGED vars
    BY <1>1, <1>2 DEF vars
  <1>3. ASSUME NEW c \in Calls,
               Begin(c) \/ ReadAnswered(c) \/ WriteAnswered(c) \/ TransportError(c)
        PROVE  UNCHANGED <<store, op, raw>>
    BY <1>3 DEF Begin, ReadAnswered, WriteAnswered, TransportError
  <1>4. ASSUME NEW c \in Calls, FirewallStep(c) PROVE ResourceInv'
    <2>1. op' = op /\ request[c] # NoMessage
      BY <1>4 DEF FirewallStep, callVars, Firewall, ProcessGet, ProcessWrite,
                  RefuseWrite, RefuseOther
    <2>2. request[c].key = op[c].key
      BY <2>1, RequestKey
    <2>3. store \in [Names -> StoredHost \union {Absent}]
          /\ raw \in [Calls -> StoredHost \union {Absent}] /\ op[c].key \in Names
      BY EffectFacts, OpShape DEF P!CallsInv, P!TypeOK, P!ExchangeTypeOK
    <2>4. CASE ProcessGet(c)
      <3>1. store' = store /\ raw' = [raw EXCEPT ![c] = store[op[c].key]]
        BY <2>2, <2>4 DEF ProcessGet
      <3>2. QED
        BY <2>1, <2>3, <3>1
    <2>5. CASE ProcessWrite(c)
      <3> DEFINE new == IF request[c].act = "remove" THEN Absent ELSE request[c].content
      <3>1. raw' = raw /\ store' = [store EXCEPT ![op[c].key] = new]
        BY <2>2, <2>5 DEF ProcessWrite
      <3>2. request[c].act \in WriteActs
        BY <2>5 DEF ProcessWrite
      <3>3. new # Absent => new.resource = op[c].resource
        BY <2>1, <3>2, RequestKey
      <3>4. ASSUME NEW d \in Calls, store'[op[d].key] # Absent
            PROVE  store'[op[d].key].resource = op[d].resource
        <4>1. op[d].key \in Names
          BY EffectFacts, OpShape
        <4>2. CASE op[d].key = op[c].key
          <5>1. store'[op[d].key] = new
            BY <2>3, <3>1, <4>2
          <5>2. QED
            BY <3>3, <3>4, <4>2, <5>1
        <4>3. CASE op[d].key # op[c].key
          <5>1. store'[op[d].key] = store[op[d].key]
            BY <2>3, <3>1, <4>1, <4>3
          <5>2. QED
            BY <3>4, <5>1
        <4>4. QED
          BY <4>2, <4>3
      <3>5. QED
        BY <2>1, <3>1, <3>4
    <2>6. CASE RefuseWrite(c) \/ RefuseOther(c)
      BY <1>1, <2>1, <2>6 DEF RefuseWrite, RefuseOther
    <2>7. QED
      BY <1>4, <2>4, <2>5, <2>6 DEF FirewallStep, Firewall
  <1>5. QED
    BY <1>1, <1>2, <1>3, <1>4 DEF Next

LEMMA ResourceCorrect == HostSpec => []ResourceInv
  <1>1. HostInit => ResourceInv
    BY DEF HostInit, Init, ExchangeInit, ResourceInv
  <1>2. QED
    BY <1>1, ResourceStep, InvCorrect, PTL DEF HostSpec

-----------------------------------------------------------------------------
(* Theorems.                                                               *)

\* What is on the wire, read and stored has its type, and an object is never
\* overwritten with one of the other resource.
THEOREM TypeCorrect == HostSpec => []HostTypeOK
  <1>1. P!TypeOK /\ ResourceInv => HostTypeOK
    BY DEF HostTypeOK, ResourceInv,
           TypeOK, P!TypeOK, ExchangeTypeOK, P!ExchangeTypeOK, Request, P!Request,
           Reply, P!Reply, WriteActs, P!WriteActs, ReplyKinds, P!ReplyKinds,
           Phases, P!Phases, Outcomes, P!Outcomes, Successes, P!Successes,
           Refusals, P!Refusals, Answers, P!Answers
  <1>2. P!Spec => []P!TypeOK
    BY HostWellFormed, P!TypeCorrect
  <1>3. QED
    BY <1>1, <1>2, HostSpecIsSpec, SameSpec, ResourceCorrect, PTL

\* A call changes only the object it names, once at most and as its operation
\* intends; if it succeeded it has, if it was refused it never will.
THEOREM HostsImplementConfigStore == HostSpec => ImplementsConfigStore
  <1>1. P!Spec => P!ImplementsConfigStore
    BY HostWellFormed, P!CallsImplementConfigStore
  <1>2. P!Config!ConfigInit => Config!ConfigInit
    BY DEF Config!ConfigInit, P!Config!ConfigInit, Config!Kinds, P!Config!Kinds,
           VerdictOf, P!VerdictOf, Successes, P!Successes, Refusals, P!Refusals,
           Answers, P!Answers
  <1>3. [P!Config!ConfigNext]_(P!Config!configVars) => [Config!ConfigNext]_(Config!configVars)
    BY DEF Config!ConfigNext, P!Config!ConfigNext, Config!configVars, P!Config!configVars,
           Config!Change, P!Config!Change, Config!Conclude, P!Config!Conclude,
           Config!KindOf, P!Config!KindOf,
           VerdictOf, P!VerdictOf, Successes, P!Successes, Refusals, P!Refusals,
           Answers, P!Answers
  <1>4. QED
    BY <1>1, <1>2, <1>3, HostSpecIsSpec, SameSpec, PTL
       DEF P!ImplementsConfigStore, ImplementsConfigStore, Config!ConfigSpec, P!Config!ConfigSpec

\* A call on a host that succeeded has made its change, one that was
\* refused has not and never will.
THEOREM AnswerCorrect == HostSpec => []AnswerMatchesEffect
  <1>1. P!AnswerMatchesEffect => AnswerMatchesEffect
    BY DEF AnswerMatchesEffect, P!AnswerMatchesEffect, Successes, P!Successes,
           Refusals, P!Refusals
  <1>2. P!Spec => []P!AnswerMatchesEffect
    BY HostWellFormed, P!AnswerCorrect
  <1>3. QED
    BY <1>1, <1>2, HostSpecIsSpec, SameSpec, PTL

\* It sends one Get at most and then one write at most.
THEOREM NothingResentCorrect == HostSpec => NothingResent
  <1>1. P!Spec => P!NothingResent
    BY HostWellFormed, P!NothingResentCorrect
  <1>2. QED
    BY <1>1, HostSpecIsSpec, SameSpec, PTL DEF NothingResent, P!NothingResent, vars, P!vars

\* If its object did not change between the two it is atomic.
THEOREM UnracedCorrect == HostSpec => []UnracedCallIsAtomic
  <1>1. P!UnracedCallIsAtomic => UnracedCallIsAtomic
    BY DEF UnracedCallIsAtomic, P!UnracedCallIsAtomic, View, P!View, Successes, P!Successes
  <1>2. P!Spec => []P!UnracedCallIsAtomic
    BY HostWellFormed, P!UnracedCorrect
  <1>3. QED
    BY <1>1, <1>2, HostSpecIsSpec, SameSpec, PTL

LEMMA Idempotence == P!Idempotent
  <1> SUFFICES ASSUME NEW o \in Operation, NEW e \in HostRecord \union {Absent},
                      Reads(o), Decision(o, e) = "write", Written(o, e) \in HostRecord,
                      Decision(o, Written(o, e)) = "write"
               PROVE  Written(o, Written(o, e)) = Written(o, e)
    BY DEF P!Idempotent, P!WriteAllowed
  <1> DEFINE w == Written(o, e)
  <1>1. o.kind = "update"
    BY WrittenShape, HostAssumption DEF Reads, HostRecord, HostAssumption
  <1>2. /\ w = [resource |-> o.resource, class |-> o.class, value |-> Kept(o.value, e.value),
                groups |-> Kept(o.groups, e.groups), text |-> Kept(o.text, e.text)]
        /\ Written(o, w) =
             [resource |-> o.resource, class |-> o.class, value |-> Kept(o.value, w.value),
              groups |-> Kept(o.groups, w.groups), text |-> Kept(o.text, w.text)]
    BY <1>1 DEF Written, Description
  <1>3. /\ w.value = Kept(o.value, e.value) /\ w.groups = Kept(o.groups, e.groups)
        /\ w.text = Kept(o.text, e.text)
    BY <1>2
  <1>4. QED
    BY <1>2, <1>3 DEF Kept

\* The update of an FQDN host, made again on what it left, leaves the same.
THEOREM RepeatCorrect == HostSpec => []RepeatChangesNothing
  <1>1. P!RepeatChangesNothing => RepeatChangesNothing
    BY DEF RepeatChangesNothing, P!RepeatChangesNothing
  <1>2. P!Spec => []P!RepeatChangesNothing
    BY HostWellFormed, Idempotence, P!RepeatCorrect
  <1>3. QED
    BY <1>1, <1>2, HostSpecIsSpec, SameSpec, PTL

\* A delete by type has read a usable record of the type, and removes one unless
\* another call has put something else there.
THEOREM DeleteCorrect == HostSpec => []DeleteRemovesOwnType
  <1>1. ASSUME P!CallsInv, P!SourceInv PROVE DeleteRemovesOwnType
    <2> SUFFICES ASSUME NEW c \in Calls, op[c].kind = "delete", applied[c] > 0
                 PROVE  /\ Usable(op[c], raw[c])
                        /\ \/ Usable(op[c], before[c])
                           \/ \E d \in Overtakers(c) : op[d].kind \in {"create", "update"}
      BY DEF DeleteRemovesOwnType
    <2>1. applied[c] = 1 /\ op[c] \in Operation
      BY <1>1, EffectFacts
    <2>2. Decision(op[c], existing[c]) = "write" /\ existing[c] \in HostRecord \union {Absent}
      BY <1>1, <2>1, EffectFacts
    <2>3. existing[c] # Absent
      BY <2>1, <2>2, WrittenShape
    <2>4. /\ raw[c] # Absent /\ raw[c] \in StoredHost
          /\ existing[c] = Seen(op[c], raw[c])
      BY <1>1, <2>3, EffectFacts
    <2>5. Usable(op[c], raw[c])
      BY <2>1, <2>3, <2>4, SeenShape DEF Usable
    <2>6. before[c] # Absent
      BY <1>1, <2>1, EffectFacts DEF Act, P!Accepts
    <2>7. ASSUME before[c] # raw[c]
          PROVE  \E d \in Overtakers(c) : op[d].kind \in {"create", "update"}
      <3>1. PICK d \in Overtakers(c) : TRUE
        BY <1>1, <2>4, <2>7, P!OvertakenOrFresh DEF Overtakers, P!Overtakers
      <3>2. d \in Calls /\ applied[d] > 0 /\ after[d] # Absent
        BY <2>6, <3>1 DEF Overtakers
      <3>3. /\ op[d] \in Operation /\ existing[d] \in HostRecord \union {Absent}
            /\ Decision(op[d], existing[d]) = "write"
            /\ after[d] = Written(op[d], existing[d])
        BY <1>1, <3>2, EffectFacts
      <3>4. op[d].kind \in {"create", "update"}
        BY <3>2, <3>3, WrittenShape
      <3>5. QED
        BY <3>1, <3>4
    <2>8. QED
      BY <2>5, <2>7
  <1>2. P!Spec => []P!SourceInv
    BY HostWellFormed, P!SourceCorrect
  <1>3. QED
    BY <1>1, <1>2, InvCorrect, HostSpecIsSpec, SameSpec, PTL

\* What is written over is of the call's resource.
LEMMA OverwrittenResource == HostSpec => []BeforeInv
  <1>1. HostInit => BeforeInv
    BY DEF HostInit, Init, ExchangeInit, BeforeInv
  <1>2. P!CallsInv /\ ResourceInv /\ BeforeInv /\ [Next]_vars => BeforeInv'
    <2> SUFFICES ASSUME P!CallsInv, ResourceInv, BeforeInv, [Next]_vars
                 PROVE  BeforeInv'
      OBVIOUS
    <2>1. ASSUME UNCHANGED <<op, before>> PROVE BeforeInv'
      BY <2>1 DEF BeforeInv
    <2>2. CASE UNCHANGED vars
      BY <2>1, <2>2 DEF vars
    <2>3. ASSUME NEW c \in Calls,
                 Begin(c) \/ ReadAnswered(c) \/ WriteAnswered(c) \/ TransportError(c)
          PROVE  UNCHANGED <<op, before>>
      BY <2>3 DEF Begin, ReadAnswered, WriteAnswered, TransportError
    <2>4. ASSUME NEW c \in Calls, FirewallStep(c) PROVE BeforeInv'
      <3>1. op' = op
        BY <2>4 DEF FirewallStep, callVars
      <3>2. CASE ProcessWrite(c)
        <4>1. /\ request[c] # NoMessage
              /\ before' = [before EXCEPT ![c] = store[request[c].key]]
          BY <3>2 DEF ProcessWrite
        <4>2. request[c].key = op[c].key
          BY <4>1, RequestKey
        <4>3. before \in [Calls -> StoredHost \union {Absent}]
          BY DEF P!CallsInv, P!TypeOK, P!ExchangeTypeOK
        <4>4. QED
          BY <3>1, <4>1, <4>2, <4>3 DEF BeforeInv, ResourceInv, OneResource
      <3>3. CASE ProcessGet(c) \/ RefuseWrite(c) \/ RefuseOther(c)
        BY <2>1, <3>1, <3>3 DEF ProcessGet, RefuseWrite, RefuseOther
      <3>4. QED
        BY <2>4, <3>2, <3>3 DEF FirewallStep, Firewall
    <2>5. QED
      BY <2>1, <2>2, <2>3, <2>4 DEF Next
  <1>3. QED
    BY <1>1, <1>2, InvCorrect, ResourceCorrect, PTL DEF HostSpec

\* Only an update of an IP host converts an object.
THEOREM OnlyUpdatesConvertCorrect == HostSpec => []OnlyUpdatesConvert
  <1>1. ASSUME P!CallsInv, BeforeInv PROVE OnlyUpdatesConvert
    <2> SUFFICES ASSUME NEW c \in Calls, applied[c] > 0,
                        before[c] # Absent, after[c] # Absent,
                        before[c].class # after[c].class
                 PROVE  op[c].kind = "update" /\ op[c].resource = "IPHost"
      BY DEF OnlyUpdatesConvert
    <2> DEFINE o == op[c]
               e == existing[c]
    <2>1. /\ applied[c] = 1 /\ o \in Operation
          /\ Decision(o, e) = "write" /\ e \in HostRecord \union {Absent}
          /\ after[c] = Written(o, e) /\ P!Accepts(Act(o, e), before[c])
      BY <1>1, EffectFacts
    <2>2. o.kind \in {"create", "update"}
      BY <2>1, WrittenShape
    <2>3. o.kind # "create"
      BY <2>1 DEF Act, P!Accepts
    <2>4. after[c].class = o.class
      BY <2>1, <2>2, WrittenShape
    <2>5. before[c] \in StoredHost /\ before[c].resource = o.resource
      BY <1>1 DEF BeforeInv, P!CallsInv, P!TypeOK, P!ExchangeTypeOK
    <2>6. o.resource = "FQDNHost" => before[c].class = o.class
      BY <2>1, <2>5, StoredShape, OpShape DEF ClassesOf
    <2>7. o.resource \in Resources
      BY <2>1, OpShape
    <2>8. QED
      BY <2>2, <2>3, <2>4, <2>6, <2>7 DEF Resources
  <1>2. QED
    BY <1>1, InvCorrect, OverwrittenResource, PTL

\* Reading changes nothing of what is read faithfully.
LEMMA FaithfulRead ==
  ASSUME NEW x, Faithful(x)
  PROVE  ReadGroups(x.groups) = x.groups /\ ReadText(x.text) = x.text
  BY DEF Faithful, ReadGroups, ReadText

\* The merge of an FQDN host nobody changed keeps what is not given.
THEOREM UnracedFqdnUpdateCorrect == HostSpec => []UnracedFqdnUpdateKeepsOmitted
  <1>1. ASSUME P!CallsInv PROVE UnracedFqdnUpdateKeepsOmitted
    <2> SUFFICES ASSUME NEW c \in Calls, op[c].kind = "update", op[c].resource = "FQDNHost",
                        applied[c] > 0, before[c] = raw[c], Faithful(before[c])
                 PROVE  /\ after[c].value = Kept(op[c].value, before[c].value)
                        /\ after[c].groups = Kept(op[c].groups, before[c].groups)
                        /\ after[c].text = Kept(op[c].text, before[c].text)
      BY DEF UnracedFqdnUpdateKeepsOmitted
    <2> DEFINE o == op[c]
               e == existing[c]
    <2>1. /\ applied[c] = 1 /\ o \in Operation
          /\ Decision(o, e) = "write" /\ e \in HostRecord \union {Absent}
          /\ after[c] = Written(o, e)
      BY <1>1, EffectFacts
    <2>2. Reads(o)
      BY DEF Reads
    <2>3. /\ e # Absent
          /\ after[c].value = Kept(o.value, e.value)
          /\ after[c].groups = Kept(o.groups, e.groups)
          /\ after[c].text = Description(o, e)
      BY <2>1, <2>2, WrittenShape
    <2>4. e = Seen(o, raw[c]) /\ raw[c] \in StoredHost
      BY <1>1, <2>3, EffectFacts
    <2>5. e.value = raw[c].value /\ e.groups = raw[c].groups /\ e.text = raw[c].text
      BY <2>1, <2>3, <2>4, SeenShape, FaithfulRead
    <2>6. Description(o, e) = Kept(o.text, e.text)
      BY DEF Description
    <2>7. QED
      BY <2>3, <2>5, <2>6
  <1>2. QED
    BY <1>1, InvCorrect, PTL

=============================================================================
