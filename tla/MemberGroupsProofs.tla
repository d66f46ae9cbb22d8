------------------------- MODULE MemberGroupsProofs -------------------------
(***************************************************************************)
(* Proofs about MemberGroups, for any members, descriptions and number of  *)
(* calls, and any way in which the reading of a stored text differs from   *)
(* the text.  Its operators are WellFormed, so that TypedCallsProofs       *)
(* applies.                                                                *)
(***************************************************************************)
EXTENDS MemberGroups, TLAPS

P == INSTANCE TypedCallsProofs WITH
       Keys <- Names, Contents <- StoredObject, Entries <- StoredObject

-----------------------------------------------------------------------------
(* The operators of MemberGroups.                                          *)

Kinds == {"get", "delete"} \union ListKinds

\* What the arguments of a call can be.
LEMMA OpShape ==
  ASSUME NEW o \in Operation
  PROVE  /\ o.kind \in Kinds /\ o.key \in Names /\ o.resource \in Resources
         /\ o.kind \in ListKinds =>
              /\ o.list \subseteq Members
              /\ o.text \in TextsOf(o.resource) \union {Omitted}
              /\ o.class \in ClassesOf(o.resource)
  <1>1. PICK r \in Resources : o \in ListOps(r) \union NameOps(r)
    BY DEF Operation
  <1>2. CASE o \in NameOps(r)
    BY <1>1, <1>2 DEF NameOps, Op, Kinds, ListKinds
  <1>3. CASE o \in ListOps(r)
    <2>1. /\ o.kind \in ListKinds /\ o.key \in Names /\ o.resource = r
          /\ o.list \in ListsOf(r)
          /\ o.text \in TextsOf(r) \union {Omitted}
          /\ o.class \in CallClasses(r)
      BY <1>3 DEF ListOps, Op, TextsOf, Described
    <2>2. o.list \in Requests
      BY <2>1 DEF ListsOf
    <2>3. o.class \in ClassesOf(r)
      BY <2>1 DEF CallClasses, ClassesOf
    <2>4. QED
      BY <1>1, <2>1, <2>2, <2>3, GroupAssumption DEF GroupAssumption, Kinds
  <1>4. QED
    BY <1>1, <1>2, <1>3

\* All but services are written with the one class there is.
LEMMA PlainClass ==
  ASSUME NEW o \in Operation, o.kind \in ListKinds, o.resource # "service"
  PROVE  o.class = Plain
  <1>1. PICK r \in Resources : o \in ListOps(r) \union NameOps(r)
    BY DEF Operation
  <1>2. CASE o \in NameOps(r)
    BY <1>2 DEF NameOps, Op
  <1>3. CASE o \in ListOps(r)
    BY <1>3 DEF ListOps, Op, CallClasses
  <1>4. QED
    BY <1>1, <1>2, <1>3

\* An object belongs to the resource it says.
LEMMA StoredShape ==
  ASSUME NEW x \in StoredObject
  PROVE  /\ x.resource \in Resources
         /\ x.members \subseteq Members
         /\ x.text \in TextsOf(x.resource) /\ x.class \in ClassesOf(x.resource)
         /\ x = [resource |-> x.resource, members |-> x.members,
                 text |-> x.text, class |-> x.class]
         /\ x # Absent
  <1>1. PICK r \in Resources : x \in Objects(r)
    BY DEF StoredObject
  <1>2. x.resource = r
    BY <1>1 DEF Objects
  <1>3. QED
    BY <1>1, <1>2, GroupAssumption DEF Objects, GroupAssumption

\* An object made of parts that fit its resource.
LEMMA ObjectFromParts ==
  ASSUME NEW r \in Resources, NEW l \in SUBSET Members, NEW t \in TextsOf(r),
         NEW u \in ClassesOf(r)
  PROVE  [resource |-> r, members |-> l, text |-> t, class |-> u] \in StoredObject
  <1>1. [resource |-> r, members |-> l, text |-> t, class |-> u] \in Objects(r)
    BY DEF Objects
  <1>2. QED
    BY <1>1 DEF StoredObject

\* What is read of an object is again an object of its resource.
LEMMA SeenShape ==
  ASSUME NEW o \in Operation, NEW x \in StoredObject, Seen(o, x) # Absent
  PROVE  /\ Seen(o, x) \in StoredObject
         /\ Seen(o, x).resource = x.resource
         /\ Seen(o, x).members = ReadMembers(x.members)
         /\ Seen(o, x).text = ReadText(x.text)
         /\ Seen(o, x).class = x.class
         /\ x.class # Foreign
  <1>1. /\ x.resource \in Resources /\ x.members \in SUBSET Members
        /\ x.text \in TextsOf(x.resource) /\ x.class \in ClassesOf(x.resource)
    BY StoredShape
  <1>2. ReadMembers(x.members) \in SUBSET Members
    BY <1>1, GroupAssumption DEF ReadMembers, GroupAssumption
  <1>3. ReadText(x.text) \in TextsOf(x.resource)
    BY <1>1, GroupAssumption DEF ReadText, TextsOf, GroupAssumption
  <1>4. Seen(o, x) = [resource |-> x.resource, members |-> ReadMembers(x.members),
                      text |-> ReadText(x.text), class |-> x.class]
        /\ x.class # Foreign
    <2>1. /\ Seen(o, x) = [x EXCEPT !.members = ReadMembers(x.members), !.text = ReadText(x.text)]
          /\ x.class # Foreign
      BY DEF Seen
    <2>2. x \in [resource : Resources, members : SUBSET Members,
                text : TextsOf(x.resource), class : ClassesOf(x.resource)]
      BY StoredShape
    <2>3. QED
      BY <2>1, <2>2
  <1>5. Seen(o, x) \in StoredObject
    BY <1>1, <1>2, <1>3, <1>4, ObjectFromParts
  <1>6. QED
    BY <1>4, <1>5

\* What the call that has seen an entry decides, and writes.
LEMMA WrittenShape ==
  ASSUME NEW o \in Operation, NEW e \in StoredObject \union {Absent},
         Decision(o, e) = "write"
  PROVE  /\ o.kind \in {"delete"} \union ListKinds
         /\ o.kind # "create" => e # Absent
         /\ o.resource = "service" /\ o.kind \in {"add", "remove", "replace"} =>
              e.class = o.class
         /\ o.kind = "delete" => Written(o, e) = Absent
         /\ o.kind # "delete" => /\ Written(o, e) \in StoredObject
                                 /\ Written(o, e).resource = o.resource
                                 /\ Written(o, e).members = Updated(o, e)
                                 /\ Written(o, e).text = Description(o, e)
                                 /\ Written(o, e).class = o.class
  <1>1. /\ o.kind \in {"delete"} \union ListKinds
        /\ o.kind # "create" => e # Absent
        /\ o.resource = "service" /\ o.kind \in {"add", "remove", "replace"} =>
             e.class = o.class
    BY OpShape DEF Decision, Kinds, ListKinds
  <1>2. ASSUME o.kind # "delete"
        PROVE  Written(o, e) \in StoredObject
    <2>1. /\ o.list \in SUBSET Members /\ o.resource \in Resources
          /\ o.text \in TextsOf(o.resource) \union {Omitted}
          /\ o.class \in ClassesOf(o.resource)
      BY <1>1, <1>2, OpShape
    <2>2. Updated(o, e) \in SUBSET Members
      <3>1. o.kind \in {"add", "remove"} => e.members \in SUBSET Members
        BY <1>1, StoredShape
      <3>2. QED
        BY <2>1, <3>1 DEF Updated
    <2>3. Description(o, e) \in TextsOf(o.resource)
      <3>1. o.kind # "create" => e.text \in Texts \union {NoText}
        BY <1>1, StoredShape DEF TextsOf
      <3>2. QED
        BY <2>1, <3>1 DEF Description, TextsOf
    <2>4. QED
      BY <1>2, <2>1, <2>2, <2>3, ObjectFromParts DEF Written
  <1>3. QED
    BY <1>1, <1>2 DEF Written

\* The premise of the theorems about TypedCalls.
LEMMA GroupWellFormed == P!WellFormed
  <1>1. NoMessage \notin P!Request /\ NoMessage \notin P!Reply /\ Absent \notin StoredObject
    BY GroupAssumption DEF GroupAssumption, Request, P!Request, Reply, P!Reply,
       WriteActs, P!WriteActs, ReplyKinds, P!ReplyKinds
  <1>2. ASSUME NEW o \in Operation
        PROVE  /\ o.key \in Names
               /\ \A answer \in P!Reply : Readable(o, answer) \in {"read"} \union P!ReadErrors
               /\ \A content \in StoredObject : Seen(o, content) \in StoredObject \union {Absent}
               /\ ~Rejected(o) /\ ~Reads(o) => Decision(o, Absent) = "write"
               /\ Intent(o) \subseteq {"insert", "overwrite", "remove"}
    <2>1. o.kind \in Kinds /\ o.key \in Names
      BY OpShape
    <2>2. Intent(o) \subseteq {"insert", "overwrite", "remove"}
      BY <2>1 DEF Intent, Kinds, ListKinds
    <2>3. QED
      BY <2>1, <2>2, SeenShape DEF Readable, P!ReadErrors, Reads, Decision
  <1>3. ASSUME NEW o \in Operation, NEW e \in StoredObject \union {Absent}
        PROVE  /\ Decision(o, e) \in {"write", "invalid_request"} \union P!Answers
               /\ Decision(o, e) \in P!Answers => Intent(o) = {}
               /\ Decision(o, e) = "write" =>
                    /\ Act(o, e) \in P!WriteActs
                    /\ P!KindsOf(Act(o, e)) \subseteq Intent(o)
                    /\ Written(o, e) \in StoredObject \union {Absent}
                    /\ (Written(o, e) = Absent) <=> (Act(o, e) = "remove")
               /\ Success(o, e) \in P!Successes
    <2>1. o.kind \in Kinds
      BY OpShape
    <2>2. /\ Decision(o, e) \in {"write", "invalid_request"} \union P!Answers
          /\ Decision(o, e) \in P!Answers => Intent(o) = {}
      BY <2>1 DEF Kinds, ListKinds, Decision, Intent, P!Answers
    <2>3. Success(o, e) \in P!Successes
      BY DEF Success, P!Successes
    <2>4. ASSUME Decision(o, e) = "write"
          PROVE  /\ Act(o, e) \in P!WriteActs
                 /\ P!KindsOf(Act(o, e)) \subseteq Intent(o)
                 /\ (Act(o, e) = "remove") <=> (o.kind = "delete")
      <3>1. o.kind \in {"delete"} \union ListKinds
        BY <1>3, <2>4, WrittenShape
      <3>2. CASE o.kind = "create" /\ o.resource \in {"service_group", "url_group"}
        BY <3>2 DEF Act, P!WriteActs, P!KindsOf, Intent
      <3>3. CASE o.kind = "create" /\ o.resource \notin {"service_group", "url_group"}
        BY <3>3 DEF Act, P!WriteActs, P!KindsOf, Intent
      <3>4. CASE o.kind = "delete"
        BY <3>4 DEF Act, P!WriteActs, P!KindsOf, Intent
      <3>5. CASE o.kind \in {"add", "remove", "replace"}
        BY <3>5 DEF Act, P!WriteActs, P!KindsOf, Intent
      <3>6. QED
        BY <3>1, <3>2, <3>3, <3>4, <3>5 DEF ListKinds
    <2>5. ASSUME Decision(o, e) = "write"
          PROVE  /\ Written(o, e) \in StoredObject \union {Absent}
                 /\ (Written(o, e) = Absent) <=> (o.kind = "delete")
      BY <1>3, <2>5, WrittenShape, StoredShape
    <2>6. QED
      BY <2>2, <2>3, <2>4, <2>5
  <1>4. QED
    BY <1>1, <1>2, <1>3 DEF P!WellFormed

-----------------------------------------------------------------------------
(* The specification is the instance of TypedCalls.                        *)

LEMMA SameInit == Init <=> P!Init
  BY DEF Init, P!Init, ExchangeInit, P!ExchangeInit

LEMMA SameFirewall ==
  ASSUME NEW c \in Calls
  PROVE  FirewallStep(c) <=> P!FirewallStep(c)
  BY DEF FirewallStep, P!FirewallStep, callVars, P!callVars, Firewall, P!Firewall,
         ProcessGet, P!ProcessGet, ProcessWrite, P!ProcessWrite,
         RefuseWrite, P!RefuseWrite, RefuseOther, P!RefuseOther,
         Answer, P!Answer, Accepts, P!Accepts, WriteActs, P!WriteActs

LEMMA SameCalls ==
  ASSUME NEW c \in Calls
  PROVE  /\ Begin(c) <=> P!Begin(c)
         /\ ReadAnswered(c) <=> P!ReadAnswered(c)
         /\ WriteAnswered(c) <=> P!WriteAnswered(c)
         /\ TransportError(c) <=> P!TransportError(c)
  BY DEF Begin, P!Begin, ReadAnswered, P!ReadAnswered, WriteAnswered, P!WriteAnswered,
         TransportError, P!TransportError, Finish, P!Finish, Hangup, P!Hangup,
         Return, P!Return, Submit, P!Submit, Post, P!Post, Entry, P!Entry,
         ReadOutcome, P!ReadOutcome, WriteOutcome, P!WriteOutcome

LEMMA SameStep == [Next]_vars <=> [P!Next]_(P!vars)
  BY SameFirewall, SameCalls DEF Next, P!Next, vars, P!vars

LEMMA SameSpec == Spec <=> P!Spec
  BY SameInit, SameStep, PTL DEF Spec, P!Spec

LEMMA GroupSpecIsSpec == GroupSpec => Spec
  BY PTL DEF GroupSpec, GroupInit, Spec

\* What is on the wire for a call, and what the call has done, fit its phase.
LEMMA InvCorrect == GroupSpec => []P!CallsInv
  BY GroupSpecIsSpec, SameSpec, GroupWellFormed, P!InvCorrect

\* The part of the invariant that speaks of what a call has done.
LEMMA EffectFacts ==
  ASSUME P!CallsInv, NEW c \in Calls
  PROVE  /\ op[c] \in Operation /\ existing[c] \in StoredObject \union {Absent}
         /\ raw[c] \in StoredObject \union {Absent}
         /\ applied[c] \in {0, 1}
         /\ applied[c] = 1 => /\ Decision(op[c], existing[c]) = "write"
                              /\ after[c] = Written(op[c], existing[c])
                              /\ P!Accepts(Act(op[c], existing[c]), before[c])
         /\ existing[c] # Absent =>
              /\ raw[c] # Absent /\ existing[c] = Seen(op[c], raw[c])
              /\ Readable(op[c], P!Found(raw[c])) = "read"
  BY P!EffectFacts DEF P!WriteAllowed

\* Objects stay in their resource: those stored, and those read.
ResourceInv ==
  /\ OneResource
  /\ \A c \in Calls : raw[c] # Absent => raw[c].resource = op[c].resource

\* A call names the object it was made for in every request.
LEMMA RequestKey ==
  ASSUME P!CallsInv, NEW c \in Calls, request[c] # NoMessage
  PROVE  /\ request[c].key = op[c].key
         /\ request[c].act \in WriteActs =>
              \/ request[c].act = "remove"
              \/ request[c].content.resource = op[c].resource
  <1>1. P!TypeOK /\ P!CallInv(c)
    BY DEF P!CallsInv
  <1>2. \/ request[c] = P!GetRequest(op[c])
        \/ /\ request[c] = P!WriteRequest(op[c], existing[c])
           /\ P!WriteAllowed(op[c], existing[c])
    BY <1>1, GroupWellFormed, P!PendingRequest
  <1>3. CASE request[c] = P!GetRequest(op[c])
    BY <1>3 DEF P!GetRequest, WriteActs
  <1>4. CASE /\ request[c] = P!WriteRequest(op[c], existing[c])
             /\ P!WriteAllowed(op[c], existing[c])
    <2>1. /\ request[c].key = op[c].key
          /\ request[c].act = Act(op[c], existing[c])
          /\ request[c].content = Written(op[c], existing[c])
          /\ Decision(op[c], existing[c]) = "write"
      BY <1>4 DEF P!WriteRequest, P!WriteAllowed
    <2>2. op[c].kind = "delete" => request[c].act = "remove"
      BY <2>1 DEF Act
    <2>3. QED
      BY <2>1, <2>2, EffectFacts, WrittenShape
  <1>5. QED
    BY <1>2, <1>3, <1>4

LEMMA ResourceStep == P!CallsInv /\ ResourceInv /\ [Next]_vars => ResourceInv'
  <1> SUFFICES ASSUME P!CallsInv, ResourceInv, [Next]_vars
               PROVE  ResourceInv'
    OBVIOUS
  <1> USE DEF ResourceInv, OneResource
  <1>1. ASSUME UNCHANGED <<store, op, raw>> PROVE ResourceInv'
    BY <1>1
  <1>2. CASE UNCHANGED vars
    BY <1>1, <1>2 DEF vars
  <1>3. ASSUME NEW c \in Calls,
               Begin(c) \/ ReadAnswered(c) \/ WriteAnswered(c) \/ TransportError(c)
        PROVE  UNCHANGED <<store, op, raw>>
    BY <1>3 DEF Begin, ReadAnswered, WriteAnswered, TransportError
  <1>4. ASSUME NEW c \in Calls, FirewallStep(c) PROVE ResourceInv'
    <2>1. op' = op /\ request[c] # NoMessage
      BY <1>4 DEF FirewallStep, callVars, Firewall, ProcessGet, ProcessWrite,
                  RefuseWrite, RefuseOther
    <2>2. request[c].key = op[c].key
      BY <2>1, RequestKey
    <2>3. store \in [Names -> StoredObject \union {Absent}]
          /\ raw \in [Calls -> StoredObject \union {Absent}] /\ op[c].key \in Names
      BY EffectFacts, OpShape DEF P!CallsInv, P!TypeOK, P!ExchangeTypeOK
    <2>4. CASE ProcessGet(c)
      <3>1. store' = store /\ raw' = [raw EXCEPT ![c] = store[op[c].key]]
        BY <2>2, <2>4 DEF ProcessGet
      <3>2. QED
        BY <2>1, <2>3, <3>1
    <2>5. CASE ProcessWrite(c)
      <3> DEFINE new == IF request[c].act = "remove" THEN Absent ELSE request[c].content
      <3>1. raw' = raw /\ store' = [store EXCEPT ![op[c].key] = new]
        BY <2>2, <2>5 DEF ProcessWrite
      <3>2. request[c].act \in WriteActs
        BY <2>5 DEF ProcessWrite
      <3>3. new # Absent => new.resource = op[c].resource
        BY <2>1, <3>2, RequestKey
      <3>4. ASSUME NEW d \in Calls, store'[op[d].key] # Absent
            PROVE  store'[op[d].key].resource = op[d].resource
        <4>1. op[d].key \in Names
          BY EffectFacts, OpShape
        <4>2. CASE op[d].key = op[c].key
          <5>1. store'[op[d].key] = new
            BY <2>3, <3>1, <4>2
          <5>2. QED
            BY <3>3, <3>4, <4>2, <5>1
        <4>3. CASE op[d].key # op[c].key
          <5>1. store'[op[d].key] = store[op[d].key]
            BY <2>3, <3>1, <4>1, <4>3
          <5>2. QED
            BY <3>4, <5>1
        <4>4. QED
          BY <4>2, <4>3
      <3>5. QED
        BY <2>1, <3>1, <3>4
    <2>6. CASE RefuseWrite(c) \/ RefuseOther(c)
      BY <1>1, <2>1, <2>6 DEF RefuseWrite, RefuseOther
    <2>7. QED
      BY <1>4, <2>4, <2>5, <2>6 DEF FirewallStep, Firewall
  <1>5. QED
    BY <1>1, <1>2, <1>3, <1>4 DEF Next

LEMMA ResourceCorrect == GroupSpec => []ResourceInv
  <1>1. GroupInit => ResourceInv
    BY DEF GroupInit, Init, ExchangeInit, ResourceInv
  <1>2. QED
    BY <1>1, ResourceStep, InvCorrect, PTL DEF GroupSpec

-----------------------------------------------------------------------------
(* Theorems.                                                               *)

\* What is on the wire, read and stored has its type, and an object is never
\* overwritten with one of another resource.
THEOREM TypeCorrect == GroupSpec => []GroupTypeOK
  <1>1. P!TypeOK /\ ResourceInv => GroupTypeOK
    BY DEF GroupTypeOK, ResourceInv,
           TypeOK, P!TypeOK, ExchangeTypeOK, P!ExchangeTypeOK, Request, P!Request,
           Reply, P!Reply, WriteActs, P!WriteActs, ReplyKinds, P!ReplyKinds,
           Phases, P!Phases, Outcomes, P!Outcomes, Successes, P!Successes,
           Refusals, P!Refusals, Answers, P!Answers
  <1>2. P!Spec => []P!TypeOK
    BY GroupWellFormed, P!TypeCorrect
  <1>3. QED
    BY <1>1, <1>2, GroupSpecIsSpec, SameSpec, ResourceCorrect, PTL

\* A call changes only the object it names, once at most and as its operation
\* intends; if it succeeded it has, if it was refused it never will.
THEOREM GroupsImplementConfigStore == GroupSpec => ImplementsConfigStore
  <1>1. P!Spec => P!ImplementsConfigStore
    BY GroupWellFormed, P!CallsImplementConfigStore
  <1>2. P!Config!ConfigInit => Config!ConfigInit
    BY DEF Config!ConfigInit, P!Config!ConfigInit, Config!Kinds, P!Config!Kinds,
           VerdictOf, P!VerdictOf, Successes, P!Successes, Refusals, P!Refusals,
           Answers, P!Answers
  <1>3. [P!Config!ConfigNext]_(P!Config!configVars) => [Config!ConfigNext]_(Config!configVars)
    BY DEF Config!ConfigNext, P!Config!ConfigNext, Config!configVars, P!Config!configVars,
           Config!Change, P!Config!Change, Config!Conclude, P!Config!Conclude,
           Config!KindOf, P!Config!KindOf,
           VerdictOf, P!VerdictOf, Successes, P!Successes, Refusals, P!Refusals,
           Answers, P!Answers
  <1>4. QED
    BY <1>1, <1>2, <1>3, GroupSpecIsSpec, SameSpec, PTL
       DEF P!ImplementsConfigStore, ImplementsConfigStore, Config!ConfigSpec, P!Config!ConfigSpec

\* A call on a group or service that succeeded has made its change, one that was
\* refused has not and never will.
THEOREM AnswerCorrect == GroupSpec => []AnswerMatchesEffect
  <1>1. P!AnswerMatchesEffect => AnswerMatchesEffect
    BY DEF AnswerMatchesEffect, P!AnswerMatchesEffect, Successes, P!Successes,
           Refusals, P!Refusals
  <1>2. P!Spec => []P!AnswerMatchesEffect
    BY GroupWellFormed, P!AnswerCorrect
  <1>3. QED
    BY <1>1, <1>2, GroupSpecIsSpec, SameSpec, PTL

\* It sends one Get at most and then one write at most.
THEOREM NothingResentCorrect == GroupSpec => NothingResent
  <1>1. P!Spec => P!NothingResent
    BY GroupWellFormed, P!NothingResentCorrect
  <1>2. QED
    BY <1>1, GroupSpecIsSpec, SameSpec, PTL DEF NothingResent, P!NothingResent, vars, P!vars

\* If its object did not change between the two it is atomic.
THEOREM UnracedCorrect == GroupSpec => []UnracedCallIsAtomic
  <1>1. P!UnracedCallIsAtomic => UnracedCallIsAtomic
    BY DEF UnracedCallIsAtomic, P!UnracedCallIsAtomic, View, P!View, Successes, P!Successes
  <1>2. P!Spec => []P!UnracedCallIsAtomic
    BY GroupWellFormed, P!UnracedCorrect
  <1>3. QED
    BY <1>1, <1>2, GroupSpecIsSpec, SameSpec, PTL

LEMMA Idempotence == P!Idempotent
  <1> SUFFICES ASSUME NEW o \in Operation, NEW e \in StoredObject \union {Absent},
                      Reads(o), Decision(o, e) = "write", Written(o, e) \in StoredObject,
                      Decision(o, Written(o, e)) = "write"
               PROVE  Written(o, Written(o, e)) = Written(o, e)
    BY DEF P!Idempotent, P!WriteAllowed
  <1> DEFINE w == Written(o, e)
  <1>1. o.kind \in {"add", "remove", "replace"}
    BY WrittenShape, StoredShape DEF ListKinds, Reads
  <1>2. /\ w = [resource |-> o.resource, members |-> Updated(o, e),
                text |-> Description(o, e), class |-> o.class]
        /\ Written(o, w) = [resource |-> o.resource, members |-> Updated(o, w),
                            text |-> Description(o, w), class |-> o.class]
    BY <1>1 DEF Written
  <1>3. Updated(o, w) = Updated(o, e)
    <2>1. w.members = Updated(o, e)
      BY <1>2
    <2>2. QED
      BY <2>1 DEF Updated
  <1>4. Description(o, w) = Description(o, e)
    <2>1. w.text = Description(o, e)
      BY <1>2
    <2>2. QED
      BY <1>1, <2>1 DEF Description
  <1>5. QED
    BY <1>2, <1>3, <1>4

\* Members added, removed or put in the place of the list again leave the list
\* that the first call left.
THEOREM RepeatCorrect == GroupSpec => []RepeatChangesNothing
  <1>1. P!RepeatChangesNothing => RepeatChangesNothing
    BY DEF RepeatChangesNothing, P!RepeatChangesNothing
  <1>2. P!Spec => []P!RepeatChangesNothing
    BY GroupWellFormed, Idempotence, P!RepeatCorrect
  <1>3. QED
    BY <1>1, <1>2, GroupSpecIsSpec, SameSpec, PTL

\* What an update was asked for is in what it writes, whatever it races with.
THEOREM RequestHonouredCorrect == GroupSpec => []RequestHonoured
  <1>1. ASSUME P!CallsInv PROVE RequestHonoured
    <2> SUFFICES ASSUME NEW c \in Calls, applied[c] > 0
                 PROVE  /\ op[c].kind = "add" => op[c].list \subseteq after[c].members
                        /\ op[c].kind = "remove" => op[c].list \intersect after[c].members = {}
                        /\ op[c].kind \in {"create", "replace"} => op[c].list = after[c].members
      BY DEF RequestHonoured
    <2>1. applied[c] = 1
      BY <1>1, EffectFacts
    <2>2. op[c].kind # "delete" => after[c].members = Updated(op[c], existing[c])
      BY <1>1, <2>1, EffectFacts, WrittenShape
    <2>3. QED
      BY <2>2 DEF Updated
  <1>2. QED
    BY <1>1, InvCorrect, PTL

\* Reading changes nothing of what is read faithfully.
LEMMA FaithfulRead ==
  ASSUME NEW x, Faithful(x)
  PROVE  ReadMembers(x.members) = x.members /\ ReadText(x.text) = x.text
  BY DEF Faithful, ReadMembers, ReadText

\* An update of a group that nobody changed since it was read changes nothing
\* but what it names.
THEOREM UnracedUpdateCorrect == GroupSpec => []UnracedUpdateKeepsRest
  <1>1. ASSUME P!CallsInv, ResourceInv PROVE UnracedUpdateKeepsRest
    <2> SUFFICES ASSUME NEW c \in Calls, op[c].kind \in {"add", "remove"},
                        applied[c] > 0, before[c] = raw[c], Faithful(before[c])
                 PROVE  /\ after[c].members \ op[c].list = before[c].members \ op[c].list
                        /\ op[c].text = Omitted => after[c].text = before[c].text
                        /\ after[c].class = before[c].class
      BY DEF UnracedUpdateKeepsRest
    <2> DEFINE o == op[c]
               e == existing[c]
               x == raw[c]
    <2>1. applied[c] = 1 /\ o \in Operation
      BY <1>1, EffectFacts
    <2>2. /\ Decision(o, e) = "write" /\ after[c] = Written(o, e)
          /\ e \in StoredObject \union {Absent}
      BY <1>1, <2>1, EffectFacts
    <2>3. /\ e # Absent
          /\ after[c].members = Updated(o, e) /\ after[c].text = Description(o, e)
          /\ after[c].class = o.class
          /\ o.resource = "service" => e.class = o.class
      BY <2>1, <2>2, WrittenShape
    <2>4. x \in StoredObject /\ e = Seen(o, x) /\ x.resource = o.resource
      BY <1>1, <2>3, EffectFacts DEF ResourceInv
    <2>5. /\ e.members = x.members /\ e.text = x.text /\ e.class = x.class
          /\ x.class # Foreign
      BY <2>1, <2>3, <2>4, SeenShape, FaithfulRead
    <2>6. after[c].members \ o.list = x.members \ o.list
      BY <2>3, <2>5 DEF Updated
    <2>7. o.text = Omitted => after[c].text = x.text
      <3>1. o.resource \notin Described => x.text = NoText
        BY <2>4, StoredShape DEF TextsOf
      <3>2. QED
        BY <2>3, <2>5, <3>1 DEF Description
    <2>8. after[c].class = x.class
      <3>1. o.class \in ClassesOf(o.resource) /\ x.class \in ClassesOf(o.resource)
        BY <2>1, <2>4, OpShape, StoredShape DEF ListKinds
      <3>2. o.resource # "service" => o.class = Plain
        BY <2>1, PlainClass DEF ListKinds
      <3>3. o.resource # "service" => x.class = Plain
        BY <2>5, <3>1 DEF ClassesOf
      <3>4. QED
        BY <2>3, <2>5, <3>2, <3>3
    <2>9. QED
      BY <2>6, <2>7, <2>8
  <1>2. QED
    BY <1>1, InvCorrect, ResourceCorrect, PTL

\* A Create replaces an object only where it is sent with "set".
THEOREM CreateCorrect == GroupSpec => []CreateReplacesOnlyServiceRsGroups
  <1>1. ASSUME P!CallsInv PROVE CreateReplacesOnlyServiceRsGroups
    <2> SUFFICES ASSUME NEW c \in Calls, op[c].kind = "create", applied[c] > 0,
                        before[c] # Absent
                 PROVE  op[c].resource \in {"service_group", "url_group"}
      BY DEF CreateReplacesOnlyServiceRsGroups
    <2>1. applied[c] = 1
      BY <1>1, EffectFacts
    <2>2. P!Accepts(Act(op[c], existing[c]), before[c])
      BY <1>1, <2>1, EffectFacts
    <2>3. QED
      BY <2>2 DEF Act, P!Accepts
  <1>2. QED
    BY <1>1, InvCorrect, PTL

\* A service that was not fit to be changed when it was read is neither updated
\* nor deleted by the call that read it; what the call replaces was read by it, or
\* written by another.
THEOREM UnfitServiceCorrect == GroupSpec => []UnfitServiceKept
  <1>1. ASSUME P!CallsInv, P!SourceInv PROVE UnfitServiceKept
    <2> SUFFICES ASSUME NEW c \in Calls, op[c].resource = "service",
                        op[c].kind # "create", applied[c] > 0
                 PROVE  /\ Fit(op[c], raw[c])
                        /\ \/ Fit(op[c], before[c])
                           \/ \E d \in Overtakers(c) : op[d].kind # "delete"
      BY DEF UnfitServiceKept
    <2>1. applied[c] = 1
      BY <1>1, EffectFacts
    <2>2. existing[c] # Absent
      BY <1>1, <2>1, EffectFacts, WrittenShape
    <2>3. /\ existing[c] = Seen(op[c], raw[c])
          /\ Readable(op[c], P!Found(raw[c])) = "read"
          /\ raw[c] \in StoredObject /\ op[c] \in Operation
      BY <1>1, <2>2, EffectFacts
    <2>4. raw[c] # Absent
      BY <1>1, <2>2, EffectFacts
    <2>5. raw[c].class # Foreign /\ existing[c].class = raw[c].class
      BY <2>2, <2>3, <2>4, SeenShape
    <2>6. raw[c].members \intersect Broken = {}
      BY <2>3, <2>5 DEF Readable, P!Found
    <2>7. op[c].kind # "delete" => existing[c].class = op[c].class
      BY <1>1, <2>1, EffectFacts, WrittenShape DEF ListKinds
    <2>8. Fit(op[c], raw[c])
      BY <2>4, <2>5, <2>6, <2>7 DEF Fit
    <2>9. before[c] # Absent
      BY <1>1, <2>1, <2>3, EffectFacts, OpShape DEF Act, P!Accepts, Kinds, ListKinds
    <2>10. ASSUME before[c] # raw[c]
           PROVE  \E d \in Overtakers(c) : op[d].kind # "delete"
      <3>1. PICK d \in Overtakers(c) : TRUE
        BY <1>1, <2>1, <2>4, <2>10, P!OvertakenOrFresh DEF Overtakers, P!Overtakers
      <3>2. d \in Calls /\ applied[d] > 0 /\ after[d] # Absent
        BY <2>9, <3>1 DEF Overtakers
      <3>3. after[d] = Written(op[d], existing[d])
        BY <1>1, <3>2, EffectFacts
      <3>4. QED
        BY <3>1, <3>2, <3>3 DEF Written
    <2>11. QED
      BY <2>8, <2>10
  <1>2. P!Spec => []P!SourceInv
    BY GroupWellFormed, P!SourceCorrect
  <1>3. QED
    BY <1>1, <1>2, InvCorrect, GroupSpecIsSpec, SameSpec, PTL

=============================================================================
