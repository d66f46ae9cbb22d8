-------------------------- MODULE TypedCallsProofs --------------------------
(***************************************************************************)
(* Proofs about TypedCalls, for any number of calls and objects and any    *)
(* resource whose operators are WellFormed: types, AnswerMatchesEffect,    *)
(* NothingResent, UnracedCallIsAtomic, RepeatChangesNothing, and that the  *)
(* calls implement ConfigStore.                                            *)
(*                                                                         *)
(* AnswerMatchesEffect says what a call has done; why it holds depends on  *)
(* what is on the wire.  CallsInv says, for each phase of a call, which    *)
(* request or reply there can be, and keeps the link from what was read to *)
(* what is written.                                                        *)
(***************************************************************************)
EXTENDS TypedCalls, TLAPS

-----------------------------------------------------------------------------
(* The premise.                                                            *)

\* What a write with each operation can do to the store.
KindsOf(act) ==
  CASE act = "add" -> {"insert"}
    [] act = "set" -> {"insert", "overwrite"}
    [] act = "update" -> {"overwrite"}
    [] act = "remove" -> {"remove"}

\* What a resource module has to get right about its operators: the premise of
\* the theorems about this module.
WellFormed ==
  /\ NoMessage \notin Request /\ NoMessage \notin Reply
  /\ Absent \notin Contents
  /\ \A o \in Operation :
       /\ o.key \in Keys
       /\ \A answer \in Reply : Readable(o, answer) \in {"read"} \union ReadErrors
       /\ \A content \in Contents : Seen(o, content) \in Entries \union {Absent}
       /\ \A e \in Entries \union {Absent} :
            /\ Decision(o, e) \in {"write", "invalid_request"} \union Answers
            /\ Decision(o, e) \in Answers => Intent(o) = {}
            /\ Decision(o, e) = "write" =>
                 /\ Act(o, e) \in WriteActs
                 /\ KindsOf(Act(o, e)) \subseteq Intent(o)
                 /\ Written(o, e) \in Contents \union {Absent}
                 /\ (Written(o, e) = Absent) <=> (Act(o, e) = "remove")
            /\ Success(o, e) \in Successes
       /\ ~Rejected(o) /\ ~Reads(o) => Decision(o, Absent) = "write"
       /\ Intent(o) \subseteq {"insert", "overwrite", "remove"}

-----------------------------------------------------------------------------
(* The inductive invariant.                                                *)

GetRequest(o) == [act |-> "get", key |-> o.key, content |-> Absent]

WriteRequest(o, e) == [act |-> Act(o, e), key |-> o.key, content |-> Written(o, e)]

\* The client's own checks let the write through.
WriteAllowed(o, e) == ~Rejected(o) /\ Decision(o, e) = "write"

NewInv(c) ==
  phase[c] = "new" =>
    /\ request[c] = NoMessage /\ reply[c] = NoMessage /\ ~waiting[c]
    /\ applied[c] = 0 /\ outcome[c] = "none" /\ existing[c] = Absent

ReadingInv(c) ==
  phase[c] = "reading" =>
    /\ waiting[c] /\ applied[c] = 0 /\ outcome[c] = "none" /\ existing[c] = Absent
    /\ ~Rejected(op[c])
    /\ request[c] \in {NoMessage, GetRequest(op[c])}
    /\ reply[c] # NoMessage =>
         /\ request[c] = NoMessage
         /\ reply[c].kind = "resource" => reply[c].content = raw[c] /\ raw[c] # Absent

WritingInv(c) ==
  phase[c] = "writing" =>
    /\ waiting[c] /\ outcome[c] = "none" /\ WriteAllowed(op[c], existing[c])
    /\ request[c] # NoMessage =>
         request[c] = WriteRequest(op[c], existing[c]) /\ reply[c] = NoMessage /\ applied[c] = 0
    /\ request[c] = NoMessage =>
         /\ reply[c] # NoMessage
         /\ reply[c].kind = "resource" => applied[c] = 1
         /\ reply[c].kind \in {"api_error", "exists", "missing", "zero_records"} =>
              applied[c] = 0

DoneInv(c) ==
  phase[c] = "done" =>
    /\ ~waiting[c] /\ reply[c] = NoMessage /\ outcome[c] # "none"
    /\ request[c] # NoMessage =>
         /\ outcome[c] = "transport" /\ applied[c] = 0
         /\ \/ request[c] = GetRequest(op[c]) /\ existing[c] = Absent
            \/ request[c] = WriteRequest(op[c], existing[c]) /\ WriteAllowed(op[c], existing[c])
    /\ outcome[c] \in Successes =>
         applied[c] = 1 /\ outcome[c] = Success(op[c], existing[c])
    /\ outcome[c] \in Refusals => applied[c] = 0
    /\ outcome[c] \in Answers => Intent(op[c]) = {}

\* What a call that changed the store has put in the place of what.
EffectInv(c) ==
  /\ applied[c] \in {0, 1}
  /\ applied[c] = 1 =>
       /\ WriteAllowed(op[c], existing[c])
       /\ after[c] = Written(op[c], existing[c])
       /\ Accepts(Act(op[c], existing[c]), before[c])

\* The answer to a Get of an object.
Found(content) == [kind |-> "resource", content |-> content]

\* What a call has seen is what it made of the store at its last Get.
ReadInv(c) ==
  existing[c] # Absent =>
    /\ raw[c] # Absent /\ existing[c] = Seen(op[c], raw[c])
    /\ Readable(op[c], Found(raw[c])) = "read"

CallInv(c) ==
  NewInv(c) /\ ReadingInv(c) /\ WritingInv(c) /\ DoneInv(c) /\ EffectInv(c) /\ ReadInv(c)

CallsInv == TypeOK /\ \A c \in Calls : CallInv(c)

-----------------------------------------------------------------------------
(* The data.                                                               *)

\* A write that the client lets through is a request, and not a Get.
LEMMA WrittenTyped ==
  ASSUME WellFormed, NEW o \in Operation, NEW e \in Entries \union {Absent},
         WriteAllowed(o, e)
  PROVE  /\ Act(o, e) \in WriteActs
         /\ KindsOf(Act(o, e)) \subseteq Intent(o)
         /\ Written(o, e) \in Contents \union {Absent}
         /\ (Written(o, e) = Absent) <=> (Act(o, e) = "remove")
         /\ WriteRequest(o, e) \in Request
         /\ WriteRequest(o, e) # NoMessage
         /\ GetRequest(o) # WriteRequest(o, e)
  <1>1. /\ Act(o, e) \in WriteActs
        /\ KindsOf(Act(o, e)) \subseteq Intent(o)
        /\ Written(o, e) \in Contents \union {Absent}
        /\ (Written(o, e) = Absent) <=> (Act(o, e) = "remove")
        /\ o.key \in Keys
    BY DEF WellFormed, WriteAllowed
  <1>2. WriteRequest(o, e) \in Request
    BY <1>1 DEF WriteRequest, Request
  <1>3. WriteRequest(o, e) # NoMessage
    BY <1>2 DEF WellFormed
  <1>4. GetRequest(o) # WriteRequest(o, e)
    BY <1>1 DEF GetRequest, WriteRequest, WriteActs
  <1>5. QED
    BY <1>1, <1>2, <1>3, <1>4

LEMMA GetRequestTyped ==
  ASSUME WellFormed, NEW o \in Operation
  PROVE  GetRequest(o) \in Request /\ GetRequest(o) # NoMessage
  <1>1. o.key \in Keys
    BY DEF WellFormed
  <1>2. GetRequest(o) \in Request
    BY <1>1 DEF GetRequest, Request
  <1>3. QED
    BY <1>2 DEF WellFormed

\* What a call makes of the answer to its Get.
LEMMA EntryTyped ==
  ASSUME WellFormed, NEW o \in Operation, NEW answer \in Reply,
         answer.kind = "resource" => answer.content # Absent
  PROVE  /\ Entry(o, answer) \in Entries \union {Absent}
         /\ ReadOutcome(o, answer) \in {"read", "api_error"} \union ReadErrors
  <1>1. answer.content \in Contents \union {Absent}
    BY DEF Reply
  <1>2. Entry(o, answer) \in Entries \union {Absent}
    BY <1>1 DEF WellFormed, Entry
  <1>3. Readable(o, answer) \in {"read"} \union ReadErrors
    BY DEF WellFormed
  <1>4. QED
    BY <1>2, <1>3 DEF ReadOutcome, ReadErrors

\* What a call decides once it has read.
LEMMA DecisionTyped ==
  ASSUME WellFormed, NEW o \in Operation, NEW e \in Entries \union {Absent}
  PROVE  /\ Decision(o, e) \in {"write", "invalid_request"} \union Answers
         /\ Decision(o, e) \in Answers => Intent(o) = {}
         /\ Success(o, e) \in Successes
  BY DEF WellFormed

\* The names of outcomes differ.
LEMMA OutcomeClasses ==
  /\ Successes \intersect Refusals = {} /\ Successes \intersect Answers = {}
  /\ Refusals \intersect Answers = {}
  /\ {"none", "response_parse", "transport", "write"} \intersect
       (Successes \union Refusals \union Answers) = {}
  /\ ReadErrors \subseteq Outcomes /\ ReadErrors \intersect Answers = {}
  /\ ReadErrors \intersect Successes = {} /\ "none" \notin ReadErrors
  BY DEF Successes, Refusals, Answers, ReadErrors, Outcomes

-----------------------------------------------------------------------------
(* Type correctness.                                                       *)

\* What a finished exchange leaves of the types.
LEMMA FinishTyped ==
  ASSUME TypeOK, NEW c \in Calls, NEW o \in Outcomes, Finish(c, o),
         UNCHANGED <<store, raw, applied, before, after, op>>,
         existing' \in [Calls -> Entries \union {Absent}]
  PROVE  TypeOK'
  BY DEF TypeOK, ExchangeTypeOK, Finish, Hangup, Return, Phases

LEMMA SubmitTyped ==
  ASSUME WellFormed, TypeOK, NEW c \in Calls, NEW e \in Entries \union {Absent},
         WriteAllowed(op[c], e), Submit(c, e),
         UNCHANGED <<store, raw, applied, before, after, op>>,
         existing' \in [Calls -> Entries \union {Absent}]
  PROVE  TypeOK'
  <1>1. op[c] \in Operation
    BY DEF TypeOK
  <1>2. [act |-> Act(op[c], e), key |-> op[c].key, content |-> Written(op[c], e)] \in Request
    BY <1>1, WrittenTyped DEF WriteRequest
  <1>3. QED
    BY <1>2 DEF TypeOK, ExchangeTypeOK, Submit, Post, Phases

LEMMA AnswerTyped ==
  ASSUME TypeOK, NEW c \in Calls, NEW kind \in ReplyKinds,
         NEW content \in Contents \union {Absent}, Answer(c, kind, content)
  PROVE  /\ request' \in [Calls -> Request \union {NoMessage}]
         /\ reply' \in [Calls -> Reply \union {NoMessage}]
         /\ waiting' \in [Calls -> BOOLEAN]
  <1>1. [kind |-> kind, content |-> content] \in Reply
    BY DEF Reply
  <1>2. QED
    BY <1>1 DEF TypeOK, ExchangeTypeOK, Answer

\* After its read a call stops, or sends its write.
LEMMA AfterRead ==
  ASSUME WellFormed, TypeOK, NEW c \in Calls, ReadingInv(c), ReadAnswered(c)
  PROVE  /\ Entry(op[c], reply[c]) \in Entries \union {Absent}
         /\ op[c] \in Operation
         /\ \/ /\ \E o \in {"api_error"} \union ReadErrors : Finish(c, o)
               /\ UNCHANGED existing
            \/ /\ existing' = [existing EXCEPT ![c] = Entry(op[c], reply[c])]
               /\ \E o \in {"invalid_request"} \union Answers :
                    Finish(c, o) /\ (o \in Answers => Intent(op[c]) = {})
            \/ /\ existing' = [existing EXCEPT ![c] = Entry(op[c], reply[c])]
               /\ WriteAllowed(op[c], Entry(op[c], reply[c]))
               /\ Submit(c, Entry(op[c], reply[c]))
  <1> DEFINE o == op[c]
             e == Entry(o, reply[c])
  <1>1. o \in Operation /\ reply[c] \in Reply
    BY DEF TypeOK, ExchangeTypeOK, ReadAnswered
  <1>2. /\ reply[c].kind = "resource" => reply[c].content # Absent
        /\ ~Rejected(o)
    BY DEF ReadingInv, ReadAnswered
  <1>3. /\ e \in Entries \union {Absent}
        /\ ReadOutcome(o, reply[c]) \in {"read", "api_error"} \union ReadErrors
    BY <1>1, <1>2, EntryTyped
  <1>4. /\ Decision(o, e) \in {"write", "invalid_request"} \union Answers
        /\ Decision(o, e) \in Answers => Intent(o) = {}
    BY <1>1, <1>3, DecisionTyped
  <1>5. CASE ReadOutcome(o, reply[c]) # "read"
    BY <1>1, <1>3, <1>5 DEF ReadAnswered
  <1>6. CASE ReadOutcome(o, reply[c]) = "read"
    <2>1. existing' = [existing EXCEPT ![c] = e]
      BY <1>6 DEF ReadAnswered
    <2>2. CASE Decision(o, e) # "write"
      <3>1. Finish(c, Decision(o, e))
        BY <1>6, <2>2 DEF ReadAnswered
      <3>2. QED
        BY <1>1, <1>3, <1>4, <2>1, <2>2, <3>1
    <2>3. CASE Decision(o, e) = "write"
      <3>1. Submit(c, e)
        BY <1>6, <2>3 DEF ReadAnswered
      <3>2. WriteAllowed(o, e)
        BY <1>2, <2>3 DEF WriteAllowed
      <3>3. QED
        BY <1>1, <1>3, <2>1, <3>1, <3>2
    <2>4. QED
      BY <2>2, <2>3
  <1>7. QED
    BY <1>5, <1>6

LEMMA TypeInit == Init => TypeOK
  BY DEF Init, ExchangeInit, TypeOK, ExchangeTypeOK, Phases, Outcomes

\* What a call does when it starts.
LEMMA Started ==
  ASSUME WellFormed, TypeOK, NEW c \in Calls, Begin(c)
  PROVE  \/ Return(c, "invalid_request") /\ UNCHANGED <<request, reply, waiting>>
         \/ /\ ~Rejected(op[c])
            /\ Post(c, "get", op[c].key, Absent)
            /\ phase' = [phase EXCEPT ![c] = "reading"] /\ UNCHANGED outcome
         \/ WriteAllowed(op[c], Absent) /\ Submit(c, Absent)
  <1>1. op[c] \in Operation
    BY DEF TypeOK
  <1>2. ~Rejected(op[c]) /\ ~Reads(op[c]) => WriteAllowed(op[c], Absent)
    BY <1>1 DEF WellFormed, WriteAllowed
  <1>3. QED
    BY <1>2 DEF Begin

LEMMA TypeBegin ==
  ASSUME WellFormed, TypeOK, NEW c \in Calls, Begin(c)
  PROVE  TypeOK'
  <1>0. UNCHANGED <<store, raw, applied, before, after, op, existing>>
    BY DEF Begin
  <1>1. CASE Return(c, "invalid_request") /\ UNCHANGED <<request, reply, waiting>>
    BY <1>0, <1>1 DEF Return, TypeOK, ExchangeTypeOK, Phases, Outcomes, Refusals
  <1>2. CASE /\ Post(c, "get", op[c].key, Absent)
             /\ phase' = [phase EXCEPT ![c] = "reading"] /\ UNCHANGED outcome
    <2>1. [act |-> "get", key |-> op[c].key, content |-> Absent] \in Request
      BY GetRequestTyped DEF TypeOK, GetRequest
    <2>2. QED
      BY <1>0, <1>2, <2>1 DEF Post, TypeOK, ExchangeTypeOK, Phases
  <1>3. CASE WriteAllowed(op[c], Absent) /\ Submit(c, Absent)
    <2>1. existing' \in [Calls -> Entries \union {Absent}]
      BY <1>0 DEF TypeOK
    <2>2. QED
      BY <1>0, <1>3, <2>1, SubmitTyped
  <1>4. QED
    BY <1>1, <1>2, <1>3, Started

LEMMA TypeReadAnswered ==
  ASSUME WellFormed, TypeOK, NEW c \in Calls, ReadingInv(c), ReadAnswered(c)
  PROVE  TypeOK'
  <1>1. Entry(op[c], reply[c]) \in Entries \union {Absent}
    BY AfterRead
  <1>2. UNCHANGED <<store, raw, applied, before, after, op>>
    BY DEF ReadAnswered
  <1>3. CASE \E o \in {"api_error"} \union ReadErrors \union Answers :
               /\ Finish(c, o)
               /\ existing' \in {existing, [existing EXCEPT ![c] = Entry(op[c], reply[c])]}
    <2>1. existing' \in [Calls -> Entries \union {Absent}]
      BY <1>1, <1>3 DEF TypeOK
    <2>2. PICK o \in Outcomes : Finish(c, o)
      BY <1>3 DEF Outcomes, ReadErrors, Refusals
    <2>3. QED
      BY <1>2, <2>1, <2>2, FinishTyped
  <1>4. CASE /\ existing' = [existing EXCEPT ![c] = Entry(op[c], reply[c])]
             /\ WriteAllowed(op[c], Entry(op[c], reply[c]))
             /\ Submit(c, Entry(op[c], reply[c]))
    <2>1. existing' \in [Calls -> Entries \union {Absent}]
      BY <1>1, <1>4 DEF TypeOK
    <2>2. QED
      BY <1>1, <1>2, <1>4, <2>1, SubmitTyped
  <1>5. "invalid_request" \in ReadErrors
    BY DEF ReadErrors
  <1>6. QED
    BY <1>3, <1>4, <1>5, AfterRead

\* What a write's answer is turned into.
LEMMA WriteOutcomeTyped ==
  ASSUME WellFormed, TypeOK, NEW c \in Calls, reply[c] # NoMessage
  PROVE  /\ WriteOutcome(c) \in Outcomes
         /\ WriteOutcome(c) # "none" /\ WriteOutcome(c) \notin Answers
         /\ WriteOutcome(c) # "transport"
         /\ WriteOutcome(c) \in Successes =>
              reply[c].kind = "resource" /\ WriteOutcome(c) = Success(op[c], existing[c])
         /\ WriteOutcome(c) \in Refusals =>
              reply[c].kind \in {"api_error", "exists", "missing", "zero_records"}
  <1>1. Success(op[c], existing[c]) \in Successes
    BY DecisionTyped DEF TypeOK
  <1>2. reply[c].kind \in ReplyKinds
    BY DEF TypeOK, ExchangeTypeOK, Reply
  <1>3. QED
    BY <1>1, <1>2 DEF WriteOutcome, Outcomes, Successes, Refusals, Answers, ReplyKinds

LEMMA TypeFirewall ==
  ASSUME TypeOK, NEW c \in Calls, FirewallStep(c)
  PROVE  TypeOK'
  <1> SUFFICES /\ store' \in [Keys -> Contents \union {Absent}]
               /\ request' \in [Calls -> Request \union {NoMessage}]
               /\ reply' \in [Calls -> Reply \union {NoMessage}]
               /\ waiting' \in [Calls -> BOOLEAN]
               /\ raw' \in [Calls -> Contents \union {Absent}]
               /\ applied' \in [Calls -> Nat]
               /\ before' \in [Calls -> Contents \union {Absent}]
               /\ after' \in [Calls -> Contents \union {Absent}]
    BY DEF FirewallStep, callVars, TypeOK, ExchangeTypeOK
  <1>1. CASE ProcessGet(c)
    <2>1. store[request[c].key] \in Contents \union {Absent}
      BY <1>1 DEF ProcessGet, TypeOK, ExchangeTypeOK, Request
    <2>2. \E kind \in ReplyKinds, content \in Contents \union {Absent} :
            Answer(c, kind, content)
      BY <1>1, <2>1 DEF ProcessGet, ReplyKinds
    <2>3. QED
      BY <1>1, <2>1, <2>2, AnswerTyped DEF ProcessGet, TypeOK, ExchangeTypeOK
  <1>2. CASE ProcessWrite(c)
    <2>1. request[c] \in Request
      BY <1>2 DEF ProcessWrite, TypeOK, ExchangeTypeOK
    <2>2. /\ request[c].key \in Keys
          /\ store[request[c].key] \in Contents \union {Absent}
          /\ request[c].content \in Contents \union {Absent}
      BY <2>1 DEF Request, TypeOK, ExchangeTypeOK
    <2>3. \E kind \in ReplyKinds, content \in Contents \union {Absent} :
            Answer(c, kind, content)
      BY <1>2 DEF ProcessWrite, ReplyKinds
    <2>4. \E new \in Contents \union {Absent} :
            /\ store' = [store EXCEPT ![request[c].key] = new]
            /\ applied' = [applied EXCEPT ![c] = applied[c] + 1]
            /\ before' = [before EXCEPT ![c] = store[request[c].key]]
            /\ after' = [after EXCEPT ![c] = new]
            /\ raw' = raw
      BY <1>2, <2>2 DEF ProcessWrite
    <2>5. /\ store' \in [Keys -> Contents \union {Absent}]
          /\ raw' \in [Calls -> Contents \union {Absent}]
          /\ applied' \in [Calls -> Nat]
          /\ before' \in [Calls -> Contents \union {Absent}]
          /\ after' \in [Calls -> Contents \union {Absent}]
      BY <2>2, <2>4 DEF TypeOK, ExchangeTypeOK
    <2>6. QED
      BY <2>3, <2>5, AnswerTyped
  <1>3. CASE RefuseWrite(c)
    <2>1. \E kind \in ReplyKinds, content \in Contents \union {Absent} :
            Answer(c, kind, content)
      BY <1>3 DEF RefuseWrite, ReplyKinds
    <2>2. QED
      BY <1>3, <2>1, AnswerTyped DEF RefuseWrite, TypeOK, ExchangeTypeOK
  <1>4. CASE RefuseOther(c)
    <2>1. \E kind \in ReplyKinds, content \in Contents \union {Absent} :
            Answer(c, kind, content)
      BY <1>4 DEF RefuseOther, ReplyKinds
    <2>2. QED
      BY <1>4, <2>1, AnswerTyped DEF RefuseOther, TypeOK, ExchangeTypeOK
  <1>5. QED
    BY <1>1, <1>2, <1>3, <1>4 DEF FirewallStep, Firewall

LEMMA TypeStep ==
  ASSUME WellFormed, CallsInv, [Next]_vars
  PROVE  TypeOK'
  <1>0. TypeOK /\ \A c \in Calls : ReadingInv(c)
    BY DEF CallsInv, CallInv
  <1>1. ASSUME NEW c \in Calls, Begin(c) PROVE TypeOK'
    BY <1>0, <1>1, TypeBegin
  <1>2. ASSUME NEW c \in Calls, ReadAnswered(c) PROVE TypeOK'
    BY <1>0, <1>2, TypeReadAnswered
  <1>3. ASSUME NEW c \in Calls, WriteAnswered(c) PROVE TypeOK'
    <2>1. WriteOutcome(c) \in Outcomes
      BY <1>0, <1>3, WriteOutcomeTyped DEF WriteAnswered
    <2>2. existing' \in [Calls -> Entries \union {Absent}]
      BY <1>0, <1>3 DEF WriteAnswered, TypeOK
    <2>3. Finish(c, WriteOutcome(c)) /\ UNCHANGED <<store, raw, applied, before, after, op>>
      BY <1>3 DEF WriteAnswered
    <2>4. QED
      BY <1>0, <1>3, <2>1, <2>2, <2>3, FinishTyped
  <1>4. ASSUME NEW c \in Calls, TransportError(c) PROVE TypeOK'
    <2>1. existing' \in [Calls -> Entries \union {Absent}]
      BY <1>0, <1>4 DEF TransportError, TypeOK
    <2>2. /\ Finish(c, "transport") /\ "transport" \in Outcomes
          /\ UNCHANGED <<store, raw, applied, before, after, op>>
      BY <1>4 DEF TransportError, Outcomes
    <2>3. QED
      BY <1>0, <1>4, <2>1, <2>2, FinishTyped
  <1>5. ASSUME NEW c \in Calls, FirewallStep(c) PROVE TypeOK'
    BY <1>0, <1>5, TypeFirewall
  <1>6. CASE UNCHANGED vars
    BY <1>0, <1>6 DEF vars, TypeOK, ExchangeTypeOK
  <1>7. QED
    BY <1>1, <1>2, <1>3, <1>4, <1>5, <1>6 DEF Next

-----------------------------------------------------------------------------
(* CallsInv is inductive.                                                  *)

\* Nothing of call d has changed.
Kept(d) ==
  /\ op'[d] = op[d] /\ phase'[d] = phase[d]
  /\ existing'[d] = existing[d] /\ outcome'[d] = outcome[d]
  /\ request'[d] = request[d] /\ reply'[d] = reply[d] /\ waiting'[d] = waiting[d]
  /\ raw'[d] = raw[d] /\ applied'[d] = applied[d]
  /\ before'[d] = before[d] /\ after'[d] = after[d]

LEMMA KeptInv ==
  ASSUME NEW d \in Calls, CallInv(d), Kept(d)
  PROVE  CallInv(d)'
  <1>1. NewInv(d)'
    BY DEF CallInv, Kept, NewInv
  <1>2. ReadingInv(d)'
    BY DEF CallInv, Kept, ReadingInv
  <1>3. WritingInv(d)'
    BY DEF CallInv, Kept, WritingInv
  <1>4. DoneInv(d)'
    BY DEF CallInv, Kept, DoneInv
  <1>5. EffectInv(d)' /\ ReadInv(d)'
    BY DEF CallInv, Kept, EffectInv, ReadInv
  <1>6. QED
    BY <1>1, <1>2, <1>3, <1>4, <1>5 DEF CallInv

\* A step of one call leaves the others alone.
LEMMA OthersKept ==
  ASSUME TypeOK, NEW c \in Calls, NEW d \in Calls, c # d,
         \/ Begin(c) \/ ReadAnswered(c) \/ WriteAnswered(c) \/ TransportError(c)
         \/ FirewallStep(c)
  PROVE  Kept(d)
  <1> USE DEF TypeOK, ExchangeTypeOK, Kept
  <1>1. CASE Begin(c)
    BY <1>1 DEF Begin, Return, Post, Submit
  <1>2. CASE ReadAnswered(c)
    <2>1. op'[d] = op[d] /\ UNCHANGED <<raw, applied, before, after>>
      BY <1>2 DEF ReadAnswered
    <2>2. \/ UNCHANGED existing
          \/ existing' = [existing EXCEPT ![c] = Entry(op[c], reply[c])]
      BY <1>2 DEF ReadAnswered
    <2>3. (\E o : Finish(c, o)) \/ (\E e : Submit(c, e))
      BY <1>2 DEF ReadAnswered
    <2>4. QED
      BY <2>1, <2>2, <2>3 DEF Finish, Hangup, Return, Submit, Post
  <1>3. CASE WriteAnswered(c)
    BY <1>3 DEF WriteAnswered, Finish, Hangup, Return
  <1>4. CASE TransportError(c)
    BY <1>4 DEF TransportError, Finish, Hangup, Return
  <1>5. CASE FirewallStep(c)
    BY <1>5 DEF FirewallStep, callVars, Firewall, ProcessGet, ProcessWrite,
                RefuseWrite, RefuseOther, Answer
  <1>6. QED
    BY <1>1, <1>2, <1>3, <1>4, <1>5

LEMMA InvInit == Init => CallsInv
  <1> SUFFICES ASSUME Init, NEW c \in Calls PROVE CallInv(c)
    BY TypeInit DEF CallsInv
  <1>1. QED
    BY DEF Init, ExchangeInit, CallInv, NewInv, ReadingInv, WritingInv, DoneInv,
           EffectInv, ReadInv

\* A call that sends its write: what must hold of it then.
LEMMA SubmittedInv ==
  ASSUME WellFormed, TypeOK, NEW c \in Calls, NEW e \in Entries \union {Absent},
         WriteAllowed(op[c], e), Submit(c, e),
         UNCHANGED <<store, raw, applied, before, after, op>>,
         existing'[c] = e, EffectInv(c)', ReadInv(c)',
         applied[c] = 0, outcome[c] = "none"
  PROVE  CallInv(c)'
  <1>1. op[c] \in Operation
    BY DEF TypeOK
  <1>2. /\ phase'[c] = "writing" /\ waiting'[c] /\ reply'[c] = NoMessage
        /\ request'[c] = WriteRequest(op[c], e)
        /\ outcome' = outcome
    BY DEF Submit, Post, TypeOK, ExchangeTypeOK, WriteRequest
  <1>3. WriteRequest(op[c], e) # NoMessage
    BY <1>1, WrittenTyped
  <1>4. WritingInv(c)'
    BY <1>2, <1>3 DEF WritingInv
  <1>5. QED
    BY <1>2, <1>4 DEF CallInv, NewInv, ReadingInv, DoneInv

LEMMA BeginInv ==
  ASSUME WellFormed, TypeOK, NEW c \in Calls, CallInv(c), Begin(c)
  PROVE  CallInv(c)'
  <1>1. /\ request[c] = NoMessage /\ reply[c] = NoMessage /\ ~waiting[c]
        /\ applied[c] = 0 /\ outcome[c] = "none" /\ existing[c] = Absent
    BY DEF CallInv, Begin, NewInv
  <1>2. UNCHANGED <<store, raw, applied, before, after, op, existing>>
    BY DEF Begin
  <1>3. EffectInv(c)' /\ ReadInv(c)'
    BY <1>1, <1>2 DEF EffectInv, ReadInv
  <1>4. CASE Return(c, "invalid_request") /\ UNCHANGED <<request, reply, waiting>>
    <2>1. phase'[c] = "done" /\ outcome'[c] = "invalid_request"
      BY <1>4 DEF Return, TypeOK
    <2>2. DoneInv(c)'
      BY <1>1, <1>2, <1>4, <2>1 DEF DoneInv, Successes, Answers
    <2>3. QED
      BY <1>3, <2>1, <2>2 DEF CallInv, NewInv, ReadingInv, WritingInv
  <1>5. CASE /\ ~Rejected(op[c])
             /\ Post(c, "get", op[c].key, Absent)
             /\ phase' = [phase EXCEPT ![c] = "reading"] /\ UNCHANGED outcome
    <2>1. /\ phase'[c] = "reading" /\ waiting'[c] /\ reply'[c] = NoMessage
          /\ request'[c] = GetRequest(op[c])
      BY <1>5 DEF Post, TypeOK, ExchangeTypeOK, GetRequest
    <2>2. ReadingInv(c)'
      BY <1>1, <1>2, <1>5, <2>1 DEF ReadingInv
    <2>3. QED
      BY <1>3, <2>1, <2>2 DEF CallInv, NewInv, DoneInv, WritingInv
  <1>6. CASE WriteAllowed(op[c], Absent) /\ Submit(c, Absent)
    <2>1. existing'[c] = Absent
      BY <1>1, <1>2
    <2>2. QED
      BY <1>1, <1>2, <1>3, <1>6, <2>1, SubmittedInv
  <1>7. QED
    BY <1>4, <1>5, <1>6, Started

\* A call that returns is done: what must hold of it then.
LEMMA FinishedInv ==
  ASSUME TypeOK, NEW c \in Calls, NEW o \in Outcomes, Finish(c, o),
         UNCHANGED <<store, raw, applied, before, after, op>>,
         EffectInv(c)', ReadInv(c)',
         o # "none",
         request[c] # NoMessage =>
           /\ o = "transport" /\ applied[c] = 0
           /\ \/ request[c] = GetRequest(op[c]) /\ existing'[c] = Absent
              \/ request[c] = WriteRequest(op[c], existing'[c]) /\ WriteAllowed(op[c], existing'[c]),
         o \in Successes => applied[c] = 1 /\ o = Success(op[c], existing'[c]),
         o \in Refusals => applied[c] = 0,
         o \in Answers => Intent(op[c]) = {}
  PROVE  CallInv(c)'
  <1>1. /\ phase'[c] = "done" /\ outcome'[c] = o /\ ~waiting'[c]
        /\ reply'[c] = NoMessage /\ request' = request
    BY DEF Finish, Hangup, Return, TypeOK, ExchangeTypeOK
  <1>2. DoneInv(c)'
    BY <1>1 DEF DoneInv
  <1>3. QED
    BY <1>1, <1>2 DEF CallInv, NewInv, ReadingInv, WritingInv

LEMMA ReadAnsweredInv ==
  ASSUME WellFormed, TypeOK, NEW c \in Calls, CallInv(c), ReadAnswered(c)
  PROVE  CallInv(c)'
  <1> DEFINE e == Entry(op[c], reply[c])
  <1>1. /\ applied[c] = 0 /\ existing[c] = Absent /\ outcome[c] = "none"
        /\ request[c] = NoMessage
        /\ reply[c].kind = "resource" => reply[c].content = raw[c] /\ raw[c] # Absent
    BY DEF CallInv, ReadingInv, ReadAnswered
  <1>2. UNCHANGED <<store, raw, applied, before, after, op>>
    BY DEF ReadAnswered
  <1>3. EffectInv(c)'
    BY <1>1, <1>2 DEF EffectInv
  <1>4. e # Absent => raw[c] # Absent /\ e = Seen(op[c], raw[c])
    BY <1>1 DEF Entry
  <1>4a. ASSUME existing'[c] = e, e # Absent
         PROVE  Readable(op[c], Found(raw[c])) = "read"
    <2>1. ReadOutcome(op[c], reply[c]) = "read"
      BY <1>1, <1>4a DEF ReadAnswered
    <2>2. reply[c].kind = "resource" /\ reply[c].content = raw[c]
      BY <1>1, <1>4a DEF Entry
    <2>3. reply[c] = Found(raw[c])
      <3>1. reply[c] \in Reply
        BY DEF TypeOK, ExchangeTypeOK, ReadAnswered
      <3>2. QED
        BY <2>2, <3>1 DEF Reply, Found
    <2>4. ReadOutcome(op[c], reply[c]) = Readable(op[c], reply[c])
      BY <2>2 DEF ReadOutcome
    <2>5. QED
      BY <2>1, <2>3, <2>4
  <1>5. ASSUME NEW o \in {"api_error"} \union ReadErrors \union Answers, Finish(c, o),
               o \in Answers => Intent(op[c]) = {}, ReadInv(c)'
        PROVE  CallInv(c)'
    <2>1. /\ o \in Outcomes /\ o # "none" /\ o \notin Successes
      BY OutcomeClasses DEF Outcomes, Refusals, Successes, ReadErrors, Answers
    <2>2. QED
      BY <1>1, <1>2, <1>3, <1>5, <2>1, FinishedInv
  <1>6. "invalid_request" \in ReadErrors
    BY DEF ReadErrors
  <1>7. CASE UNCHANGED existing /\ \E o \in {"api_error"} \union ReadErrors : Finish(c, o)
    <2>1. PICK o \in {"api_error"} \union ReadErrors : Finish(c, o)
      BY <1>7
    <2>2. ReadInv(c)'
      BY <1>1, <1>7 DEF ReadInv
    <2>3. o \notin Answers
      BY OutcomeClasses DEF Refusals
    <2>4. QED
      BY <1>5, <2>1, <2>2, <2>3
  <1>8. CASE /\ existing' = [existing EXCEPT ![c] = e]
             /\ \E o \in {"invalid_request"} \union Answers :
                  Finish(c, o) /\ (o \in Answers => Intent(op[c]) = {})
    <2>1. PICK o \in {"invalid_request"} \union Answers :
            Finish(c, o) /\ (o \in Answers => Intent(op[c]) = {})
      BY <1>8
    <2>2. existing'[c] = e
      BY <1>8 DEF TypeOK
    <2>3. ReadInv(c)'
      BY <1>2, <1>4, <1>4a, <2>2 DEF ReadInv
    <2>4. QED
      BY <1>5, <1>6, <2>1, <2>3
  <1>9. CASE /\ existing' = [existing EXCEPT ![c] = e]
             /\ WriteAllowed(op[c], e) /\ Submit(c, e)
    <2>1. existing'[c] = e
      BY <1>9 DEF TypeOK
    <2>2. ReadInv(c)'
      BY <1>2, <1>4, <1>4a, <2>1 DEF ReadInv
    <2>3. e \in Entries \union {Absent}
      BY AfterRead DEF CallInv
    <2>4. QED
      BY <1>1, <1>2, <1>3, <1>9, <2>1, <2>2, <2>3, SubmittedInv
  <1>10. QED
    BY <1>7, <1>8, <1>9, AfterRead DEF CallInv

LEMMA WriteAnsweredInv ==
  ASSUME WellFormed, TypeOK, NEW c \in Calls, CallInv(c), WriteAnswered(c)
  PROVE  CallInv(c)'
  <1>1. /\ Finish(c, WriteOutcome(c)) /\ reply[c] # NoMessage
        /\ UNCHANGED <<store, raw, applied, before, after, op, existing>>
    BY DEF WriteAnswered
  <1>2. /\ request[c] = NoMessage
        /\ reply[c].kind = "resource" => applied[c] = 1
        /\ reply[c].kind \in {"api_error", "exists", "missing", "zero_records"} => applied[c] = 0
    BY DEF CallInv, WritingInv, WriteAnswered
  <1>3. EffectInv(c)' /\ ReadInv(c)'
    BY <1>1 DEF CallInv, EffectInv, ReadInv
  <1>4. /\ WriteOutcome(c) \in Outcomes
        /\ WriteOutcome(c) # "none" /\ WriteOutcome(c) \notin Answers
        /\ WriteOutcome(c) \in Successes =>
             applied[c] = 1 /\ WriteOutcome(c) = Success(op[c], existing'[c])
        /\ WriteOutcome(c) \in Refusals => applied[c] = 0
    BY <1>1, <1>2, WriteOutcomeTyped
  <1>5. QED
    BY <1>1, <1>2, <1>3, <1>4, FinishedInv

LEMMA TransportErrorInv ==
  ASSUME TypeOK, NEW c \in Calls, CallInv(c), TransportError(c)
  PROVE  CallInv(c)'
  <1>1. /\ Finish(c, "transport") /\ "transport" \in Outcomes
        /\ UNCHANGED <<store, raw, applied, before, after, op, existing>>
    BY DEF TransportError, Outcomes
  <1>2. EffectInv(c)' /\ ReadInv(c)'
    BY <1>1 DEF CallInv, EffectInv, ReadInv
  <1>3. request[c] # NoMessage =>
          /\ applied[c] = 0
          /\ \/ request[c] = GetRequest(op[c]) /\ existing[c] = Absent
             \/ request[c] = WriteRequest(op[c], existing[c]) /\ WriteAllowed(op[c], existing[c])
    BY DEF CallInv, ReadingInv, WritingInv, TransportError
  <1>4. "transport" \notin Successes \union Refusals \union Answers
    BY DEF Successes, Refusals, Answers
  <1>5. QED
    BY <1>1, <1>2, <1>3, <1>4, FinishedInv

\* Which call has a request the firewall can process.
LEMMA PendingRequest ==
  ASSUME WellFormed, TypeOK, NEW c \in Calls, CallInv(c), request[c] # NoMessage
  PROVE  /\ applied[c] = 0
         /\ phase[c] \in {"reading", "writing", "done"}
         /\ \/ /\ request[c] = GetRequest(op[c]) /\ existing[c] = Absent
               /\ phase[c] # "writing"
            \/ /\ request[c] = WriteRequest(op[c], existing[c])
               /\ WriteAllowed(op[c], existing[c])
               /\ phase[c] # "reading"
               /\ request[c].act \in WriteActs
               /\ request[c].act = Act(op[c], existing[c])
               /\ request[c].content = Written(op[c], existing[c])
               /\ request[c].key = op[c].key
  <1>1. phase[c] \in Phases /\ op[c] \in Operation /\ existing[c] \in Entries \union {Absent}
    BY DEF TypeOK
  <1>2. phase[c] # "new"
    BY DEF CallInv, NewInv
  <1>3. CASE phase[c] = "reading"
    BY <1>3 DEF CallInv, ReadingInv
  <1>4. ASSUME request[c] = WriteRequest(op[c], existing[c]), WriteAllowed(op[c], existing[c])
        PROVE  /\ request[c].act \in WriteActs
               /\ request[c].act = Act(op[c], existing[c])
               /\ request[c].content = Written(op[c], existing[c])
               /\ request[c].key = op[c].key
    BY <1>1, <1>4, WrittenTyped DEF WriteRequest
  <1>5. CASE phase[c] = "writing"
    BY <1>4, <1>5 DEF CallInv, WritingInv
  <1>6. CASE phase[c] = "done"
    BY <1>4, <1>6 DEF CallInv, DoneInv
  <1>7. QED
    BY <1>1, <1>2, <1>3, <1>5, <1>6 DEF Phases

\* The firewall answers a request: what must hold of its effect.
LEMMA AnsweredInv ==
  ASSUME WellFormed, TypeOK, NEW c \in Calls, CallInv(c), request[c] # NoMessage,
         UNCHANGED callVars,
         NEW kind \in ReplyKinds, NEW content \in Contents \union {Absent},
         Answer(c, kind, content),
         EffectInv(c)', ReadInv(c)',
         phase[c] = "reading" =>
           /\ applied'[c] = 0
           /\ kind = "resource" => content = raw'[c] /\ raw'[c] # Absent,
         phase[c] = "writing" =>
           /\ kind = "resource" => applied'[c] = 1
           /\ kind \in {"api_error", "exists", "missing", "zero_records"} => applied'[c] = 0
  PROVE  CallInv(c)'
  <1>1. /\ op' = op /\ phase' = phase /\ existing' = existing /\ outcome' = outcome
        /\ waiting' = waiting /\ request'[c] = NoMessage
        /\ reply'[c] = IF waiting[c] THEN [kind |-> kind, content |-> content] ELSE NoMessage
    BY DEF Answer, callVars, TypeOK, ExchangeTypeOK
  <1>2. [kind |-> kind, content |-> content] # NoMessage
    BY DEF WellFormed, Reply
  <1>3. phase[c] \in {"reading", "writing", "done"}
    BY PendingRequest
  <1>4. CASE phase[c] = "reading"
    <2>1. waiting[c] /\ outcome[c] = "none" /\ existing[c] = Absent /\ ~Rejected(op[c])
      BY <1>4 DEF CallInv, ReadingInv
    <2>2. ReadingInv(c)'
      BY <1>1, <1>2, <1>4, <2>1 DEF ReadingInv
    <2>3. QED
      BY <1>1, <1>4, <2>2 DEF CallInv, NewInv, WritingInv, DoneInv
  <1>5. CASE phase[c] = "writing"
    <2>1. waiting[c] /\ outcome[c] = "none" /\ WriteAllowed(op[c], existing[c])
      BY <1>5 DEF CallInv, WritingInv
    <2>2. WritingInv(c)'
      BY <1>1, <1>2, <1>5, <2>1 DEF WritingInv
    <2>3. QED
      BY <1>1, <1>5, <2>2 DEF CallInv, NewInv, ReadingInv, DoneInv
  <1>6. CASE phase[c] = "done"
    <2>1. ~waiting[c] /\ outcome[c] = "transport"
      BY <1>6 DEF CallInv, DoneInv
    <2>2. DoneInv(c)'
      BY <1>1, <2>1 DEF DoneInv, Successes, Refusals, Answers
    <2>3. QED
      BY <1>1, <1>6, <2>2 DEF CallInv, NewInv, ReadingInv, WritingInv
  <1>7. QED
    BY <1>3, <1>4, <1>5, <1>6

LEMMA ProcessGetInv ==
  ASSUME WellFormed, TypeOK, NEW c \in Calls, CallInv(c), UNCHANGED callVars, ProcessGet(c)
  PROVE  CallInv(c)'
  <1> DEFINE stored == store[request[c].key]
  <1>1. /\ applied[c] = 0 /\ existing[c] = Absent /\ phase[c] # "writing"
        /\ request[c] \in Request /\ request[c] # NoMessage
    BY PendingRequest DEF ProcessGet, WriteActs, TypeOK, ExchangeTypeOK
  <1>2. stored \in Contents \union {Absent}
    BY <1>1 DEF Request, TypeOK, ExchangeTypeOK
  <1>3. UNCHANGED <<applied, before, after>> /\ raw'[c] = stored
    BY DEF ProcessGet, TypeOK, ExchangeTypeOK
  <1>4. EffectInv(c)' /\ ReadInv(c)'
    BY <1>1, <1>3 DEF EffectInv, ReadInv, callVars
  <1>5. PICK kind \in {"zero_records", "resource"}, content \in {Absent, stored} :
          Answer(c, kind, content) /\ (kind = "resource" => content = stored /\ stored # Absent)
    BY DEF ProcessGet
  <1>6. kind \in ReplyKinds /\ content \in Contents \union {Absent}
    BY <1>2 DEF ReplyKinds
  <1>7. QED
    BY <1>1, <1>3, <1>4, <1>5, <1>6, AnsweredInv

LEMMA ProcessWriteInv ==
  ASSUME WellFormed, TypeOK, NEW c \in Calls, CallInv(c), UNCHANGED callVars, ProcessWrite(c)
  PROVE  CallInv(c)'
  <1> DEFINE o == op[c]
             e == existing[c]
             stored == store[request[c].key]
  <1>0. request[c] # NoMessage /\ request[c].act \in WriteActs
    BY DEF ProcessWrite
  <1>1. /\ applied[c] = 0 /\ WriteAllowed(o, e) /\ phase[c] # "reading"
        /\ request[c] # NoMessage
        /\ request[c].act = Act(o, e) /\ request[c].content = Written(o, e)
    <2>1. request[c] # GetRequest(o)
      BY <1>0 DEF GetRequest, WriteActs
    <2>2. QED
      BY <1>0, <2>1, PendingRequest
  <1>2. o \in Operation /\ e \in Entries \union {Absent}
    BY DEF TypeOK
  <1>3. (IF request[c].act = "remove" THEN Absent ELSE request[c].content) = Written(o, e)
    BY <1>1, <1>2, WrittenTyped
  <1>4. /\ Accepts(Act(o, e), stored)
        /\ applied' = [applied EXCEPT ![c] = applied[c] + 1]
        /\ before' = [before EXCEPT ![c] = stored]
        /\ after' = [after EXCEPT ![c] = Written(o, e)]
        /\ raw' = raw
    BY <1>1, <1>3 DEF ProcessWrite
  <1>5. applied'[c] = 1 /\ before'[c] = stored /\ after'[c] = Written(o, e)
    BY <1>1, <1>4 DEF TypeOK, ExchangeTypeOK
  <1>6. UNCHANGED <<op, existing>>
    BY DEF callVars
  <1>7. EffectInv(c)' /\ ReadInv(c)'
    BY <1>1, <1>4, <1>5, <1>6 DEF CallInv, EffectInv, ReadInv
  <1>8. PICK kind \in {"resource", "parse_error"} : Answer(c, kind, Absent)
    BY DEF ProcessWrite
  <1>9. kind \in ReplyKinds
    BY DEF ReplyKinds
  <1>10. QED
    BY <1>1, <1>5, <1>7, <1>8, <1>9, AnsweredInv

LEMMA RefusedInv ==
  ASSUME WellFormed, TypeOK, NEW c \in Calls, CallInv(c), UNCHANGED callVars,
         RefuseWrite(c) \/ RefuseOther(c)
  PROVE  CallInv(c)'
  <1>1. applied[c] = 0 /\ request[c] # NoMessage
    BY PendingRequest DEF RefuseWrite, RefuseOther
  <1>2. UNCHANGED <<raw, applied, before, after>>
    BY DEF RefuseWrite, RefuseOther
  <1>3. EffectInv(c)' /\ ReadInv(c)'
    BY <1>2 DEF CallInv, EffectInv, ReadInv, callVars
  <1>4. PICK kind \in ReplyKinds \ {"resource"} : Answer(c, kind, Absent)
    BY DEF RefuseWrite, RefuseOther, ReplyKinds
  <1>5. QED
    BY <1>1, <1>2, <1>3, <1>4, AnsweredInv

LEMMA InvStep == ASSUME WellFormed PROVE CallsInv /\ [Next]_vars => CallsInv'
  <1> SUFFICES ASSUME CallsInv, [Next]_vars PROVE CallsInv'
    OBVIOUS
  <1>1. TypeOK /\ TypeOK'
    BY TypeStep DEF CallsInv
  <1>2. CASE UNCHANGED vars
    <2>1. ASSUME NEW d \in Calls PROVE CallInv(d)'
      <3>1. Kept(d)
        BY <1>2 DEF Kept, vars
      <3>2. QED
        BY <2>1, <3>1, KeptInv DEF CallsInv
    <2>2. QED
      BY <1>1, <2>1 DEF CallsInv
  <1>3. CASE Next
    <2>1. PICK c \in Calls : \/ Begin(c) \/ ReadAnswered(c) \/ WriteAnswered(c)
                             \/ TransportError(c) \/ FirewallStep(c)
      BY <1>3 DEF Next
    <2>2. CallInv(c)
      BY DEF CallsInv
    <2>3. CallInv(c)'
      <3>1. CASE Begin(c)
        BY <1>1, <2>2, <3>1, BeginInv
      <3>2. CASE ReadAnswered(c)
        BY <1>1, <2>2, <3>2, ReadAnsweredInv
      <3>3. CASE WriteAnswered(c)
        BY <1>1, <2>2, <3>3, WriteAnsweredInv
      <3>4. CASE TransportError(c)
        BY <1>1, <2>2, <3>4, TransportErrorInv
      <3>5. CASE FirewallStep(c)
        <4>1. UNCHANGED callVars
          BY <3>5 DEF FirewallStep
        <4>2. ProcessGet(c) \/ ProcessWrite(c) \/ RefuseWrite(c) \/ RefuseOther(c)
          BY <3>5 DEF FirewallStep, Firewall
        <4>3. QED
          BY <1>1, <2>2, <4>1, <4>2, ProcessGetInv, ProcessWriteInv, RefusedInv
      <3>6. QED
        BY <2>1, <3>1, <3>2, <3>3, <3>4, <3>5
    <2>4. ASSUME NEW d \in Calls, d # c PROVE CallInv(d)'
      <3>1. Kept(d)
        BY <1>1, <2>1, <2>4, OthersKept
      <3>2. QED
        BY <2>4, <3>1, KeptInv DEF CallsInv
    <2>5. QED
      BY <1>1, <2>3, <2>4 DEF CallsInv
  <1>4. QED
    BY <1>2, <1>3

\* What is on the wire for a call, and what the call has done, fit its phase.
THEOREM InvCorrect == ASSUME WellFormed PROVE Spec => []CallsInv
  <1>1. Init => CallsInv
    BY InvInit
  <1>2. CallsInv /\ [Next]_vars => CallsInv'
    BY InvStep
  <1>3. QED
    BY <1>1, <1>2, PTL DEF Spec

\* Requests and replies on the wire are well formed, and what a call has read
\* of the store is an entry the client can represent.
THEOREM TypeCorrect == ASSUME WellFormed PROVE Spec => []TypeOK
  <1>1. CallsInv => TypeOK
    BY DEF CallsInv
  <1>2. Spec => []CallsInv
    BY InvCorrect
  <1>3. QED
    BY <1>1, <1>2, PTL

-----------------------------------------------------------------------------
(* What follows.                                                           *)

LEMMA EffectFacts ==
  ASSUME CallsInv, NEW c \in Calls
  PROVE  /\ CallInv(c) /\ op[c] \in Operation /\ phase[c] \in Phases
         /\ existing[c] \in Entries \union {Absent}
         /\ raw[c] \in Contents \union {Absent}
         /\ before[c] \in Contents \union {Absent}
         /\ applied[c] \in {0, 1}
         /\ applied[c] = 1 => /\ WriteAllowed(op[c], existing[c])
                              /\ after[c] = Written(op[c], existing[c])
                              /\ Accepts(Act(op[c], existing[c]), before[c])
         /\ outcome[c] \in Successes =>
              applied[c] = 1 /\ outcome[c] = Success(op[c], existing[c])
         /\ existing[c] # Absent =>
              /\ raw[c] # Absent /\ existing[c] = Seen(op[c], raw[c])
              /\ Readable(op[c], Found(raw[c])) = "read"
  <1>1. CallInv(c) /\ TypeOK
    BY DEF CallsInv
  <1>2. outcome[c] \in Successes => phase[c] = "done"
    BY <1>1 DEF TypeOK, CallInv, NewInv, ReadingInv, WritingInv, Phases, Successes
  <1>3. outcome[c] \in Successes =>
          applied[c] = 1 /\ outcome[c] = Success(op[c], existing[c])
    BY <1>1, <1>2 DEF CallInv, DoneInv
  <1>4. QED
    BY <1>1, <1>3 DEF TypeOK, ExchangeTypeOK, CallInv, EffectInv, ReadInv

\* What a write that took effect can have done, by its operation.
LEMMA EffectKind ==
  ASSUME WellFormed, CallsInv, NEW c \in Calls, applied[c] = 1
  PROVE  Config!KindOf(before[c], after[c]) \in Intent(op[c])
  <1> DEFINE act == Act(op[c], existing[c])
  <1>1. /\ act \in WriteActs /\ KindsOf(act) \subseteq Intent(op[c])
        /\ (after[c] = Absent) <=> (act = "remove")
        /\ Accepts(act, before[c])
    BY EffectFacts, WrittenTyped
  <1>2. Config!KindOf(before[c], after[c]) \in KindsOf(act)
    BY <1>1 DEF WriteActs, KindsOf, Accepts, Config!KindOf
  <1>3. QED
    BY <1>1, <1>2

\* A call reports success only if it has changed the firewall, exactly once,
\* and a refusal only if it has not and cannot any more.
THEOREM AnswerCorrect == ASSUME WellFormed PROVE Spec => []AnswerMatchesEffect
  <1>1. ASSUME CallsInv PROVE AnswerMatchesEffect
    <2> SUFFICES ASSUME NEW c \in Calls
                 PROVE  /\ applied[c] <= 1
                        /\ Intent(op[c]) = {} => applied[c] = 0
                        /\ phase[c] = "done" /\ outcome[c] \in Successes => applied[c] = 1
                        /\ phase[c] = "done" /\ outcome[c] \in Refusals =>
                             applied[c] = 0 /\ request[c] = NoMessage
      BY DEF AnswerMatchesEffect
    <2>1. applied[c] \in {0, 1}
      BY <1>1, EffectFacts
    <2>2. applied[c] = 1 => Intent(op[c]) # {}
      BY <1>1, EffectKind
    <2>3. phase[c] = "done" => DoneInv(c)
      BY <1>1, EffectFacts DEF CallInv
    <2>4. "transport" \notin Refusals
      BY DEF Refusals
    <2>5. QED
      BY <2>1, <2>2, <2>3, <2>4 DEF DoneInv
  <1>2. Spec => []CallsInv
    BY InvCorrect
  <1>3. QED
    BY <1>1, <1>2, PTL

-----------------------------------------------------------------------------
(* What a call sends.                                                      *)

\* Only a new call, or one that has read, posts a request.
LEMMA PostedOnce ==
  ASSUME WellFormed, CallsInv, NEW c \in Calls,
         \/ Begin(c) \/ ReadAnswered(c) \/ WriteAnswered(c) \/ TransportError(c)
         \/ FirewallStep(c),
         request'[c] \notin {request[c], NoMessage}
  PROVE  /\ request[c] = NoMessage /\ applied[c] = 0
         /\ phase[c] \in {"new", "reading"}
         /\ phase[c] = "reading" => request'[c].act # "get"
  <1>1. TypeOK /\ CallInv(c)
    BY DEF CallsInv
  <1>2. CASE Begin(c)
    BY <1>1, <1>2 DEF Begin, CallInv, NewInv
  <1>3. CASE ReadAnswered(c)
    <2>1. phase[c] = "reading" /\ request[c] = NoMessage /\ applied[c] = 0
      BY <1>1, <1>3 DEF ReadAnswered, CallInv, ReadingInv
    <2>2. CASE \E o : Finish(c, o)
      BY <2>2 DEF Finish, Hangup
    <2>3. CASE /\ WriteAllowed(op[c], Entry(op[c], reply[c]))
               /\ Submit(c, Entry(op[c], reply[c]))
      <3>1. request'[c] = WriteRequest(op[c], Entry(op[c], reply[c]))
        BY <1>1, <2>3 DEF Submit, Post, WriteRequest, TypeOK, ExchangeTypeOK
      <3>2. /\ Entry(op[c], reply[c]) \in Entries \union {Absent}
            /\ op[c] \in Operation
        BY <1>1, <1>3, AfterRead DEF CallInv
      <3>3. Act(op[c], Entry(op[c], reply[c])) \in WriteActs
        BY <2>3, <3>2, WrittenTyped
      <3>4. QED
        BY <2>1, <3>1, <3>3 DEF WriteRequest, WriteActs
    <2>4. QED
      BY <1>1, <1>3, <2>2, <2>3, AfterRead DEF CallInv
  <1>4. CASE WriteAnswered(c) \/ TransportError(c)
    BY <1>4 DEF WriteAnswered, TransportError, Finish, Hangup
  <1>5. CASE FirewallStep(c)
    <2>1. request' = [request EXCEPT ![c] = NoMessage]
      BY <1>5 DEF FirewallStep, Firewall, ProcessGet, ProcessWrite, RefuseWrite,
                  RefuseOther, Answer
    <2>2. QED
      BY <1>1, <2>1 DEF TypeOK, ExchangeTypeOK
  <1>6. QED
    BY <1>2, <1>3, <1>4, <1>5

\* A call sends one Get at most and then one write at most, whatever is lost or
\* comes late.
THEOREM NothingResentCorrect == ASSUME WellFormed PROVE Spec => NothingResent
  <1> DEFINE Once ==
        \A c \in Calls :
          request'[c] \notin {request[c], NoMessage} =>
            /\ request[c] = NoMessage /\ applied[c] = 0
            /\ phase[c] \in {"new", "reading"}
            /\ phase[c] = "reading" => request'[c].act # "get"
  <1>1. CallsInv /\ [Next]_vars => [Once]_vars
    <2> SUFFICES ASSUME CallsInv, Next, NEW d \in Calls,
                        request'[d] \notin {request[d], NoMessage}
                 PROVE  /\ request[d] = NoMessage /\ applied[d] = 0
                        /\ phase[d] \in {"new", "reading"}
                        /\ phase[d] = "reading" => request'[d].act # "get"
      OBVIOUS
    <2>1. PICK c \in Calls : \/ Begin(c) \/ ReadAnswered(c) \/ WriteAnswered(c)
                             \/ TransportError(c) \/ FirewallStep(c)
      BY DEF Next
    <2>2. d = c
      <3>1. SUFFICES ASSUME d # c PROVE FALSE
        OBVIOUS
      <3>2. Kept(d)
        BY <2>1, <3>1, OthersKept DEF CallsInv
      <3>3. QED
        BY <3>2 DEF Kept
    <2>3. QED
      BY <2>1, <2>2, PostedOnce
  <1>2. Spec => []CallsInv
    BY InvCorrect
  <1>3. QED
    BY <1>1, <1>2, PTL DEF Spec, NothingResent

-----------------------------------------------------------------------------
(* What a call sees is what it read.                                       *)

\* CallsInv says that what a call has seen it has read; this is the other way
\* round: a call that has sent a write has seen all that it has read.
WriteSent(c) ==
  \/ phase[c] = "writing"
  \/ phase[c] = "done" /\ (applied[c] = 1 \/ (request[c] # NoMessage /\ request[c].act # "get"))

Snapshot(c) ==
  /\ phase[c] = "new" => raw[c] = Absent
  /\ phase[c] = "reading" =>
       /\ Reads(op[c])
       /\ \/ request[c] # NoMessage
          \/ reply[c] # NoMessage /\ reply[c].kind # "resource"
          => raw[c] = Absent
  /\ WriteSent(c) => existing[c] = View(op[c], raw[c])

SnapshotInv == \A c \in Calls : Snapshot(c)

LEMMA SnapshotBegin ==
  ASSUME TypeOK, NEW c \in Calls, CallInv(c), Snapshot(c), Begin(c)
  PROVE  Snapshot(c)'
  <1>1. /\ request[c] = NoMessage /\ applied[c] = 0 /\ existing[c] = Absent
        /\ raw[c] = Absent
        /\ UNCHANGED <<raw, applied, op, existing>>
    BY DEF Begin, CallInv, NewInv, Snapshot
  <1>2. CASE Return(c, "invalid_request") /\ UNCHANGED request
    <2>1. phase'[c] = "done" /\ request'[c] = NoMessage
      BY <1>1, <1>2 DEF Return, TypeOK
    <2>2. QED
      BY <1>1, <2>1 DEF Snapshot, WriteSent
  <1>3. CASE Reads(op[c]) /\ phase' = [phase EXCEPT ![c] = "reading"]
    <2>1. phase'[c] = "reading"
      BY <1>3 DEF TypeOK
    <2>2. QED
      BY <1>1, <1>3, <2>1 DEF Snapshot, WriteSent
  <1>4. CASE ~Reads(op[c]) /\ Submit(c, Absent)
    <2>1. phase'[c] = "writing"
      BY <1>4 DEF Submit, TypeOK
    <2>2. QED
      BY <1>1, <1>4, <2>1 DEF Snapshot, WriteSent, View
  <1>5. QED
    BY <1>2, <1>3, <1>4 DEF Begin

LEMMA SnapshotRead ==
  ASSUME WellFormed, TypeOK, NEW c \in Calls, CallInv(c), Snapshot(c), ReadAnswered(c)
  PROVE  Snapshot(c)'
  <1> DEFINE e == Entry(op[c], reply[c])
  <1>1. /\ request[c] = NoMessage /\ applied[c] = 0 /\ Reads(op[c])
        /\ reply[c].kind = "resource" => reply[c].content = raw[c] /\ raw[c] # Absent
        /\ reply[c].kind # "resource" => raw[c] = Absent
        /\ UNCHANGED <<raw, applied, op>>
    BY DEF ReadAnswered, CallInv, ReadingInv, Snapshot
  <1>2. CASE \E o : Finish(c, o)
    <2>1. phase'[c] = "done" /\ request'[c] = NoMessage
      BY <1>1, <1>2 DEF Finish, Hangup, Return, TypeOK
    <2>2. QED
      BY <1>1, <2>1 DEF Snapshot, WriteSent
  <1>3. CASE existing' = [existing EXCEPT ![c] = e] /\ Submit(c, e)
    <2>1. phase'[c] = "writing" /\ existing'[c] = e
      BY <1>3 DEF Submit, TypeOK
    <2>2. e = View(op[c], raw[c])
      BY <1>1 DEF Entry, View
    <2>3. QED
      BY <1>1, <2>1, <2>2 DEF Snapshot, WriteSent, View
  <1>4. QED
    BY <1>2, <1>3, AfterRead DEF CallInv

LEMMA SnapshotReturn ==
  ASSUME TypeOK, NEW c \in Calls, CallInv(c), Snapshot(c),
         WriteAnswered(c) \/ TransportError(c)
  PROVE  Snapshot(c)'
  <1>1. /\ phase[c] \in {"reading", "writing"} /\ phase'[c] = "done"
        /\ UNCHANGED <<request, raw, applied, op, existing>>
    BY DEF WriteAnswered, TransportError, Finish, Hangup, Return, TypeOK
  <1>2. phase[c] = "reading" =>
          applied[c] = 0 /\ (request[c] = NoMessage \/ request[c].act = "get")
    BY DEF CallInv, ReadingInv, GetRequest
  <1>3. QED
    BY <1>1, <1>2 DEF Snapshot, WriteSent

LEMMA SnapshotFirewall ==
  ASSUME WellFormed, TypeOK, NEW c \in Calls, CallInv(c), Snapshot(c), FirewallStep(c)
  PROVE  Snapshot(c)'
  <1>1. /\ request[c] # NoMessage /\ UNCHANGED <<op, phase, existing>>
        /\ request'[c] = NoMessage
    BY DEF FirewallStep, callVars, Firewall, ProcessGet, ProcessWrite, RefuseWrite,
           RefuseOther, Answer, TypeOK, ExchangeTypeOK
  <1>2. /\ phase[c] \in {"reading", "writing", "done"} /\ applied[c] = 0
        /\ request[c].act = "get" => phase[c] # "writing"
        /\ request[c].act # "get" => phase[c] # "reading"
    <2>1. \/ request[c] = GetRequest(op[c]) /\ phase[c] # "writing"
          \/ request[c].act \in WriteActs /\ phase[c] # "reading"
      BY <1>1, PendingRequest
    <2>2. GetRequest(op[c]).act = "get" /\ "get" \notin WriteActs
      BY DEF GetRequest, WriteActs
    <2>3. phase[c] \in {"reading", "writing", "done"} /\ applied[c] = 0
      BY <1>1, PendingRequest
    <2>4. QED
      BY <2>1, <2>2, <2>3
  <1>3. CASE ProcessGet(c)
    <2>1. /\ request[c].act = "get" /\ UNCHANGED applied
          /\ raw'[c] = store[request[c].key]
          /\ raw'[c] # Absent => Answer(c, "resource", store[request[c].key])
      BY <1>3 DEF ProcessGet, TypeOK, ExchangeTypeOK
    <2>2. raw'[c] # Absent /\ reply'[c] # NoMessage => reply'[c].kind = "resource"
      BY <2>1 DEF Answer, TypeOK, ExchangeTypeOK
    <2>3. QED
      BY <1>1, <1>2, <2>1, <2>2 DEF Snapshot, WriteSent
  <1>4. CASE ProcessWrite(c)
    <2>1. request[c].act # "get" /\ UNCHANGED raw
      BY <1>4 DEF ProcessWrite, WriteActs
    <2>2. QED
      BY <1>1, <1>2, <2>1 DEF Snapshot, WriteSent
  <1>5. CASE RefuseWrite(c) \/ RefuseOther(c)
    <2>1. UNCHANGED <<raw, applied>>
      BY <1>5 DEF RefuseWrite, RefuseOther
    <2>2. QED
      BY <1>1, <1>2, <2>1 DEF Snapshot, WriteSent
  <1>6. QED
    BY <1>3, <1>4, <1>5 DEF FirewallStep, Firewall

LEMMA SnapshotStep ==
  ASSUME WellFormed PROVE CallsInv /\ SnapshotInv /\ [Next]_vars => SnapshotInv'
  <1> SUFFICES ASSUME CallsInv, SnapshotInv, [Next]_vars, NEW d \in Calls
               PROVE  Snapshot(d)'
    BY DEF SnapshotInv
  <1>1. TypeOK /\ CallInv(d) /\ Snapshot(d)
    BY DEF CallsInv, SnapshotInv
  <1>2. CASE Kept(d)
    BY <1>1, <1>2 DEF Kept, Snapshot, WriteSent, View
  <1>3. CASE UNCHANGED vars
    BY <1>2, <1>3 DEF vars, Kept
  <1>4. CASE Next
    <2>1. PICK c \in Calls : \/ Begin(c) \/ ReadAnswered(c) \/ WriteAnswered(c)
                             \/ TransportError(c) \/ FirewallStep(c)
      BY <1>4 DEF Next
    <2>2. CASE c # d
      BY <1>1, <1>2, <2>1, <2>2, OthersKept
    <2>3. CASE c = d
      BY <1>1, <2>1, <2>3, SnapshotBegin, SnapshotRead, SnapshotReturn, SnapshotFirewall
    <2>4. QED
      BY <2>2, <2>3
  <1>5. QED
    BY <1>3, <1>4

\* A call that has sent a write has made it of what its object was when the
\* firewall answered its Get.
THEOREM SnapshotCorrect == ASSUME WellFormed PROVE Spec => []SnapshotInv
  <1>1. Init => SnapshotInv
    BY DEF Init, ExchangeInit, SnapshotInv, Snapshot, WriteSent
  <1>2. CallsInv /\ SnapshotInv /\ [Next]_vars => SnapshotInv'
    BY SnapshotStep
  <1>3. Spec => []CallsInv
    BY InvCorrect
  <1>4. QED
    BY <1>1, <1>2, <1>3, PTL DEF Spec

LEMMA SentWhatItSaw ==
  ASSUME CallsInv, SnapshotInv, NEW c \in Calls, applied[c] = 1
  PROVE  existing[c] = View(op[c], raw[c])
  <1>1. phase[c] \in {"writing", "done"}
    BY EffectFacts DEF CallInv, NewInv, ReadingInv, Phases
  <1>2. QED
    BY <1>1 DEF SnapshotInv, Snapshot, WriteSent

-----------------------------------------------------------------------------
(* What a call replaces is what it read, or another call's write.          *)

\* What the write of c replaced, or would replace now.
Held(c) == IF applied[c] = 0 THEN store[op[c].key] ELSE before[c]

Source(c) ==
  raw[c] # Absent =>
    \/ Held(c) = raw[c]
    \/ \E d \in Calls \ {c} :
         op[d].key = op[c].key /\ applied[d] = 1 /\ after[d] = Held(c)

SourceInv == \A c \in Calls : Source(c)

\* The part of the state that SourceInv is about changes in two steps only.
LEMMA SourceKept ==
  ASSUME SourceInv, UNCHANGED <<store, raw, applied, before, after, op>>
  PROVE  SourceInv'
  BY DEF SourceInv, Source, Held

LEMMA SourceGet ==
  ASSUME WellFormed, CallsInv, SourceInv, NEW x \in Calls, ProcessGet(x), UNCHANGED op
  PROVE  SourceInv'
  <1> SUFFICES ASSUME NEW c \in Calls PROVE Source(c)'
    BY DEF SourceInv
  <1>1. /\ UNCHANGED <<store, applied, before, after, op>>
        /\ raw' = [raw EXCEPT ![x] = store[request[x].key]]
    BY DEF ProcessGet
  <1>2. applied[x] = 0 /\ request[x].key = op[x].key
    <2>1. TypeOK /\ CallInv(x) /\ request[x] # NoMessage
      BY DEF CallsInv, ProcessGet
    <2>2. /\ applied[x] = 0
          /\ request[x] = GetRequest(op[x]) \/ request[x].key = op[x].key
      BY <2>1, PendingRequest
    <2>3. QED
      BY <2>2 DEF GetRequest
  <1>3. CASE c = x
    <2>1. raw'[c] = Held(c)'
      BY <1>1, <1>2, <1>3 DEF Held, CallsInv, TypeOK, ExchangeTypeOK
    <2>2. QED
      BY <2>1 DEF Source
  <1>4. CASE c # x
    <2>1. raw'[c] = raw[c] /\ Held(c)' = Held(c)
      BY <1>1, <1>4 DEF Held, CallsInv, TypeOK, ExchangeTypeOK
    <2>2. QED
      BY <1>1, <2>1 DEF Source, SourceInv
  <1>5. QED
    BY <1>3, <1>4

LEMMA SourceWrite ==
  ASSUME WellFormed, CallsInv, SourceInv, NEW x \in Calls, ProcessWrite(x), UNCHANGED op
  PROVE  SourceInv'
  <1> DEFINE key == op[x].key
             new == IF request[x].act = "remove" THEN Absent ELSE request[x].content
  <1>0. request[x] # NoMessage /\ request[x].act \in WriteActs
    BY DEF ProcessWrite
  <1>1. applied[x] = 0 /\ request[x].key = key
    <2>1. request[x] # GetRequest(op[x])
      BY <1>0 DEF GetRequest, WriteActs
    <2>2. QED
      BY <1>0, <2>1, PendingRequest DEF CallsInv
  <1>2. /\ store' = [store EXCEPT ![key] = new]
        /\ applied' = [applied EXCEPT ![x] = applied[x] + 1]
        /\ before' = [before EXCEPT ![x] = store[key]]
        /\ after' = [after EXCEPT ![x] = new]
        /\ raw' = raw /\ op' = op
    BY <1>1 DEF ProcessWrite
  <1>3. key \in Keys
    BY DEF CallsInv, TypeOK, WellFormed
  <1>4. /\ store'[key] = new /\ \A k \in Keys \ {key} : store'[k] = store[k]
        /\ applied'[x] = 1 /\ before'[x] = store[key] /\ after'[x] = new
    BY <1>1, <1>2, <1>3 DEF CallsInv, TypeOK, ExchangeTypeOK
  <1>5. \A d \in Calls \ {x} :
          applied'[d] = applied[d] /\ before'[d] = before[d] /\ after'[d] = after[d]
    BY <1>2 DEF CallsInv, TypeOK, ExchangeTypeOK
  <1> SUFFICES ASSUME NEW c \in Calls, raw[c] # Absent
               PROVE  \/ Held(c)' = raw[c]
                      \/ \E d \in Calls \ {c} : /\ op[d].key = op[c].key
                                                /\ applied'[d] = 1 /\ after'[d] = Held(c)'
    BY <1>2 DEF SourceInv, Source
  <1>6. \/ Held(c) = raw[c]
        \/ \E d \in Calls \ {c} : op[d].key = op[c].key /\ applied[d] = 1 /\ after[d] = Held(c)
    BY DEF SourceInv, Source
  <1>7. CASE c = x
    <2>1. Held(c)' = Held(c)
      BY <1>1, <1>4, <1>7 DEF Held
    <2>2. QED
      BY <1>5, <1>6, <1>7, <2>1
  <1>8. CASE c # x /\ (applied[c] # 0 \/ op[c].key # key)
    <2>1. op[c].key \in Keys
      BY DEF CallsInv, TypeOK, WellFormed
    <2>2. Held(c)' = Held(c)
      BY <1>2, <1>4, <1>5, <1>8, <2>1 DEF Held
    <2>3. \A d \in Calls : applied[d] = 1 => d # x
      BY <1>1
    <2>4. QED
      BY <1>5, <1>6, <2>2, <2>3
  <1>9. CASE c # x /\ applied[c] = 0 /\ op[c].key = key
    <2>1. Held(c)' = after'[x]
      BY <1>2, <1>4, <1>5, <1>9 DEF Held
    <2>2. QED
      BY <1>4, <1>9, <2>1
  <1>10. QED
    BY <1>7, <1>8, <1>9

\* What the write of a call that has read its object replaced is what the Get
\* returned, unless another call wrote to the object in between.
THEOREM SourceCorrect == ASSUME WellFormed PROVE Spec => []SourceInv
  <1>1. Init => SourceInv
    BY DEF Init, ExchangeInit, SourceInv, Source
  <1>2. ASSUME CallsInv, SourceInv, [Next]_vars PROVE SourceInv'
    <2>1. CASE UNCHANGED vars
      BY <1>2, <2>1, SourceKept DEF vars
    <2>2. ASSUME NEW c \in Calls,
                 Begin(c) \/ ReadAnswered(c) \/ WriteAnswered(c) \/ TransportError(c)
          PROVE  SourceInv'
      BY <1>2, <2>2, SourceKept DEF Begin, ReadAnswered, WriteAnswered, TransportError
    <2>3. ASSUME NEW c \in Calls, FirewallStep(c) PROVE SourceInv'
      BY <1>2, <2>3, SourceKept, SourceGet, SourceWrite
         DEF FirewallStep, Firewall, RefuseWrite, RefuseOther, callVars
    <2>4. QED
      BY <1>2, <2>1, <2>2, <2>3 DEF Next
  <1>3. Spec => []CallsInv
    BY InvCorrect
  <1>4. QED
    BY <1>1, <1>2, <1>3, PTL DEF Spec

\* A write whose call read something else than what it replaced was overtaken.
LEMMA OvertakenOrFresh ==
  ASSUME CallsInv, SourceInv, NEW c \in Calls, applied[c] > 0, raw[c] # Absent
  PROVE  before[c] = raw[c] \/ Overtakers(c) # {}
  <1>1. applied[c] = 1
    BY EffectFacts
  <1>2. Held(c) = before[c]
    BY <1>1 DEF Held
  <1>3. QED
    BY <1>2 DEF SourceInv, Source, Overtakers

-----------------------------------------------------------------------------
(* What an unraced call does, and a call that is made again.               *)

\* A call whose object did not change between its Get and its write is atomic.
THEOREM UnracedCorrect == ASSUME WellFormed PROVE Spec => []UnracedCallIsAtomic
  <1>1. ASSUME CallsInv, SnapshotInv PROVE UnracedCallIsAtomic
    <2> SUFFICES ASSUME NEW c \in Calls, applied[c] = 1,
                        Reads(op[c]) => before[c] = raw[c]
                 PROVE  LET seen == View(op[c], before[c])
                        IN  /\ ~Rejected(op[c]) /\ Decision(op[c], seen) = "write"
                            /\ after[c] = Written(op[c], seen)
                            /\ outcome[c] \in Successes => outcome[c] = Success(op[c], seen)
      BY DEF UnracedCallIsAtomic
    <2>1. existing[c] = View(op[c], raw[c])
      BY <1>1, SentWhatItSaw
    <2>2. View(op[c], raw[c]) = View(op[c], before[c])
      BY DEF View
    <2>3. /\ WriteAllowed(op[c], existing[c])
          /\ after[c] = Written(op[c], existing[c])
          /\ outcome[c] \in Successes => outcome[c] = Success(op[c], existing[c])
      BY <1>1, EffectFacts
    <2>4. QED
      BY <2>1, <2>2, <2>3 DEF WriteAllowed
  <1>2. QED
    BY <1>1, InvCorrect, SnapshotCorrect, PTL

\* What a resource's writes have to be for a call to be repeatable.
Idempotent ==
  \A o \in Operation : \A e \in Entries \union {Absent} :
    LET w == Written(o, e)
    IN  Reads(o) /\ WriteAllowed(o, e) /\ w \in Entries /\ WriteAllowed(o, w) =>
          Written(o, w) = w

\* A call made again, on what it has written, writes the same.
THEOREM RepeatCorrect ==
  ASSUME WellFormed, Idempotent PROVE Spec => []RepeatChangesNothing
  <1>1. ASSUME CallsInv, SnapshotInv PROVE RepeatChangesNothing
    <2> SUFFICES ASSUME NEW c \in Calls, NEW d \in Calls, op[c] = op[d],
                        applied[c] = 1, applied[d] = 1, after[c] # Absent,
                        Reads(op[d]) => raw[d] = after[c] /\ Seen(op[d], after[c]) = after[c]
                 PROVE  after[d] = after[c]
      BY DEF RepeatChangesNothing
    <2> DEFINE o == op[c]
    <2>1. /\ existing[c] = View(o, raw[c]) /\ existing[d] = View(o, raw[d])
          /\ o \in Operation
          /\ existing[c] \in Entries \union {Absent}
          /\ existing[d] \in Entries \union {Absent}
          /\ WriteAllowed(o, existing[c]) /\ WriteAllowed(o, existing[d])
          /\ after[c] = Written(o, existing[c]) /\ after[d] = Written(o, existing[d])
      BY <1>1, SentWhatItSaw, EffectFacts
    <2>2. CASE ~Reads(o)
      BY <2>1, <2>2 DEF View
    <2>3. CASE Reads(o)
      <3>1. existing[d] = after[c]
        BY <2>1, <2>3 DEF View
      <3>2. QED
        BY <2>1, <2>3, <3>1 DEF Idempotent
    <2>4. QED
      BY <2>2, <2>3
  <1>2. QED
    BY <1>1, InvCorrect, SnapshotCorrect, PTL

-----------------------------------------------------------------------------
(* The calls implement ConfigStore.                                        *)

LEMMA ConfigStart == ASSUME WellFormed PROVE Init => Config!ConfigInit
  <1> SUFFICES ASSUME Init PROVE Config!ConfigInit
    OBVIOUS
  <1>1. store \in [Keys -> Contents \union {Absent}] /\ applied = [c \in Calls |-> 0]
    BY DEF Init, ExchangeInit
  <1>2. \A c \in Calls : op[c] \in Operation
    BY DEF Init
  <1>3. [c \in Calls |-> op[c].key] \in [Calls -> Keys]
    BY <1>2 DEF WellFormed
  <1>4. [c \in Calls |-> Intent(op[c])] \in [Calls -> SUBSET Config!Kinds]
    BY <1>2 DEF WellFormed, Config!Kinds
  <1>5. [c \in Calls |-> VerdictOf(outcome[c])] = [c \in Calls |-> "pending"]
    BY DEF Init, VerdictOf, Successes, Answers, Refusals
  <1>6. QED
    BY <1>1, <1>3, <1>4, <1>5 DEF Config!ConfigInit

\* A call that returns concludes.
LEMMA ConcludeMaps ==
  ASSUME TypeOK, NEW c \in Calls, NEW o \in Outcomes, o # "none", outcome[c] = "none",
         outcome' = [outcome EXCEPT ![c] = o],
         UNCHANGED <<store, op, applied>>,
         o \in Answers => Intent(op[c]) = {},
         o \in Successes => applied[c] = 1,
         o \in Refusals => applied[c] = 0
  PROVE  Config!Conclude(c)
  <1> DEFINE verdict == [d \in Calls |-> VerdictOf(outcome[d])]
             intent == [d \in Calls |-> Intent(op[d])]
  <1>1. verdict' = [verdict EXCEPT ![c] = VerdictOf(o)]
    BY DEF TypeOK
  <1>2. verdict[c] = "pending"
    BY DEF VerdictOf, Successes, Answers, Refusals
  <1>3. UNCHANGED <<store, intent, [d \in Calls |-> op[d].key], applied>>
    OBVIOUS
  <1>4. \/ o \in Successes \union Answers /\ VerdictOf(o) = "done"
        \/ o \in Refusals /\ VerdictOf(o) = "refused"
        \/ VerdictOf(o) = "in_doubt"
    BY OutcomeClasses DEF VerdictOf, Outcomes
  <1>5. \/ VerdictOf(o) = "done" /\ (intent[c] = {} \/ applied[c] = 1)
        \/ VerdictOf(o) = "refused" /\ applied[c] = 0
        \/ VerdictOf(o) = "in_doubt"
    BY <1>4
  <1>6. QED
    BY <1>1, <1>2, <1>3, <1>5 DEF Config!Conclude

\* A write that takes effect is the call's one change, of a kind it intends.
LEMMA WriteMaps ==
  ASSUME WellFormed, TypeOK, NEW c \in Calls, CallInv(c), UNCHANGED callVars, ProcessWrite(c)
  PROVE  Config!Change(c)
  <1> DEFINE o == op[c]
             e == existing[c]
             act == Act(o, e)
             stored == store[o.key]
  <1>0. request[c] # NoMessage /\ request[c].act \in WriteActs
    BY DEF ProcessWrite
  <1>1. request[c] # GetRequest(o)
    BY <1>0 DEF GetRequest, WriteActs
  <1>2. /\ applied[c] = 0 /\ WriteAllowed(o, e)
        /\ request[c].act = act /\ request[c].content = Written(o, e)
        /\ request[c].key = o.key
    BY <1>0, <1>1, PendingRequest
  <1>3. o \in Operation /\ e \in Entries \union {Absent}
    BY DEF TypeOK
  <1>4. /\ act \in WriteActs /\ KindsOf(act) \subseteq Intent(o)
        /\ Written(o, e) \in Contents \union {Absent}
        /\ (Written(o, e) = Absent) <=> (act = "remove")
    BY <1>2, <1>3, WrittenTyped
  <1>5. /\ Accepts(act, stored)
        /\ store' = [store EXCEPT ![o.key] = Written(o, e)]
        /\ applied' = [applied EXCEPT ![c] = 1]
    <2>1. (IF request[c].act = "remove" THEN Absent ELSE request[c].content) = Written(o, e)
      BY <1>2, <1>4
    <2>2. applied[c] + 1 = 1
      BY <1>2
    <2>3. QED
      BY <1>2, <2>1, <2>2 DEF ProcessWrite
  <1>6. /\ Config!KindOf(stored, Written(o, e)) \in Intent(o)
        /\ ~(stored = Absent /\ Written(o, e) = Absent)
    <2>1. Config!KindOf(stored, Written(o, e)) \in KindsOf(act)
      BY <1>4, <1>5 DEF WriteActs, KindsOf, Accepts, Config!KindOf
    <2>2. act = "remove" => stored # Absent
      BY <1>5 DEF Accepts
    <2>3. QED
      BY <1>4, <2>1, <2>2
  <1>7. VerdictOf(outcome[c]) \in {"pending", "in_doubt"}
    <2>1. outcome[c] \in {"none", "transport"}
      BY <1>0, PendingRequest DEF CallInv, ReadingInv, WritingInv, DoneInv
    <2>2. QED
      BY <2>1 DEF VerdictOf, Successes, Answers, Refusals
  <1>8. UNCHANGED <<op, outcome>>
    BY DEF callVars
  <1>9. QED
    BY <1>2, <1>4, <1>5, <1>6, <1>7, <1>8 DEF Config!Change

LEMMA ConfigStep ==
  ASSUME WellFormed PROVE CallsInv /\ [Next]_vars => [Config!ConfigNext]_(Config!configVars)
  <1> SUFFICES ASSUME CallsInv, [Next]_vars
               PROVE  [Config!ConfigNext]_(Config!configVars)
    OBVIOUS
  <1> USE DEF Config!configVars
  <1>1. CASE UNCHANGED vars
    BY <1>1 DEF vars
  <1>2. CASE Next
    <2>1. PICK c \in Calls : \/ Begin(c) \/ ReadAnswered(c) \/ WriteAnswered(c)
                             \/ TransportError(c) \/ FirewallStep(c)
      BY <1>2 DEF Next
    <2>2. TypeOK /\ CallInv(c)
      BY DEF CallsInv
    <2>3. CASE UNCHANGED <<store, op, applied, outcome>>
      BY <2>3
    <2>4. CASE Config!Conclude(c) \/ Config!Change(c)
      BY <2>4 DEF Config!ConfigNext
    <2>5. CASE Begin(c)
      <3>1. applied[c] = 0 /\ outcome[c] = "none" /\ UNCHANGED <<store, op, applied>>
        BY <2>2, <2>5 DEF Begin, CallInv, NewInv
      <3>2. CASE Return(c, "invalid_request")
        <4>1. Config!Conclude(c)
          BY <2>2, <3>1, <3>2, ConcludeMaps DEF Return, Outcomes, Refusals, Answers, Successes
        <4>2. QED
          BY <2>4, <4>1
      <3>3. CASE UNCHANGED outcome
        BY <2>3, <3>1, <3>3
      <3>4. QED
        BY <2>5, <3>2, <3>3 DEF Begin, Submit
    <2>6. CASE ReadAnswered(c)
      <3>1. applied[c] = 0 /\ outcome[c] = "none" /\ UNCHANGED <<store, op, applied>>
        BY <2>2, <2>6 DEF ReadAnswered, CallInv, ReadingInv
      <3>2. CASE \E o \in {"api_error"} \union ReadErrors \union Answers :
                   Finish(c, o) /\ (o \in Answers => Intent(op[c]) = {})
        <4>1. PICK o \in {"api_error"} \union ReadErrors \union Answers :
                Finish(c, o) /\ (o \in Answers => Intent(op[c]) = {})
          BY <3>2
        <4>2. o \in Outcomes /\ o # "none" /\ o \notin Successes
          BY DEF Outcomes, Refusals, Successes, ReadErrors, Answers
        <4>3. outcome' = [outcome EXCEPT ![c] = o]
          BY <4>1 DEF Finish, Return
        <4>4. Config!Conclude(c)
          BY <2>2, <3>1, <4>1, <4>2, <4>3, ConcludeMaps
        <4>5. QED
          BY <2>4, <4>4
      <3>3. CASE UNCHANGED outcome
        BY <2>3, <3>1, <3>3
      <3>4. /\ "invalid_request" \in ReadErrors
            /\ \A o \in {"api_error"} \union ReadErrors : o \notin Answers
        BY DEF ReadErrors, Answers
      <3>5. QED
        BY <2>2, <2>6, <3>2, <3>3, <3>4, AfterRead DEF Submit, CallInv
    <2>7. CASE WriteAnswered(c)
      <3>1. /\ outcome[c] = "none" /\ UNCHANGED <<store, op, applied>>
            /\ outcome' = [outcome EXCEPT ![c] = WriteOutcome(c)]
            /\ reply[c] # NoMessage
        BY <2>2, <2>7 DEF WriteAnswered, CallInv, WritingInv, Finish, Return
      <3>2. CallInv(c)' /\ outcome'[c] = WriteOutcome(c) /\ phase'[c] = "done"
        BY <2>2, <2>7, <3>1, WriteAnsweredInv DEF WriteAnswered, Finish, Return, TypeOK
      <3>3. /\ WriteOutcome(c) \in Successes => applied[c] = 1
            /\ WriteOutcome(c) \in Refusals => applied[c] = 0
        BY <3>1, <3>2 DEF CallInv, DoneInv
      <3>4. WriteOutcome(c) \in Outcomes /\ WriteOutcome(c) # "none"
            /\ WriteOutcome(c) \notin Answers
        BY <2>2, <3>1, WriteOutcomeTyped
      <3>5. Config!Conclude(c)
        BY <2>2, <3>1, <3>3, <3>4, ConcludeMaps
      <3>6. QED
        BY <2>4, <3>5
    <2>8. CASE TransportError(c)
      <3>1. /\ outcome[c] = "none" /\ UNCHANGED <<store, op, applied>>
            /\ outcome' = [outcome EXCEPT ![c] = "transport"]
        BY <2>2, <2>8 DEF TransportError, CallInv, ReadingInv, WritingInv, Finish, Return
      <3>2. "transport" \in Outcomes \ (Successes \union Refusals \union Answers)
        BY DEF Outcomes, Successes, Refusals, Answers
      <3>3. Config!Conclude(c)
        BY <2>2, <3>1, <3>2, ConcludeMaps
      <3>4. QED
        BY <2>4, <3>3
    <2>9. CASE FirewallStep(c)
      <3>1. UNCHANGED callVars /\ UNCHANGED <<op, outcome>>
        BY <2>9 DEF FirewallStep, callVars
      <3>2. CASE ProcessWrite(c)
        <4>1. Config!Change(c)
          BY <2>2, <3>1, <3>2, WriteMaps
        <4>2. QED
          BY <2>4, <4>1
      <3>3. CASE ProcessGet(c) \/ RefuseWrite(c) \/ RefuseOther(c)
        <4>1. UNCHANGED <<store, applied>>
          BY <3>3 DEF ProcessGet, RefuseWrite, RefuseOther
        <4>2. QED
          BY <2>3, <3>1, <4>1
      <3>4. QED
        BY <2>9, <3>2, <3>3 DEF FirewallStep, Firewall
    <2>10. QED
      BY <2>1, <2>5, <2>6, <2>7, <2>8, <2>9
  <1>3. QED
    BY <1>1, <1>2

\* A call changes only the object it names, once at most and as its operation
\* intends; if it succeeded it has, if it was refused it never will.
THEOREM CallsImplementConfigStore == ASSUME WellFormed PROVE Spec => ImplementsConfigStore
  <1>1. Init => Config!ConfigInit
    BY ConfigStart
  <1>2. CallsInv /\ [Next]_vars => [Config!ConfigNext]_(Config!configVars)
    BY ConfigStep
  <1>3. Spec => []CallsInv
    BY InvCorrect
  <1>4. QED
    BY <1>1, <1>2, <1>3, PTL DEF Spec, ImplementsConfigStore, Config!ConfigSpec

=============================================================================
