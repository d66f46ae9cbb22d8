-------------------------- MODULE WebServerProofs ---------------------------
(***************************************************************************)
(* Proofs about WebServer, for any number of requests and threads and any  *)
(* resource whose operators are WellFormed: types, StatusMatchesEffect,    *)
(* ShutdownClean, and that the service implements ConfigStore for its      *)
(* clients.                                                                *)
(*                                                                         *)
(* WebSpec implements the Spec of TypedCalls, whose invariant CallsInv     *)
(* says what a call has done.  WebInv ties calls to requests: a queued     *)
(* call has not begun and is queued once, a call in front of its handler   *)
(* has not begun either, and an answer carries the outcome of its call.    *)
(***************************************************************************)
EXTENDS WebServer, TypedCallsProofs

-----------------------------------------------------------------------------
(* The inductive invariant.                                                *)

WebTypes ==
  /\ http \in [Calls -> HttpStates]
  /\ code \in [Calls -> Codes]
  /\ queue \in Seq(Calls)
  /\ server \in {"serving", "draining", "stopping", "exited"}

QueueInv ==
  /\ \A i \in DOMAIN queue :
       phase[queue[i]] = "new" /\ http[queue[i]] \in {"awaiting", "gone"}
  /\ \A i, j \in DOMAIN queue : queue[i] = queue[j] => i = j

RequestInv(c) ==
  /\ http[c] \in {"none", "receiving"} => phase[c] = "new"
  /\ http[c] = "answered" =>
       \/ phase[c] = "new" /\ code[c] = "invalid_request"
       \/ phase[c] = "done" /\ code[c] = CodeOf(outcome[c])
  /\ server \in {"stopping", "exited"} => http[c] \in {"none", "answered", "gone"}
  /\ server = "exited" => phase[c] \in {"new", "done"}

WebInv ==
  /\ WebTypes
  /\ QueueInv
  /\ \A c \in Calls : RequestInv(c)
  /\ server = "exited" => queue = <<>>

-----------------------------------------------------------------------------
(* The service makes the calls of TypedCalls.                              *)

LEMMA WebStepIsStep ==
  ASSUME [WebNext]_allVars
  PROVE  [Next]_vars
  <1>1. CASE UNCHANGED vars
    BY <1>1
  <1>2. CASE \E c \in Calls : Start(c) \/ Work(c) \/ WebFirewallStep(c)
    BY <1>2 DEF Start, Work, WebFirewallStep, Next
  <1>3. UNCHANGED vars \/ \E c \in Calls : Start(c) \/ Work(c) \/ WebFirewallStep(c)
    BY DEF WebNext, allVars, Connect, Handle, Respond, Disconnect, Signal, Drained,
           DropQueued, Exit
  <1>4. QED
    BY <1>1, <1>2, <1>3

\* Each step of the service is a step of the calls it makes, or leaves them as they
\* are: what is proved of the calls holds inside the service.
THEOREM WebMakesCalls == WebSpec => Spec
  <1>1. WebInit => Init
    BY DEF WebInit
  <1>2. [WebNext]_allVars => [Next]_vars
    BY WebStepIsStep
  <1>3. QED
    BY <1>1, <1>2, PTL DEF WebSpec, Spec

\* Which code an outcome has.
LEMMA CodeOfFacts ==
  ASSUME NEW o \in Outcomes, o # "none"
  PROVE  /\ CodeOf(o) \in Codes \ {"none"}
         /\ CodeOf(o) = "ok" => o \in Successes \union Answers
         /\ CodeOf(o) \in {"invalid_request", "not_found", "sophos_api_error"} =>
              o \in Refusals \union Answers
         /\ CodeOf(o) \in {"transport_error", "response_parse_error"} =>
              o \in {"transport", "response_parse"}
         /\ o \in {"transport", "response_parse"} =>
              CodeOf(o) \in {"transport_error", "response_parse_error"}
  <1>1. CASE o \in Successes \union {"found"}
    BY <1>1 DEF CodeOf, Successes, Codes, Answers
  <1>2. CASE o \in {"not_found", "zero_records"}
    BY <1>2 DEF CodeOf, Successes, Codes, Answers, Refusals
  <1>3. CASE o \in {"invalid_request", "transport", "api_error", "response_parse"}
    BY <1>3 DEF CodeOf, Successes, Codes, Answers, Refusals
  <1>4. QED
    BY <1>1, <1>2, <1>3 DEF Outcomes, Answers, Refusals

-----------------------------------------------------------------------------
(* The queue.                                                              *)

LEMMA Appended ==
  ASSUME WebTypes, NEW c \in Calls, queue' = Append(queue, c)
  PROVE  /\ queue' \in Seq(Calls)
         /\ \A i \in DOMAIN queue' :
              \/ i \in DOMAIN queue /\ queue'[i] = queue[i]
              \/ i = Len(queue) + 1 /\ queue'[i] = c
  BY DEF WebTypes

LEMMA Removed ==
  ASSUME WebTypes, queue # <<>>, queue' = Tail(queue)
  PROVE  /\ queue' \in Seq(Calls)
         /\ \A i \in DOMAIN queue' :
              i + 1 \in DOMAIN queue /\ queue'[i] = queue[i + 1] /\ i # 0
         /\ 1 \in DOMAIN queue /\ Head(queue) = queue[1]
  BY DEF WebTypes

-----------------------------------------------------------------------------
(* Every step keeps the invariant.                                         *)

LEMMA WebInvInit == WebInit => WebInv
  BY DEF WebInit, Init, WebInv, WebTypes, QueueInv, RequestInv, HttpStates, Codes

LEMMA ConnectKeeps ==
  ASSUME WebInv, NEW c \in Calls, Connect(c)
  PROVE  WebInv'
  BY DEF Connect, WebInv, WebTypes, QueueInv, RequestInv, HttpStates, vars

LEMMA DisconnectKeeps ==
  ASSUME WebInv, NEW c \in Calls, Disconnect(c)
  PROVE  WebInv'
  BY DEF Disconnect, WebInv, WebTypes, QueueInv, RequestInv, HttpStates, vars

LEMMA HandleKeeps ==
  ASSUME WebInv, NEW c \in Calls, Handle(c)
  PROVE  WebInv'
  <1> USE DEF WebInv
  <1>1. /\ http[c] = "receiving" /\ phase[c] = "new" /\ UNCHANGED <<phase, outcome, server>>
        /\ server \in {"serving", "draining"} /\ http[c] \in HttpStates
    BY DEF Handle, RequestInv, vars, HttpStates
  <1>2. \A i \in DOMAIN queue : queue[i] # c
    BY <1>1 DEF QueueInv
  <1>3. CASE Reply400(c)
    BY <1>1, <1>2, <1>3 DEF Reply400, WebTypes, QueueInv, RequestInv, HttpStates, Codes
  <1>4. CASE RunBlocking(c)
    <2>1. /\ http' = [http EXCEPT ![c] = "awaiting"] /\ UNCHANGED code
          /\ queue' = Append(queue, c)
      BY <1>4 DEF RunBlocking
    <2>2. WebTypes'
      BY <1>1, <2>1, Appended DEF WebTypes, HttpStates
    <2>3. QueueInv'
      <3>1. /\ \A i \in DOMAIN queue' :
                 phase'[queue'[i]] = "new" /\ http'[queue'[i]] \in {"awaiting", "gone"}
        BY <1>1, <2>1, Appended DEF WebTypes, QueueInv
      <3>2. \A i, j \in DOMAIN queue' : queue'[i] = queue'[j] => i = j
        BY <1>2, <2>1, Appended DEF WebTypes, QueueInv
      <3>3. QED
        BY <3>1, <3>2 DEF QueueInv
    <2>4. ASSUME NEW d \in Calls PROVE RequestInv(d)'
      BY <1>1, <2>1 DEF WebTypes, RequestInv
    <2>5. QED
      BY <1>1, <2>2, <2>3, <2>4
  <1>5. QED
    BY <1>3, <1>4 DEF Handle

LEMMA RespondKeeps ==
  ASSUME WebInv, CallsInv, NEW c \in Calls, Respond(c)
  PROVE  WebInv'
  <1> USE DEF WebInv
  <1>1. /\ http[c] = "awaiting" /\ phase[c] = "done"
        /\ UNCHANGED <<phase, outcome, server, queue>>
        /\ http' = [http EXCEPT ![c] = "answered"]
        /\ code' = [code EXCEPT ![c] = CodeOf(outcome[c])]
    BY DEF Respond, vars
  <1>2. CodeOf(outcome[c]) \in Codes
    <2>1. outcome[c] \in Outcomes /\ outcome[c] # "none"
      BY <1>1 DEF CallsInv, TypeOK, CallInv, DoneInv
    <2>2. QED
      BY <2>1, CodeOfFacts
  <1>3. WebTypes'
    BY <1>1, <1>2 DEF WebTypes, HttpStates
  <1>4. QueueInv'
    BY <1>1 DEF WebTypes, QueueInv
  <1>5. ASSUME NEW d \in Calls PROVE RequestInv(d)'
    BY <1>1 DEF WebTypes, RequestInv
  <1>6. QED
    BY <1>1, <1>3, <1>4, <1>5

\* What a step of a call does to the calls' phases.
LEMMA PhaseStep ==
  ASSUME CallsInv, NEW c \in Calls,
         \/ Begin(c) \/ ReadAnswered(c) \/ WriteAnswered(c) \/ TransportError(c)
  PROVE  /\ phase'[c] \in {"reading", "writing", "done"}
         /\ Begin(c) => phase[c] = "new"
         /\ ~Begin(c) => phase[c] \in {"reading", "writing"}
         /\ \A d \in Calls \ {c} : phase'[d] = phase[d] /\ outcome'[d] = outcome[d]
  <1> USE DEF CallsInv, TypeOK
  <1>1. CASE Begin(c)
    BY <1>1 DEF Begin, Return, Submit
  <1>2. CASE ReadAnswered(c)
    BY <1>2 DEF ReadAnswered, Finish, Return, Submit, Begin
  <1>3. CASE WriteAnswered(c)
    BY <1>3 DEF WriteAnswered, Finish, Return, Begin
  <1>4. CASE TransportError(c)
    BY <1>4 DEF TransportError, Finish, Return, Begin
  <1>5. QED
    BY <1>1, <1>2, <1>3, <1>4

LEMMA StartKeeps ==
  ASSUME WebInv, CallsInv, NEW c \in Calls, Start(c)
  PROVE  WebInv'
  <1> USE DEF WebInv
  <1>1. /\ queue # <<>> /\ Head(queue) = c /\ queue' = Tail(queue)
        /\ UNCHANGED <<http, code, server>> /\ Begin(c)
    BY DEF Start
  <1>2. /\ 1 \in DOMAIN queue /\ queue[1] = c /\ queue' \in Seq(Calls)
        /\ \A i \in DOMAIN queue' :
             i + 1 \in DOMAIN queue /\ queue'[i] = queue[i + 1] /\ i # 0
    BY <1>1, Removed
  <1>3. /\ phase'[c] \in {"reading", "writing", "done"} /\ phase[c] = "new"
        /\ \A d \in Calls \ {c} : phase'[d] = phase[d] /\ outcome'[d] = outcome[d]
    BY <1>1, PhaseStep
  <1>4. http[c] \in {"awaiting", "gone"} /\ server # "exited"
    BY <1>1, <1>2 DEF QueueInv
  <1>5. \A i \in DOMAIN queue' : queue'[i] \in Calls \ {c}
    <2> SUFFICES ASSUME NEW i \in DOMAIN queue' PROVE queue'[i] \in Calls \ {c}
      OBVIOUS
    <2>1. i + 1 # 1 /\ i \in Nat
      BY <1>2
    <2>2. queue[i + 1] # c
      BY <1>2, <2>1 DEF QueueInv
    <2>3. QED
      BY <1>2, <2>2
  <1>6. QueueInv'
    <2>1. \A i \in DOMAIN queue' :
            phase'[queue'[i]] = "new" /\ http'[queue'[i]] \in {"awaiting", "gone"}
      BY <1>1, <1>2, <1>3, <1>5 DEF QueueInv
    <2>2. \A i, j \in DOMAIN queue' : queue'[i] = queue'[j] => i = j
      <3> SUFFICES ASSUME NEW i \in DOMAIN queue', NEW j \in DOMAIN queue',
                          queue'[i] = queue'[j]
                   PROVE  i = j
        OBVIOUS
      <3>1. i + 1 = j + 1
        BY <1>2 DEF QueueInv
      <3>2. i \in Nat /\ j \in Nat
        BY <1>2
      <3>3. QED
        BY <3>1, <3>2
    <2>3. QED
      BY <2>1, <2>2 DEF QueueInv
  <1>7. ASSUME NEW d \in Calls PROVE RequestInv(d)'
    BY <1>1, <1>3, <1>4 DEF RequestInv
  <1>8. QED
    BY <1>1, <1>2, <1>4, <1>6, <1>7 DEF WebTypes

LEMMA WorkKeeps ==
  ASSUME WebInv, CallsInv, NEW c \in Calls, Work(c)
  PROVE  WebInv'
  <1> USE DEF WebInv
  <1>1. /\ UNCHANGED <<http, code, queue, server>>
        /\ ReadAnswered(c) \/ WriteAnswered(c) \/ TransportError(c)
    BY DEF Work, webVars
  <1>2. phase[c] \in {"reading", "writing"}
    BY <1>1 DEF ReadAnswered, WriteAnswered, TransportError
  <1>3. \A d \in Calls \ {c} : phase'[d] = phase[d] /\ outcome'[d] = outcome[d]
    BY <1>1, PhaseStep
  <1>4. \A i \in DOMAIN queue : queue[i] \in Calls \ {c}
    BY <1>2 DEF QueueInv, WebTypes
  <1>5. QueueInv'
    BY <1>1, <1>3, <1>4 DEF QueueInv
  <1>6. server # "exited"
    BY <1>2 DEF RequestInv
  <1>7. ASSUME NEW d \in Calls PROVE RequestInv(d)'
    BY <1>1, <1>2, <1>3, <1>6 DEF RequestInv, WebTypes
  <1>8. QED
    BY <1>1, <1>5, <1>6, <1>7 DEF WebTypes

LEMMA MainKeeps ==
  ASSUME WebInv, CallsInv, Signal \/ Drained \/ DropQueued \/ Exit
  PROVE  WebInv'
  <1> USE DEF WebInv
  <1>1. CASE Signal
    BY <1>1 DEF Signal, WebTypes, QueueInv, RequestInv, vars
  <1>2. CASE Drained
    BY <1>2 DEF Drained, WebTypes, QueueInv, RequestInv, HttpStates, vars
  <1>3. CASE DropQueued
    <2>1. /\ queue # <<>> /\ queue' = Tail(queue) /\ server = "stopping"
          /\ UNCHANGED <<http, code, server, phase, outcome>>
      BY <1>3 DEF DropQueued, vars
    <2>2. /\ queue' \in Seq(Calls)
          /\ \A i \in DOMAIN queue' : i + 1 \in DOMAIN queue /\ queue'[i] = queue[i + 1]
      BY <2>1, Removed
    <2>3. \A i \in DOMAIN queue' : i \in Nat
      BY <2>2
    <2>4. QueueInv'
      BY <2>1, <2>2, <2>3 DEF QueueInv
    <2>5. QED
      BY <2>1, <2>2, <2>4 DEF WebTypes, RequestInv
  <1>4. CASE Exit
    <2>1. \A c \in Calls : phase[c] \in {"new", "done"}
      BY <1>4 DEF Exit, Busy, CallsInv, TypeOK, Phases
    <2>2. QED
      BY <1>4, <2>1 DEF Exit, WebTypes, QueueInv, RequestInv, vars
  <1>5. QED
    BY <1>1, <1>2, <1>3, <1>4

LEMMA WebInvStep ==
  ASSUME CallsInv, WebInv, [WebNext]_allVars
  PROVE  WebInv'
  <1>1. CASE UNCHANGED allVars
    BY <1>1 DEF allVars, webVars, vars, WebInv, WebTypes, QueueInv, RequestInv
  <1>2. ASSUME NEW c \in Calls, WebFirewallStep(c)
        PROVE  WebInv'
    BY <1>2 DEF WebFirewallStep, FirewallStep, webVars, callVars,
                WebInv, WebTypes, QueueInv, RequestInv
  <1>3. QED
    BY <1>1, <1>2, ConnectKeeps, DisconnectKeeps, HandleKeeps, RespondKeeps, StartKeeps,
       WorkKeeps, MainKeeps DEF WebNext

\* Queue, requests and calls agree at every moment: a queued call has not begun and
\* an answer carries the outcome of its request's call (the inductive invariant).
THEOREM WebInvCorrect == ASSUME WellFormed PROVE WebSpec => [](CallsInv /\ WebInv)
  <1>1. WebInit => WebInv
    BY WebInvInit
  <1>2. CallsInv /\ WebInv /\ [WebNext]_allVars => WebInv'
    BY WebInvStep
  <1>3. WebSpec => []CallsInv
    BY InvCorrect, WebMakesCalls, PTL
  <1>4. QED
    BY <1>1, <1>2, <1>3, PTL DEF WebSpec

-----------------------------------------------------------------------------
(* The properties.                                                         *)

\* The service's own state keeps its types: no request is answered with a code
\* that ErrorBody does not have.
THEOREM WebTypeCorrect == ASSUME WellFormed PROVE WebSpec => []WebTypeOK
  <1>1. CallsInv /\ WebInv => WebTypeOK
    BY DEF CallsInv, WebInv, WebTypes, WebTypeOK
  <1>2. QED
    BY <1>1, WebInvCorrect, PTL

\* A queued call has not begun, and no client has its answer.
LEMMA QueuedFacts ==
  ASSUME WebInv, NEW c \in Calls, Queued(c)
  PROVE  phase[c] = "new" /\ http[c] # "answered" /\ server # "exited"
  BY DEF WebInv, QueueInv, Queued

\* What the client is told is what has happened.
THEOREM StatusCorrect == ASSUME WellFormed PROVE WebSpec => []StatusMatchesEffect
  <1>1. CallsInv /\ WebInv => StatusMatchesEffect
    <2> SUFFICES ASSUME CallsInv, WebInv, NEW c \in Calls, http[c] = "answered"
                 PROVE  /\ code[c] = "ok" /\ Intent(op[c]) # {} => applied[c] = 1
                        /\ code[c] \in {"invalid_request", "not_found", "sophos_api_error"} =>
                             applied[c] = 0 /\ request[c] = NoMessage /\ ~Queued(c)
      BY DEF StatusMatchesEffect
    <2>1. ~Queued(c) /\ CallInv(c) /\ RequestInv(c)
      BY QueuedFacts DEF CallsInv, WebInv
    <2>2. CASE phase[c] = "new" /\ code[c] = "invalid_request"
      BY <2>1, <2>2 DEF CallInv, NewInv
    <2>3. CASE phase[c] = "done" /\ code[c] = CodeOf(outcome[c])
      <3>1. outcome[c] \in Outcomes /\ outcome[c] # "none"
        BY <2>1, <2>3 DEF CallsInv, TypeOK, CallInv, DoneInv
      <3>2. /\ outcome[c] \in Successes => applied[c] = 1
            /\ outcome[c] \in Refusals => applied[c] = 0
            /\ outcome[c] \in Answers => Intent(op[c]) = {}
            /\ outcome[c] # "transport" => request[c] = NoMessage
        BY <2>1, <2>3 DEF CallInv, DoneInv
      <3>3. Intent(op[c]) = {} => applied[c] = 0
        <4>1. applied[c] \in {0, 1} /\ op[c] \in Operation
              /\ existing[c] \in Entries \union {Absent}
          BY EffectFacts
        <4>2. applied[c] = 1 => Intent(op[c]) # {}
          <5> SUFFICES ASSUME applied[c] = 1 PROVE Intent(op[c]) # {}
            OBVIOUS
          <5>1. WriteAllowed(op[c], existing[c])
            BY <2>1 DEF CallInv, EffectInv
          <5>2. /\ Act(op[c], existing[c]) \in WriteActs
                /\ KindsOf(Act(op[c], existing[c])) \subseteq Intent(op[c])
            BY <4>1, <5>1, WrittenTyped
          <5>3. QED
            BY <5>2 DEF KindsOf, WriteActs
        <4>3. QED
          BY <4>1, <4>2
      <3>4. /\ code[c] = "ok" => outcome[c] \in Successes \union Answers
            /\ code[c] \in {"invalid_request", "not_found", "sophos_api_error"} =>
                 outcome[c] \in Refusals \union Answers
        BY <2>3, <3>1, CodeOfFacts
      <3>5. outcome[c] \in Refusals \union Answers => outcome[c] # "transport"
        BY DEF Refusals, Answers
      <3>6. QED
        BY <2>1, <3>2, <3>3, <3>4, <3>5
    <2>4. QED
      BY <2>1, <2>2, <2>3 DEF RequestInv
  <1>2. QED
    BY <1>1, WebInvCorrect, PTL

\* main stops when every accepted request has been answered or abandoned, and
\* the process exits when no call is under way or queued.
THEOREM ShutdownCleanCorrect == ASSUME WellFormed PROVE WebSpec => []ShutdownClean
  <1>1. CallsInv /\ WebInv => ShutdownClean
    BY QueuedFacts DEF WebInv, RequestInv, ShutdownClean
  <1>2. QED
    BY <1>1, WebInvCorrect, PTL

\* What a request of the service sends goes out once, however long it was queued
\* and whether or not its client is still there; a request whose object nobody
\* else changed between its read and its write is atomic; and repeating it
\* changes nothing, where the resource's writes are idempotent.
THEOREM ServedCallsCorrect ==
  ASSUME WellFormed, Idempotent
  PROVE  WebSpec => NothingResent /\ []UnracedCallIsAtomic /\ []RepeatChangesNothing
  BY NothingResentCorrect, UnracedCorrect, RepeatCorrect, WebMakesCalls, PTL

-----------------------------------------------------------------------------
(* The service implements ConfigStore.                                     *)

LEMMA WebConfigStart == ASSUME WellFormed PROVE WebInit => WebConfig!ConfigInit
  <1> SUFFICES ASSUME WebInit PROVE WebConfig!ConfigInit
    OBVIOUS
  <1>1. /\ store \in [Keys -> Contents \union {Absent}] /\ applied = [c \in Calls |-> 0]
        /\ \A c \in Calls : op[c] \in Operation
    BY DEF WebInit, Init, ExchangeInit
  <1>2. [c \in Calls |-> op[c].key] \in [Calls -> Keys]
    BY <1>1 DEF WellFormed
  <1>3. [c \in Calls |-> Intent(op[c])] \in [Calls -> SUBSET WebConfig!Kinds]
    BY <1>1 DEF WellFormed, WebConfig!Kinds
  <1>4. [c \in Calls |-> VerdictOfRequest(c)] = [c \in Calls |-> "pending"]
    BY DEF WebInit, VerdictOfRequest
  <1>5. QED
    BY <1>1, <1>2, <1>3, <1>4 DEF WebConfig!ConfigInit

\* A request that ends concludes. v is what its client then knows.
LEMMA WebConcludes ==
  ASSUME WebTypes, NEW c \in Calls,
         VerdictOfRequest(c) = "pending",
         UNCHANGED <<store, op, applied>>,
         \A d \in Calls \ {c} : http'[d] = http[d] /\ code'[d] = code[d],
         \/ VerdictOfRequest(c)' = "done" /\ (Intent(op[c]) = {} \/ applied[c] = 1)
         \/ VerdictOfRequest(c)' = "refused" /\ applied[c] = 0
         \/ VerdictOfRequest(c)' = "in_doubt"
  PROVE  [WebConfig!ConfigNext]_(WebConfig!configVars)
  <1> DEFINE verdict == [d \in Calls |-> VerdictOfRequest(d)]
             intent == [d \in Calls |-> Intent(op[d])]
  <1>1. verdict' = [verdict EXCEPT ![c] = VerdictOfRequest(c)']
    <2>1. \A d \in Calls \ {c} : VerdictOfRequest(d)' = VerdictOfRequest(d)
      BY DEF VerdictOfRequest
    <2>2. QED
      BY <2>1
  <1>2. verdict[c] = "pending" /\ intent[c] = Intent(op[c])
    OBVIOUS
  <1>3. UNCHANGED <<store, intent, [d \in Calls |-> op[d].key], applied>>
    OBVIOUS
  <1>4. WebConfig!Conclude(c)
    BY <1>1, <1>2, <1>3 DEF WebConfig!Conclude
  <1>5. QED
    BY <1>4 DEF WebConfig!ConfigNext

\* The verdict is about the answer only.
LEMMA SameVerdict ==
  ASSUME UNCHANGED <<http, code>>
  PROVE  UNCHANGED [d \in Calls |-> VerdictOfRequest(d)]
  BY DEF VerdictOfRequest

\* A write that takes effect: its client has no answer, or is in doubt.
LEMMA WebWriteMaps ==
  ASSUME WellFormed, CallsInv, WebInv, NEW c \in Calls, WebFirewallStep(c), ProcessWrite(c)
  PROVE  WebConfig!Change(c)
  <1>1. UNCHANGED callVars /\ UNCHANGED <<http, code, op>> /\ TypeOK /\ CallInv(c)
    BY DEF WebFirewallStep, FirewallStep, webVars, callVars, CallsInv
  <1>2. Config!Change(c)
    BY <1>1, WriteMaps
  <1>3. VerdictOfRequest(c) \in {"pending", "in_doubt"}
    <2>1. request[c] # NoMessage /\ request[c] # GetRequest(op[c])
      BY DEF ProcessWrite, GetRequest, WriteActs
    <2>2. phase[c] # "new"
      BY <1>1, <2>1 DEF CallInv, NewInv
    <2>3. CASE http[c] = "answered"
      <3>1. phase[c] = "done" /\ code[c] = CodeOf(outcome[c])
        BY <2>2, <2>3 DEF WebInv, RequestInv
      <3>2. outcome[c] = "transport"
        BY <1>1, <2>1, <3>1 DEF CallInv, DoneInv
      <3>3. code[c] \in {"transport_error", "response_parse_error"}
        BY <3>1, <3>2, CodeOfFacts DEF Outcomes
      <3>4. QED
        BY <2>3, <3>3 DEF VerdictOfRequest
    <2>4. CASE http[c] # "answered"
      BY <2>4 DEF VerdictOfRequest, WebInv, WebTypes, HttpStates
    <2>5. QED
      BY <2>3, <2>4
  <1>4. QED
    BY <1>1, <1>2, <1>3, SameVerdict
    DEF Config!Change, WebConfig!Change, Config!KindOf, WebConfig!KindOf

\* What an answered request tells its client.
LEMMA AnsweredVerdict ==
  ASSUME CallsInv, NEW c \in Calls, phase[c] = "done", Respond(c), WebTypes
  PROVE  /\ VerdictOfRequest(c)' = "done" => Intent(op[c]) = {} \/ applied[c] = 1
         /\ VerdictOfRequest(c)' = "refused" => Intent(op[c]) = {} \/ applied[c] = 0
         /\ VerdictOfRequest(c)' \in {"done", "refused", "in_doubt"}
  <1>1. http'[c] = "answered" /\ code'[c] = CodeOf(outcome[c])
    BY DEF Respond, WebTypes
  <1>2. outcome[c] \in Outcomes /\ outcome[c] # "none"
    BY DEF CallsInv, TypeOK, CallInv, DoneInv
  <1>3. /\ outcome[c] \in Successes => applied[c] = 1
        /\ outcome[c] \in Refusals => applied[c] = 0
        /\ outcome[c] \in Answers => Intent(op[c]) = {}
    BY DEF CallsInv, CallInv, DoneInv
  <1>4. /\ CodeOf(outcome[c]) \in Codes
        /\ CodeOf(outcome[c]) = "ok" => outcome[c] \in Successes \union Answers
        /\ CodeOf(outcome[c]) \in {"invalid_request", "not_found", "sophos_api_error"} =>
             outcome[c] \in Refusals \union Answers
    BY <1>2, CodeOfFacts
  <1>5. VerdictOfRequest(c)' = IF code'[c] = "ok" THEN "done"
           ELSE IF code'[c] \in {"invalid_request", "not_found", "sophos_api_error"}
                THEN "refused" ELSE "in_doubt"
    BY <1>1 DEF VerdictOfRequest
  <1>6. QED
    BY <1>1, <1>3, <1>4, <1>5

\* A call that intends no change makes none.
LEMMA NothingIntended ==
  ASSUME WellFormed, CallsInv, NEW c \in Calls, Intent(op[c]) = {}
  PROVE  applied[c] = 0
  <1>1. applied[c] = 1 => Intent(op[c]) # {}
    BY EffectKind
  <1>2. QED
    BY <1>1, EffectFacts

LEMMA WebConfigStep ==
  ASSUME WellFormed, CallsInv, WebInv, [WebNext]_allVars
  PROVE  [WebConfig!ConfigNext]_(WebConfig!configVars)
  <1>1. CASE UNCHANGED <<store, op, applied, http, code>>
    BY <1>1, SameVerdict DEF WebConfig!configVars
  <1>2. ASSUME NEW c \in Calls, Connect(c) \/ (RunBlocking(c) /\ Handle(c))
        PROVE  [WebConfig!ConfigNext]_(WebConfig!configVars)
    <2>1. UNCHANGED <<store, op, applied, code>>
      BY <1>2 DEF Connect, Handle, RunBlocking, vars
    <2>2. /\ VerdictOfRequest(c) = "pending" /\ VerdictOfRequest(c)' = "pending"
          /\ \A d \in Calls \ {c} : http'[d] = http[d]
      BY <1>2 DEF Connect, Handle, RunBlocking, VerdictOfRequest, WebInv, WebTypes
    <2>3. \A d \in Calls : VerdictOfRequest(d)' = VerdictOfRequest(d)
      BY <2>1, <2>2 DEF VerdictOfRequest
    <2>4. UNCHANGED [d \in Calls |-> VerdictOfRequest(d)]
      BY <2>3
    <2>5. QED
      BY <2>1, <2>4 DEF WebConfig!configVars
  <1>3. ASSUME NEW c \in Calls, Handle(c), Reply400(c)
        PROVE  [WebConfig!ConfigNext]_(WebConfig!configVars)
    <2>1. /\ UNCHANGED <<store, op, applied>> /\ http[c] = "receiving"
          /\ http' = [http EXCEPT ![c] = "answered"]
          /\ code' = [code EXCEPT ![c] = "invalid_request"]
          /\ WebTypes
      BY <1>3 DEF Handle, Reply400, vars, WebInv
    <2>2. applied[c] = 0
      BY <2>1 DEF WebInv, RequestInv, CallsInv, CallInv, NewInv
    <2>3. VerdictOfRequest(c) = "pending" /\ VerdictOfRequest(c)' = "refused"
      BY <2>1 DEF VerdictOfRequest, WebTypes
    <2>4. \A d \in Calls \ {c} : http'[d] = http[d] /\ code'[d] = code[d]
      BY <2>1 DEF WebTypes
    <2>5. QED
      BY <2>1, <2>2, <2>3, <2>4, WebConcludes
  <1>4. ASSUME NEW c \in Calls, Respond(c)
        PROVE  [WebConfig!ConfigNext]_(WebConfig!configVars)
    <2>1. /\ UNCHANGED <<store, op, applied>> /\ http[c] = "awaiting" /\ phase[c] = "done"
          /\ WebTypes
      BY <1>4 DEF Respond, vars, WebInv
    <2>2. VerdictOfRequest(c) = "pending"
      BY <2>1 DEF VerdictOfRequest
    <2>3. \A d \in Calls \ {c} : http'[d] = http[d] /\ code'[d] = code[d]
      BY <1>4 DEF Respond, WebInv, WebTypes
    <2>4. /\ VerdictOfRequest(c)' = "done" => Intent(op[c]) = {} \/ applied[c] = 1
          /\ VerdictOfRequest(c)' = "refused" => applied[c] = 0
          /\ VerdictOfRequest(c)' \in {"done", "refused", "in_doubt"}
      BY <1>4, <2>1, AnsweredVerdict, NothingIntended
    <2>5. QED
      BY <2>1, <2>2, <2>3, <2>4, WebConcludes
  <1>5. ASSUME NEW c \in Calls, Disconnect(c)
        PROVE  [WebConfig!ConfigNext]_(WebConfig!configVars)
    <2>1. /\ UNCHANGED <<store, op, applied, code>> /\ http[c] \in {"receiving", "awaiting"}
          /\ http' = [http EXCEPT ![c] = "gone"] /\ WebTypes
      BY <1>5 DEF Disconnect, vars, WebInv
    <2>2. VerdictOfRequest(c) = "pending" /\ VerdictOfRequest(c)' = "in_doubt"
      BY <2>1 DEF VerdictOfRequest, WebTypes
    <2>3. \A d \in Calls \ {c} : http'[d] = http[d] /\ code'[d] = code[d]
      BY <2>1 DEF WebTypes
    <2>4. QED
      BY <2>1, <2>2, <2>3, WebConcludes
  <1>6. ASSUME NEW c \in Calls, Start(c) \/ Work(c)
        PROVE  UNCHANGED <<store, op, applied, http, code>>
    BY <1>6 DEF Start, Work, Begin, ReadAnswered, WriteAnswered, TransportError, webVars
  <1>7. ASSUME NEW c \in Calls, WebFirewallStep(c)
        PROVE  [WebConfig!ConfigNext]_(WebConfig!configVars)
    <2>1. CASE ProcessWrite(c)
      BY <1>7, <2>1, WebWriteMaps DEF WebConfig!ConfigNext
    <2>2. CASE ProcessGet(c) \/ RefuseWrite(c) \/ RefuseOther(c)
      BY <1>1, <1>7, <2>2 DEF WebFirewallStep, FirewallStep, webVars, callVars,
                              ProcessGet, RefuseWrite, RefuseOther
    <2>3. QED
      BY <1>7, <2>1, <2>2 DEF WebFirewallStep, FirewallStep, Firewall
  <1>8. ASSUME Signal \/ Drained \/ DropQueued \/ Exit \/ UNCHANGED allVars
        PROVE  UNCHANGED <<store, op, applied, http, code>>
    BY <1>8 DEF Signal, Drained, DropQueued, Exit, allVars, webVars, vars
  <1>9. ASSUME NEW c \in Calls, Handle(c)
        PROVE  [WebConfig!ConfigNext]_(WebConfig!configVars)
    <2>1. Reply400(c) \/ RunBlocking(c)
      BY <1>9 DEF Handle
    <2>2. QED
      BY <1>2, <1>3, <1>9, <2>1
  <1>10. CASE UNCHANGED allVars
    BY <1>1, <1>8, <1>10
  <1>11. CASE WebNext
    <2>1. CASE Signal \/ Drained \/ DropQueued \/ Exit
      BY <1>1, <1>8, <2>1
    <2>2. CASE \E c \in Calls : Start(c) \/ Work(c)
      BY <1>1, <1>6, <2>2
    <2>3. CASE \E c \in Calls : Connect(c) \/ Handle(c)
      <3>1. PICK c \in Calls : Connect(c) \/ Handle(c)
        BY <2>3
      <3>2. QED
        BY <1>2, <1>9, <3>1
    <2>4. CASE \E c \in Calls : Respond(c) \/ Disconnect(c)
      <3>1. PICK c \in Calls : Respond(c) \/ Disconnect(c)
        BY <2>4
      <3>2. QED
        BY <1>4, <1>5, <3>1
    <2>5. CASE \E c \in Calls : WebFirewallStep(c)
      BY <1>7, <2>5
    <2>6. QED
      BY <1>11, <2>1, <2>2, <2>3, <2>4, <2>5 DEF WebNext
  <1>12. QED
    BY <1>10, <1>11

\* Towards its clients the service keeps the promise of ConfigStore: one change
\* at most, made if the answer says so, never made if it says it was refused.
THEOREM WebImplementsConfigStoreCorrect ==
  ASSUME WellFormed PROVE WebSpec => WebImplementsConfigStore
  <1>1. WebInit => WebConfig!ConfigInit
    BY WebConfigStart
  <1>2. (CallsInv /\ WebInv) /\ [WebNext]_allVars =>
          [WebConfig!ConfigNext]_(WebConfig!configVars)
    BY WebConfigStep
  <1>3. WebSpec => [](CallsInv /\ WebInv)
    BY WebInvCorrect
  <1>4. QED
    BY <1>1, <1>2, <1>3, PTL DEF WebSpec, WebImplementsConfigStore, WebConfig!ConfigSpec

=============================================================================
