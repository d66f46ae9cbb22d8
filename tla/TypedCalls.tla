----------------------------- MODULE TypedCalls -----------------------------
(***************************************************************************)
(* The shape that every operation of the typed API has, in all of          *)
(* src/src/resources: it may be refused before anything is sent; it may    *)
(* read the object it names; it may then stop, or send one write computed  *)
(* from its arguments and from what it read; and it returns.  Any number   *)
(* of threads make such calls on one client, and nothing holds the others  *)
(* off between a call's read and its write.                                *)
(*                                                                         *)
(* A resource module says, by the operators below, what its operations     *)
(* read, decide and write, and INSTANCEs this one.                         *)
(***************************************************************************)
EXTENDS Exchange

CONSTANTS Operation,      \* the arguments a call can have; o.key names the object
          Entries,        \* what a read is parsed into
          Rejected(_),    \* o is refused before anything is sent
          Reads(_),       \* o starts with a Get
          Readable(_, _), \* "read", or the error o makes of an answer to its Get
          Seen(_, _),     \* the entry o sees where the firewall holds a content
          Decision(_, _), \* "write", or how o ends, when it has seen an entry
          Act(_, _),      \* the operation of o's write ...
          Written(_, _),  \* ... and its payload
          Success(_, _),  \* what o returns when its write succeeds
          Intent(_)       \* the kinds of change o is meant to make

VARIABLES op,        \* the arguments of each call
          phase,     \* where its thread is
          existing,  \* what it has read
          outcome    \* what it returned

callVars == <<op, phase, existing, outcome>>
vars == <<store, request, reply, waiting, raw, applied, before, after,
          op, phase, existing, outcome>>

Phases == {"new", "reading", "writing", "done"}

ReadErrors == {"invalid_request", "zero_records", "response_parse"}
Successes == {"created", "updated", "ok"}
Refusals == {"invalid_request", "api_error", "zero_records"}
Answers == {"found", "not_found"}

Outcomes == {"none", "response_parse", "transport"} \union Successes \union Refusals \union Answers

TypeOK ==
  /\ ExchangeTypeOK
  /\ op \in [Calls -> Operation]
  /\ phase \in [Calls -> Phases]
  /\ existing \in [Calls -> Entries \union {Absent}]
  /\ outcome \in [Calls -> Outcomes]

-----------------------------------------------------------------------------
Init ==
  /\ ExchangeInit
  /\ op \in [Calls -> Operation]
  /\ phase = [c \in Calls |-> "new"]
  /\ existing = [c \in Calls |-> Absent]
  /\ outcome = [c \in Calls |-> "none"]

Return(c, o) ==
  /\ phase' = [phase EXCEPT ![c] = "done"]
  /\ outcome' = [outcome EXCEPT ![c] = o]

\* execute has returned, and the call with it.
Finish(c, o) == Hangup(c) /\ Return(c, o)

\* The call sends the write it makes of what it has seen.
Submit(c, e) ==
  /\ Post(c, Act(op[c], e), op[c].key, Written(op[c], e))
  /\ phase' = [phase EXCEPT ![c] = "writing"]
  /\ UNCHANGED outcome

\* A call starts: it is refused, reads first, or goes straight to its write.
Begin(c) ==
  /\ phase[c] = "new"
  /\ \/ /\ Rejected(op[c])
        /\ Return(c, "invalid_request")
        /\ UNCHANGED <<request, reply, waiting>>
     \/ /\ ~Rejected(op[c]) /\ Reads(op[c])
        /\ Post(c, "get", op[c].key, Absent)
        /\ phase' = [phase EXCEPT ![c] = "reading"]
        /\ UNCHANGED outcome
     \/ /\ ~Rejected(op[c]) /\ ~Reads(op[c])
        /\ Submit(c, Absent)
  /\ UNCHANGED <<store, raw, applied, before, after, op, existing>>

\* "read", or the error that the answer to a Get is turned into.
ReadOutcome(o, answer) ==
  CASE answer.kind \in {"api_error", "exists", "missing"} -> "api_error"
    [] answer.kind = "parse_error" -> "response_parse"
    [] OTHER -> Readable(o, answer)

\* What o sees in the answer to its Get.
Entry(o, answer) == IF answer.kind = "resource" THEN Seen(o, answer.content) ELSE Absent

\* Faulty variant: a call that has found its object writes, whatever it decides.
ReadAnsweredUndecided(c) ==
  /\ phase[c] = "reading"
  /\ reply[c] # NoMessage
  /\ LET o == op[c]
         e == Entry(o, reply[c])
     IN  \/ /\ ReadOutcome(o, reply[c]) # "read"
            /\ Finish(c, ReadOutcome(o, reply[c]))
            /\ UNCHANGED existing
         \/ /\ ReadOutcome(o, reply[c]) = "read"
            /\ existing' = [existing EXCEPT ![c] = e]
            /\ \/ e = Absent /\ Decision(o, e) # "write" /\ Finish(c, Decision(o, e))
               \/ (e # Absent \/ Decision(o, e) = "write") /\ Submit(c, e)
  /\ UNCHANGED <<store, raw, applied, before, after, op>>

\* The answer to the read arrives: it is an error, it is all that the call
\* wants, or the write follows.
ReadAnswered(c) ==
  /\ phase[c] = "reading"
  /\ reply[c] # NoMessage
  /\ LET o == op[c]
         e == Entry(o, reply[c])
     IN  \/ /\ ReadOutcome(o, reply[c]) # "read"
            /\ Finish(c, ReadOutcome(o, reply[c]))
            /\ UNCHANGED existing
         \/ /\ ReadOutcome(o, reply[c]) = "read"
            /\ existing' = [existing EXCEPT ![c] = e]
            /\ \/ Decision(o, e) # "write" /\ Finish(c, Decision(o, e))
               \/ Decision(o, e) = "write" /\ Submit(c, e)
  /\ UNCHANGED <<store, raw, applied, before, after, op>>

\* Faulty variant: any answer that parses is a success.
WriteOutcomeUnchecked(c) ==
  IF reply[c].kind = "parse_error" THEN "response_parse" ELSE Success(op[c], existing[c])

\* What execute and first_resource make of the answer to a write.
WriteOutcome(c) ==
  CASE reply[c].kind = "resource" -> Success(op[c], existing[c])
    [] reply[c].kind = "zero_records" -> "zero_records"
    [] reply[c].kind \in {"no_resource", "parse_error"} -> "response_parse"
    [] OTHER -> "api_error"

\* The answer to the write arrives.
WriteAnswered(c) ==
  /\ phase[c] = "writing"
  /\ reply[c] # NoMessage
  /\ Finish(c, WriteOutcome(c))
  /\ UNCHANGED <<store, raw, applied, before, after, op, existing>>

\* Faulty variant: a failed exchange is repeated instead of reported.
TransportRetried(c) ==
  /\ phase[c] \in {"reading", "writing"}
  /\ Post(c, "get", op[c].key, Absent)
  /\ phase' = [phase EXCEPT ![c] = "reading"]
  /\ UNCHANGED <<store, raw, applied, before, after, op, existing, outcome>>

\* send_xml fails: no connection, the 30 second timeout, an HTTP status that
\* is not 2xx, an answer cut off. What the firewall does with the request is
\* not affected.
TransportError(c) ==
  /\ phase[c] \in {"reading", "writing"}
  /\ Finish(c, "transport")
  /\ UNCHANGED <<store, raw, applied, before, after, op, existing>>

FirewallStep(c) == Firewall(c) /\ UNCHANGED callVars

Next ==
  \E c \in Calls :
    \/ Begin(c)
    \/ ReadAnswered(c)
    \/ WriteAnswered(c)
    \/ TransportError(c)
    \/ FirewallStep(c)

Spec == Init /\ [][Next]_vars

\* A thread that waits is woken by an answer or by the HTTP client's timeout.
\* Nothing is assumed of the firewall, or of who makes calls.
Fairness ==
  \A c \in Calls :
    WF_vars(ReadAnswered(c) \/ WriteAnswered(c) \/ TransportError(c))

FairSpec == Spec /\ Fairness

-----------------------------------------------------------------------------
\* A call changes the firewall at most once, and one that only reads never
\* does. One that succeeded has, one that was rejected by the client or refused
\* by the firewall has not and has no request left that still could: only a
\* transport error or an unreadable answer leaves the caller in doubt.
\* (Every ? between a read and a write, and http.rs:48-66.)
AnswerMatchesEffect ==
  \A c \in Calls :
    /\ applied[c] <= 1
    /\ Intent(op[c]) = {} => applied[c] = 0
    /\ phase[c] = "done" /\ outcome[c] \in Successes => applied[c] = 1
    /\ phase[c] = "done" /\ outcome[c] \in Refusals => applied[c] = 0 /\ request[c] = NoMessage

\* What a call sends goes out once: a Get at most, from a call that is new, then
\* a write at most, while it has changed nothing and nothing it has sent is left
\* unprocessed. Neither a failed exchange nor a late answer makes it send again.
\* (execute has no retry: client.rs:34-41, http.rs:41-63.)
NothingResent ==
  [][\A c \in Calls :
       request'[c] \notin {request[c], NoMessage} =>
         /\ request[c] = NoMessage /\ applied[c] = 0
         /\ phase[c] \in {"new", "reading"}
         /\ phase[c] = "reading" => request'[c].act # "get"]_vars

\* What o sees where a content is stored, if it looks.
View(o, stored) ==
  IF Reads(o) /\ stored # Absent THEN Seen(o, stored) ELSE Absent

\* A call whose object is, when its write takes effect, as it was when the call
\* read it is atomic: what it checked holds of the object it replaced, what it
\* leaves is what its operation makes of that object, and a success says so.
\* (The get_ call, the checks and the payload of every operation.)
UnracedCallIsAtomic ==
  \A c \in Calls :
    LET seen == View(op[c], before[c])
    IN  applied[c] = 1 /\ (Reads(op[c]) => before[c] = raw[c]) =>
          /\ ~Rejected(op[c]) /\ Decision(op[c], seen) = "write"
          /\ after[c] = Written(op[c], seen)
          /\ outcome[c] \in Successes => outcome[c] = Success(op[c], seen)

\* A caller that was left in doubt can make its call again: if the first one has
\* taken effect, and the second finds what it wrote and reads it as it is stored,
\* the second writes the same. (README.md:96, "idempotently", of add_entry with
\* force; and the merges of every update.)
RepeatChangesNothing ==
  \A c, d \in Calls :
    /\ c # d /\ op[c] = op[d]
    /\ applied[c] = 1 /\ applied[d] = 1
    /\ after[c] # Absent /\ before[d] = after[c]
    /\ Reads(op[d]) => raw[d] = after[c] /\ Seen(op[d], after[c]) = after[c]
    => after[d] = after[c]

\* The other calls whose writes left what the write of c replaced: those that can
\* have come between c's Get and its write.
Overtakers(c) ==
  {d \in Calls \ {c} : op[d].key = op[c].key /\ applied[d] > 0 /\ after[d] = before[c]}

\* Every call that was begun returns, even if the firewall never answers.
EveryCallReturns ==
  \A c \in Calls : phase[c] # "new" ~> phase[c] = "done"

\* The refinement mapping to the abstract store.
VerdictOf(o) ==
  CASE o = "none" -> "pending"
    [] o \in Successes \union Answers -> "done"
    [] o \in Refusals -> "refused"
    [] o \in {"response_parse", "transport"} -> "in_doubt"

Config ==
  INSTANCE ConfigStore WITH
    target <- [c \in Calls |-> op[c].key],
    intent <- [c \in Calls |-> Intent(op[c])],
    changes <- applied,
    verdict <- [c \in Calls |-> VerdictOf(outcome[c])]

\* The calls keep the promise of ConfigStore: one change at most, of the
\* intended kind, to the object named, made if the call succeeded and never
\* made if it was refused.
ImplementsConfigStore == Config!ConfigSpec

=============================================================================
