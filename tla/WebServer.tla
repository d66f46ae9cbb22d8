----------------------------- MODULE WebServer ------------------------------
(***************************************************************************)
(* The HTTP service of sophos-firewall-web: a handler per route, which     *)
(* turns path, query and body into the arguments of one call of the typed  *)
(* API, runs it with run_blocking and answers.  A call here is a request   *)
(* to the service; Calls, op and the rest are those of TypedCalls.         *)
(*                                                                         *)
(* run_blocking hands the call to tokio's pool of blocking threads, which  *)
(* has a queue and a bound.  A client that disconnects takes its handler   *)
(* with it, and neither the queued nor the running call.  main serves      *)
(* until a signal, lets open requests finish, and returns, which waits for *)
(* the pool's threads.  Clients, tokio and hyper are modelled by what the  *)
(* service relies on.                                                      *)
(***************************************************************************)
EXTENDS TypedCalls, FiniteSets, Sequences

CONSTANT MaxThreads  \* of the pool, 512 unless set

ASSUME WebAssumption == MaxThreads \in Nat \ {0}

VARIABLES http,    \* where each request is
          code,    \* the code in its answer
          queue,   \* calls that wait for a thread
          server   \* what main is doing

webVars == <<http, code, queue, server>>
allVars == <<vars, webVars>>

\* A request is not there yet; on its way in; with its handler in run_blocking;
\* answered; or its client has gone.
HttpStates == {"none", "receiving", "awaiting", "answered", "gone"}

\* The codes of ErrorBody. HTTP says 400 for invalid_request, 404 for
\* not_found and 502 for the other errors.
Codes == {"none", "ok", "invalid_request", "not_found",
          "transport_error", "sophos_api_error", "response_parse_error"}

\* Faulty variant: an error that leaves the client in doubt is not told apart.
CodeOfLumped(o) ==
  CASE o \in Successes \union {"found"} -> "ok"
    [] o = "not_found" -> "not_found"
    [] OTHER -> "sophos_api_error"

\* Faulty variant: "no records" is not expected of a write.
CodeOfUnmapped(o) ==
  CASE o \in Successes \union {"found"} -> "ok"
    [] o = "not_found" -> "not_found"
    [] o = "invalid_request" -> "invalid_request"
    [] o = "transport" -> "transport_error"
    [] o = "api_error" -> "sophos_api_error"
    [] o = "response_parse" -> "response_parse_error"
    [] OTHER -> "internal_error"

\* The handlers' Ok and None, and From<Error> for ApiError. The operations do
\* not panic, so internal_error does not occur.
CodeOf(o) ==
  CASE o \in Successes \union {"found"} -> "ok"
    [] o \in {"not_found", "zero_records"} -> "not_found"
    [] o = "invalid_request" -> "invalid_request"
    [] o = "transport" -> "transport_error"
    [] o = "api_error" -> "sophos_api_error"
    [] o = "response_parse" -> "response_parse_error"

WebInit ==
  /\ Init
  /\ http = [c \in Calls |-> "none"]
  /\ code = [c \in Calls |-> "none"]
  /\ queue = <<>>
  /\ server = "serving"

-----------------------------------------------------------------------------
(* Requests and handlers.                                                  *)

\* A client connects and starts to send its request.
Connect(c) ==
  /\ server = "serving"
  /\ http[c] = "none"
  /\ http' = [http EXCEPT ![c] = "receiving"]
  /\ UNCHANGED <<vars, code, queue, server>>

Reply400(c) ==
  /\ http' = [http EXCEPT ![c] = "answered"]
  /\ code' = [code EXCEPT ![c] = "invalid_request"]
  /\ UNCHANGED queue

RunBlocking(c) ==
  /\ http' = [http EXCEPT ![c] = "awaiting"]
  /\ queue' = Append(queue, c)
  /\ UNCHANGED code

\* The request is complete. A body that the extractors or into_create,
\* into_update, with_field refuse ends the handler before there is a call.
Handle(c) ==
  /\ server \in {"serving", "draining"}
  /\ http[c] = "receiving"
  /\ Reply400(c) \/ RunBlocking(c)
  /\ UNCHANGED <<vars, server>>

\* The call has returned, and the handler answers.
Respond(c) ==
  /\ http[c] = "awaiting"
  /\ phase[c] = "done"
  /\ http' = [http EXCEPT ![c] = "answered"]
  /\ code' = [code EXCEPT ![c] = CodeOf(outcome[c])]
  /\ UNCHANGED <<vars, queue, server>>

\* The client goes away; its handler is dropped.
Disconnect(c) ==
  /\ http[c] \in {"receiving", "awaiting"}
  /\ http' = [http EXCEPT ![c] = "gone"]
  /\ UNCHANGED <<vars, code, queue, server>>

-----------------------------------------------------------------------------
(* The pool.                                                               *)

Busy == {c \in Calls : phase[c] \in {"reading", "writing"}}

\* A thread takes the first call of the queue.
Start(c) ==
  /\ queue # <<>> /\ Head(queue) = c
  /\ Cardinality(Busy) < MaxThreads
  /\ Begin(c)
  /\ queue' = Tail(queue)
  /\ UNCHANGED <<http, code, server>>

\* Its thread goes on.
Work(c) ==
  /\ ReadAnswered(c) \/ WriteAnswered(c) \/ TransportError(c)
  /\ UNCHANGED webVars

WebFirewallStep(c) == FirewallStep(c) /\ UNCHANGED webVars

-----------------------------------------------------------------------------
(* Shutdown.                                                               *)

\* Ctrl-C or SIGTERM: no more connections.
Signal ==
  /\ server = "serving"
  /\ server' = "draining"
  /\ UNCHANGED <<vars, http, code, queue>>

\* Faulty variant: main does not wait for the requests it has accepted.
DrainedAtOnce ==
  /\ server = "draining"
  /\ server' = "stopping"
  /\ UNCHANGED <<vars, http, code, queue>>

\* Faulty variant: handlers outlive their clients, and main waits for them.
DrainedOfGone ==
  /\ server = "draining"
  /\ \A c \in Calls : http[c] \in {"none", "answered"}
  /\ server' = "stopping"
  /\ UNCHANGED <<vars, http, code, queue>>

\* No request is left, and axum::serve and main return.
Drained ==
  /\ server = "draining"
  /\ \A c \in Calls : http[c] \notin {"receiving", "awaiting"}
  /\ server' = "stopping"
  /\ UNCHANGED <<vars, http, code, queue>>

\* The runtime goes. A call that is still queued is started or dropped.
DropQueued ==
  /\ server = "stopping"
  /\ queue # <<>>
  /\ queue' = Tail(queue)
  /\ UNCHANGED <<vars, http, code, server>>

\* Faulty variant: the process does not wait for the pool, as with
\* shutdown_background.
ExitAtOnce ==
  /\ server = "stopping"
  /\ server' = "exited"
  /\ queue' = <<>>
  /\ UNCHANGED <<vars, http, code>>

\* The threads have finished, and the process exits.
Exit ==
  /\ server = "stopping"
  /\ Busy = {} /\ queue = <<>>
  /\ server' = "exited"
  /\ UNCHANGED <<vars, http, code, queue>>

-----------------------------------------------------------------------------
WebNext ==
  \/ \E c \in Calls :
       \/ Connect(c)
       \/ Handle(c)
       \/ Respond(c)
       \/ Disconnect(c)
       \/ Start(c)
       \/ Work(c)
       \/ WebFirewallStep(c)
  \/ Signal
  \/ Drained
  \/ DropQueued
  \/ Exit

WebSpec == WebInit /\ [][WebNext]_allVars

\* The threads work, and give up on the firewall in the end; handlers and main
\* go on when they can. Nothing is assumed of clients or the firewall.
WebFairness ==
  /\ \A c \in Calls :
       WF_allVars(Start(c)) /\ WF_allVars(Work(c)) /\ WF_allVars(Respond(c))
  /\ WF_allVars(Drained)
  /\ WF_allVars(DropQueued)
  /\ WF_allVars(Exit)

FairWebSpec == WebSpec /\ WebFairness

-----------------------------------------------------------------------------
WebTypeOK ==
  /\ TypeOK
  /\ http \in [Calls -> HttpStates]
  /\ code \in [Calls -> Codes]
  /\ queue \in Seq(Calls)
  /\ server \in {"serving", "draining", "stopping", "exited"}

Queued(c) == \E i \in DOMAIN queue : queue[i] = c

\* What the client is told is what has happened, however long the call sat in
\* the queue and whoever else wrote: "ok" to a mutation means it was made; an
\* answer that blames the request or the firewall means it was not, and that
\* nothing is left, on the wire or in the queue, that still could.
\* (lib.rs:2415-2425, :2465-2480.)
StatusMatchesEffect ==
  \A c \in Calls :
    http[c] = "answered" =>
      /\ code[c] = "ok" /\ Intent(op[c]) # {} => applied[c] = 1
      /\ code[c] \in {"invalid_request", "not_found", "sophos_api_error"} =>
           applied[c] = 0 /\ request[c] = NoMessage /\ ~Queued(c)

\* Shutdown cuts nothing off: from the moment main stops, every request that
\* was accepted has been answered or its client has gone; and the process does
\* not exit with a call between its read and its write, even a call whose
\* client has gone. (main.rs:21-29, lib.rs:2421.)
ShutdownClean ==
  /\ server \in {"stopping", "exited"} =>
       \A c \in Calls : http[c] \in {"none", "answered", "gone"}
  /\ server = "exited" => \A c \in Calls : phase[c] \in {"new", "done"} /\ ~Queued(c)

\* Every request that reached its handler is answered, or its client goes,
\* though the firewall may never answer and every thread may be taken.
EveryRequestAnswered ==
  \A c \in Calls : http[c] = "awaiting" ~> http[c] \in {"answered", "gone"}

\* After a signal the process exits, unless a client keeps a request open that
\* it does not finish.
ShutdownCompletes ==
  (server = "draining" /\ \A c \in Calls : http[c] # "receiving") ~> server = "exited"

\* What the client knows.
VerdictOfRequest(c) ==
  CASE http[c] = "gone" -> "in_doubt"
    [] http[c] \in {"none", "receiving", "awaiting"} -> "pending"
    [] http[c] = "answered" /\ code[c] = "ok" -> "done"
    [] http[c] = "answered" /\ code[c] \in {"invalid_request", "not_found", "sophos_api_error"} ->
         "refused"
    [] OTHER -> "in_doubt"

WebConfig ==
  INSTANCE ConfigStore WITH
    target <- [c \in Calls |-> op[c].key],
    intent <- [c \in Calls |-> Intent(op[c])],
    changes <- applied,
    verdict <- [c \in Calls |-> VerdictOfRequest(c)]

\* The service keeps the promise of ConfigStore to its clients, of whom one
\* that did not wait for the answer is in doubt.
WebImplementsConfigStore == WebConfig!ConfigSpec

=============================================================================
