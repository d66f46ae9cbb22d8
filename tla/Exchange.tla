------------------------------ MODULE Exchange ------------------------------
(***************************************************************************)
(* One SophosClient::execute after another: a request is posted, the       *)
(* firewall processes it at some later time, and the thread that waits     *)
(* takes the answer or gives up (client.rs, http.rs).                      *)
(*                                                                         *)
(* The firewall is not part of the repository.  Its behaviour is what      *)
(* src/ expects of it: a Get returns the object or "Number of records      *)
(* Zero.", operation "add" refuses a name that exists, "set" writes the    *)
(* object in any case, "update" and Remove refuse a name that does not     *)
(* exist.  It may refuse anything for reasons of its own.                  *)
(*                                                                         *)
(* A resource module EXTENDS this one and says what each call posts and    *)
(* what it does with the answers.                                          *)
(***************************************************************************)
EXTENDS Naturals

CONSTANTS Calls,      \* the calls made on the client, on any thread
          Keys,       \* object names
          Contents,   \* what the firewall can store under a name
          Absent,     \* nothing stored, nothing carried
          NoMessage   \* no request, or no reply, on the wire

VARIABLES store,      \* the firewall's objects
          request,    \* the request of a call the firewall has yet to process
          reply,      \* the answer on its way back to a call
          waiting,    \* whether a call's thread sits in send_xml
          \* history, for the properties
          raw,        \* what was stored when a call's last Get was processed
          applied,    \* how often a call has changed the store
          before,     \* what its change replaced ...
          after       \* ... and what it wrote

exchangeVars == <<store, request, reply, waiting, raw, applied, before, after>>

WriteActs == {"add", "set", "update", "remove"}

Request ==
  [act: {"get"} \union WriteActs, key: Keys, content: Contents \union {Absent}]

\* What parse_response_xml makes of an answer: the expected resource, an answer
\* without it (a login failure is one), no records, an object that already
\* exists, one that does not, another refusal, or XML that does not parse.
ReplyKinds == {"resource", "no_resource", "zero_records", "exists", "missing",
               "api_error", "parse_error"}

Reply == [kind: ReplyKinds, content: Contents \union {Absent}]

ExchangeTypeOK ==
  /\ store \in [Keys -> Contents \union {Absent}]
  /\ request \in [Calls -> Request \union {NoMessage}]
  /\ reply \in [Calls -> Reply \union {NoMessage}]
  /\ waiting \in [Calls -> BOOLEAN]
  /\ raw \in [Calls -> Contents \union {Absent}]
  /\ applied \in [Calls -> Nat]
  /\ before \in [Calls -> Contents \union {Absent}]
  /\ after \in [Calls -> Contents \union {Absent}]

ExchangeInit ==
  /\ store \in [Keys -> Contents \union {Absent}]
  /\ request = [c \in Calls |-> NoMessage]
  /\ reply = [c \in Calls |-> NoMessage]
  /\ waiting = [c \in Calls |-> FALSE]
  /\ raw = [c \in Calls |-> Absent]
  /\ applied = [c \in Calls |-> 0]
  /\ before = [c \in Calls |-> Absent]
  /\ after = [c \in Calls |-> Absent]

historyVars == <<raw, applied, before, after>>

-----------------------------------------------------------------------------
(* The client's side.                                                      *)

\* execute posts the request and the thread blocks.
Post(c, act, key, content) ==
  /\ request' = [request EXCEPT ![c] = [act |-> act, key |-> key, content |-> content]]
  /\ reply' = [reply EXCEPT ![c] = NoMessage]
  /\ waiting' = [waiting EXCEPT ![c] = TRUE]

\* The thread has the answer and posts nothing more.
Hangup(c) ==
  /\ waiting' = [waiting EXCEPT ![c] = FALSE]
  /\ reply' = [reply EXCEPT ![c] = NoMessage]
  /\ UNCHANGED request

-----------------------------------------------------------------------------
(* The firewall's side (external).                                         *)

\* Whether an object of this content may be written over, or removed from,
\* what is stored.
Accepts(act, stored) ==
  \/ act = "add" /\ stored = Absent
  \/ act = "set"
  \/ act \in {"update", "remove"} /\ stored # Absent

\* The answer goes to the call if its thread still waits for it.
Answer(c, kind, content) ==
  /\ request' = [request EXCEPT ![c] = NoMessage]
  /\ reply' = [reply EXCEPT ![c] = IF waiting[c]
                                     THEN [kind |-> kind, content |-> content]
                                     ELSE NoMessage]
  /\ UNCHANGED waiting

ProcessGet(c) ==
  /\ request[c] # NoMessage
  /\ request[c].act = "get"
  /\ LET stored == store[request[c].key]
     IN  /\ IF stored = Absent THEN Answer(c, "zero_records", Absent)
                               ELSE Answer(c, "resource", stored)
         /\ raw' = [raw EXCEPT ![c] = stored]
  /\ UNCHANGED <<store, applied, before, after>>

\* A write takes effect; the answer to it can still be unreadable.
ProcessWrite(c) ==
  /\ request[c] # NoMessage
  /\ request[c].act \in WriteActs
  /\ LET r == request[c]
         new == IF r.act = "remove" THEN Absent ELSE r.content
     IN  /\ Accepts(r.act, store[r.key])
         /\ store' = [store EXCEPT ![r.key] = new]
         /\ applied' = [applied EXCEPT ![c] = @ + 1]
         /\ before' = [before EXCEPT ![c] = store[r.key]]
         /\ after' = [after EXCEPT ![c] = new]
  /\ \E kind \in {"resource", "parse_error"} : Answer(c, kind, Absent)
  /\ UNCHANGED raw

\* A write is refused for what is, or is not, stored.
RefuseWrite(c) ==
  /\ request[c] # NoMessage
  /\ request[c].act \in WriteActs
  /\ ~Accepts(request[c].act, store[request[c].key])
  /\ \E kind \in IF request[c].act = "add" THEN {"exists"}
                                            ELSE {"missing", "zero_records"} :
        Answer(c, kind, Absent)
  /\ UNCHANGED <<store, raw, applied, before, after>>

\* Anything is refused for another reason: permissions, a failed login, ...
RefuseOther(c) ==
  /\ request[c] # NoMessage
  /\ \E kind \in {"api_error", "no_resource", "parse_error"} :
        Answer(c, kind, Absent)
  /\ UNCHANGED <<store, raw, applied, before, after>>

Firewall(c) ==
  ProcessGet(c) \/ ProcessWrite(c) \/ RefuseWrite(c) \/ RefuseOther(c)

=============================================================================
