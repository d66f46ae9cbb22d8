------------------------------- MODULE DnsBulk ------------------------------
(***************************************************************************)
(* DnsApi::add_many and update_many of src/src/resources/dns.rs: one thread *)
(* makes the calls of a batch one after another and counts what they       *)
(* return, while other threads may make calls of their own.                *)
(***************************************************************************)
EXTENDS DnsHostEntries, Sequences

CONSTANT Batch  \* the calls of the batch, in the order of its entries

Items == DOMAIN Batch
Others == Calls \ {Batch[i] : i \in Items}

ASSUME BatchAssumption ==
  /\ Batch \in Seq(Calls)
  /\ \A i, j \in Items : Batch[i] = Batch[j] => i = j

VARIABLES continueOnError,
          item,     \* the entry the loop is at
          stopped,  \* it has left the loop early
          result    \* DnsBulkMutationResult

dnsVars == <<store, request, reply, waiting, raw, applied, before, after,
             op, phase, existing, outcome>>
bulkVars == <<dnsVars, continueOnError, item, stopped, result>>

\* add_many: one force for all entries; update_many: updates only.
BulkInit ==
  /\ Init
  /\ \/ \E f \in BOOLEAN : \A i \in Items : op[Batch[i]].kind = "add" /\ op[Batch[i]].force = f
     \/ \A i \in Items : op[Batch[i]].kind = "update"
  /\ continueOnError \in BOOLEAN
  /\ item = 1
  /\ stopped = FALSE
  /\ result = [created |-> 0, updated |-> 0, failed |-> 0, errors |-> <<>>]

Over == stopped \/ item > Len(Batch)

\* Faulty variant: an entry after a failed one is not started.
BeginItemIfClean ==
  /\ ~Over /\ result.failed = 0
  /\ Begin(Batch[item])
  /\ UNCHANGED <<continueOnError, item, stopped, result>>

\* The loop calls add_entry or update_entry for its entry.
BeginItem ==
  /\ ~Over
  /\ Begin(Batch[item])
  /\ UNCHANGED <<continueOnError, item, stopped, result>>

Succeeded(c) == outcome[c] \in {"created", "updated", "ok"}

\* Faulty variant: every Ok of a batch of additions counts as a creation.
CountCreated(c) ==
  CASE outcome[c] = "ok" -> [result EXCEPT !.updated = @ + 1]
    [] outcome[c] \in {"created", "updated"} -> [result EXCEPT !.created = @ + 1]
    [] OTHER -> [result EXCEPT !.failed = @ + 1, !.errors = Append(@, c)]

\* What the loop adds to the result when the call of its entry returns.
Count(c) ==
  CASE outcome[c] \in {"updated", "ok"} -> [result EXCEPT !.updated = @ + 1]
    [] outcome[c] = "created" -> [result EXCEPT !.created = @ + 1]
    [] OTHER -> [result EXCEPT !.failed = @ + 1, !.errors = Append(@, c)]

\* Faulty variant: the loop goes on after an error in any case.
TallyOnwards ==
  /\ ~Over
  /\ phase[Batch[item]] = "done"
  /\ result' = Count(Batch[item])
  /\ item' = item + 1
  /\ UNCHANGED <<dnsVars, continueOnError, stopped>>

\* Faulty variant: the calls are started without waiting for each other.
TallyEarly ==
  /\ ~Over
  /\ phase[Batch[item]] # "new"
  /\ result' = Count(Batch[item])
  /\ item' = item + 1
  /\ UNCHANGED <<dnsVars, continueOnError, stopped>>

\* Faulty variant: the loop breaks before it has recorded the failure.
TallyBreaksFirst ==
  /\ ~Over
  /\ phase[Batch[item]] = "done"
  /\ IF Succeeded(Batch[item]) \/ continueOnError
       THEN item' = item + 1 /\ result' = Count(Batch[item]) /\ UNCHANGED stopped
       ELSE stopped' = TRUE /\ UNCHANGED <<item, result>>
  /\ UNCHANGED <<dnsVars, continueOnError>>

\* The call returns; the loop goes on, or breaks.
Tally ==
  /\ ~Over
  /\ phase[Batch[item]] = "done"
  /\ result' = Count(Batch[item])
  /\ IF Succeeded(Batch[item]) \/ continueOnError
       THEN item' = item + 1 /\ UNCHANGED stopped
       ELSE stopped' = TRUE /\ UNCHANGED item
  /\ UNCHANGED <<dnsVars, continueOnError>>

CallStep ==
  /\ \/ \E c \in Others : Begin(c)
     \/ \E c \in Calls : ReadAnswered(c) \/ WriteAnswered(c) \/ TransportError(c) \/ FirewallStep(c)
  /\ UNCHANGED <<continueOnError, item, stopped, result>>

BulkNext == BeginItem \/ Tally \/ CallStep

\* The loop's own steps are plain code; its calls are as in DnsHostEntries.
BulkFairness ==
  /\ WF_bulkVars(BeginItem)
  /\ WF_bulkVars(Tally)
  /\ \A c \in Calls :
       WF_bulkVars(/\ ReadAnswered(c) \/ WriteAnswered(c) \/ TransportError(c)
                   /\ UNCHANGED <<continueOnError, item, stopped, result>>)

BulkSpec == BulkInit /\ [][BulkNext]_bulkVars /\ BulkFairness

-----------------------------------------------------------------------------
\* The entries the loop is through with.
Processed == {i \in Items : i < item \/ (stopped /\ i = item)}


\* The counts speak of the firewall and not only of answers: "created" entries
\* were not there before and "updated" ones were, no more entries were written
\* than succeeded or failed in doubt, and every processed entry is counted
\* once. (dns.rs:379-425.)
CountsMatchEffects ==
  LET wrote(i) == applied[Batch[i]] = 1
      inDoubt(i) == outcome[Batch[i]] \in {"transport", "response_parse"}
  IN  /\ result.created + result.updated + result.failed = Cardinality(Processed)
      /\ Len(result.errors) = result.failed
      /\ result.created <= Cardinality({i \in Processed : wrote(i) /\ before[Batch[i]] = Absent})
      /\ result.updated <= Cardinality({i \in Processed : wrote(i) /\ before[Batch[i]] # Absent})
      /\ Cardinality({i \in Processed : wrote(i)})
           <= result.created + result.updated + Cardinality({i \in Processed : inDoubt(i)})

\* Without continue_on_error nothing of the batch reaches the firewall after
\* its first failure but what the failed call itself had sent: its entries
\* after that are never begun. (dns.rs:394-399, 417-421.)
NothingAfterFailure ==
  ~continueOnError =>
    \A i, j \in Items :
      i < j /\ phase[Batch[i]] = "done" /\ ~Succeeded(Batch[i]) =>
        phase[Batch[j]] = "new" /\ request[Batch[j]] = NoMessage /\ applied[Batch[j]] = 0

\* Entries of a batch that name the same host take effect in the batch's order:
\* when the batch is over, no other call wrote, and no call of it was left in
\* doubt, each host holds what the last entry written for it asked for.
LastEntryWins ==
  /\ Over
  /\ \A c \in Others : applied[c] = 0 /\ request[c] = NoMessage
  /\ \A i \in Items : outcome[Batch[i]] \notin {"transport", "response_parse"}
  => \A i \in Items :
       applied[Batch[i]] = 1
       /\ (\A j \in Items : j > i /\ op[Batch[j]].key = op[Batch[i]].key => applied[Batch[j]] = 0)
         => store[op[Batch[i]].key] = after[Batch[i]]

\* The refinement mapping to the abstract batch.
VerdictOn(i) ==
  CASE i \notin Processed -> IF phase[Batch[i]] = "new" THEN "waiting" ELSE "called"
    [] i \in Processed /\ outcome[Batch[i]] = "created" -> "created"
    [] i \in Processed /\ outcome[Batch[i]] \in {"updated", "ok"} -> "updated"
    [] i \in Processed /\ outcome[Batch[i]] \in {"transport", "response_parse"} -> "in_doubt"
    [] i \in Processed /\ outcome[Batch[i]] \notin {"created", "updated", "ok", "transport",
                                                   "response_parse"} -> "refused"

EffectOf(i) ==
  IF applied[Batch[i]] = 0 THEN "nothing"
  ELSE IF before[Batch[i]] = Absent THEN "inserted" ELSE "overwrote"

Order ==
  INSTANCE OrderedBatch WITH
    keepGoing <- continueOnError,
    turn <- item,
    ended <- stopped,
    verdict <- [i \in Items |-> VerdictOn(i)],
    effect <- [i \in Items |-> EffectOf(i)],
    tally <- result

\* The batch keeps the promise of OrderedBatch, whatever other calls do and
\* whenever the firewall gets to what was sent: entries in order, each counted
\* once and for what it did, and none that was counted as refused taking effect
\* afterwards. (dns.rs:372-427.)
ImplementsOrderedBatch == Order!BatchSpec

\* A batch returns, even if the firewall answers nothing and others keep
\* changing the same hosts.
BatchReturns == <>Over
=============================================================================
