---------------------------- MODULE OrderedBatch ----------------------------
(***************************************************************************)
(* What add_many and update_many promise of a batch, whoever else makes    *)
(* calls:                                                                  *)
(*   - the entries are taken up in their order, each after the one before  *)
(*     it was counted;                                                     *)
(*   - an entry changes the firewall at most once, not before its turn,    *)
(*     and after it was counted only if its caller was left in doubt;      *)
(*   - it is counted for what it did: as created if it inserted its host,  *)
(*     as updated if it overwrote it, and as failed if it did neither or   *)
(*     its caller cannot know; a failed one is listed;                     *)
(*   - the batch ends with its last entry, or with the first that failed,  *)
(*     unless it is to go on.                                              *)
(*                                                                         *)
(* DnsBulk implements it.                                                  *)
(***************************************************************************)
EXTENDS Naturals, Sequences

CONSTANT Batch  \* the calls of the entries

VARIABLES keepGoing,  \* a failure does not end the batch
          turn,       \* the entry whose turn it is
          ended,      \* a failure has ended the batch
          verdict,    \* what is known of each entry
          effect,     \* what it has done
          tally       \* the counts

batchVars == <<keepGoing, turn, ended, verdict, effect, tally>>

Entries == DOMAIN Batch

BatchInit ==
  /\ keepGoing \in BOOLEAN
  /\ turn = 1
  /\ ended = FALSE
  /\ verdict = [i \in Entries |-> "waiting"]
  /\ effect = [i \in Entries |-> "nothing"]
  /\ tally = [created |-> 0, updated |-> 0, failed |-> 0, errors |-> <<>>]

\* An entry is taken up when its turn has come.
TakeUp(i) ==
  /\ i = turn /\ ~ended
  /\ verdict[i] = "waiting"
  /\ verdict' = [verdict EXCEPT ![i] = "called"]
  /\ UNCHANGED <<keepGoing, turn, ended, effect, tally>>

\* It takes effect, perhaps long after its caller has given up on it.
Effect(i) ==
  /\ verdict[i] \in {"called", "in_doubt"}
  /\ effect[i] = "nothing"
  /\ \E e \in {"inserted", "overwrote"} : effect' = [effect EXCEPT ![i] = e]
  /\ UNCHANGED <<keepGoing, turn, ended, verdict, tally>>

\* It is counted for what it did, and the next one's turn comes.
Succeed(i) ==
  /\ i = turn /\ ~ended
  /\ verdict[i] = "called"
  /\ \/ /\ effect[i] = "inserted"
        /\ verdict' = [verdict EXCEPT ![i] = "created"]
        /\ tally' = [tally EXCEPT !.created = @ + 1]
     \/ /\ effect[i] = "overwrote"
        /\ verdict' = [verdict EXCEPT ![i] = "updated"]
        /\ tally' = [tally EXCEPT !.updated = @ + 1]
  /\ turn' = turn + 1
  /\ UNCHANGED <<keepGoing, ended, effect>>

\* It is counted as failed: it did nothing and never will, or nobody knows.
Fail(i) ==
  /\ i = turn /\ ~ended
  /\ verdict[i] = "called"
  /\ \/ effect[i] = "nothing" /\ verdict' = [verdict EXCEPT ![i] = "refused"]
     \/ verdict' = [verdict EXCEPT ![i] = "in_doubt"]
  /\ tally' = [tally EXCEPT !.failed = @ + 1, !.errors = Append(@, Batch[i])]
  /\ IF keepGoing THEN turn' = turn + 1 /\ UNCHANGED ended
                  ELSE ended' = TRUE /\ UNCHANGED turn
  /\ UNCHANGED <<keepGoing, effect>>

BatchNext == \E i \in Entries : TakeUp(i) \/ Effect(i) \/ Succeed(i) \/ Fail(i)

BatchSpec == BatchInit /\ [][BatchNext]_batchVars
=============================================================================
