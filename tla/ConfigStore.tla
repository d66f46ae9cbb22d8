---------------------------- MODULE ConfigStore -----------------------------
(***************************************************************************)
(* What the typed API promises of the firewall's objects, whatever the     *)
(* interleaving of calls, lost answers and late writes:                    *)
(*   - a call changes only the object it names, at most once, and only in  *)
(*     a way its operation intends: insert where nothing is, overwrite     *)
(*     what is there, remove it;                                           *)
(*   - a mutating call that succeeded has made its change;                 *)
(*   - a call that was refused has not, and never will;                    *)
(*   - a call left in doubt (a transport error, an unreadable answer) may  *)
(*     have made it, or may make it later.                                 *)
(*                                                                         *)
(* The resource modules implement it; it says nothing of the values they   *)
(* write.                                                                  *)
(***************************************************************************)
EXTENDS Naturals

CONSTANTS Calls, Keys, Contents, Absent

VARIABLES store,    \* the objects
          target,   \* the object a call names
          intent,   \* the kinds of change its operation allows
          changes,  \* how many it has made
          verdict   \* what its caller knows

configVars == <<store, target, intent, changes, verdict>>

Kinds == {"insert", "overwrite", "remove"}

ConfigInit ==
  /\ store \in [Keys -> Contents \union {Absent}]
  /\ target \in [Calls -> Keys]
  /\ intent \in [Calls -> SUBSET Kinds]
  /\ changes = [c \in Calls |-> 0]
  /\ verdict = [c \in Calls |-> "pending"]

KindOf(old, new) ==
  IF new = Absent THEN "remove" ELSE IF old = Absent THEN "insert" ELSE "overwrite"

\* The one change of a call that has not been refused.
Change(c) ==
  /\ verdict[c] \in {"pending", "in_doubt"}
  /\ changes[c] = 0
  /\ \E new \in Contents \union {Absent} :
        /\ KindOf(store[target[c]], new) \in intent[c]
        /\ ~(store[target[c]] = Absent /\ new = Absent)
        /\ store' = [store EXCEPT ![target[c]] = new]
  /\ changes' = [changes EXCEPT ![c] = 1]
  /\ UNCHANGED <<target, intent, verdict>>

\* The caller gets its answer.
Conclude(c) ==
  /\ verdict[c] = "pending"
  /\ \/ /\ intent[c] = {} \/ changes[c] = 1
        /\ verdict' = [verdict EXCEPT ![c] = "done"]
     \/ /\ changes[c] = 0
        /\ verdict' = [verdict EXCEPT ![c] = "refused"]
     \/ verdict' = [verdict EXCEPT ![c] = "in_doubt"]
  /\ UNCHANGED <<store, target, intent, changes>>

ConfigNext == \E c \in Calls : Change(c) \/ Conclude(c)

ConfigSpec == ConfigInit /\ [][ConfigNext]_configVars

=============================================================================
