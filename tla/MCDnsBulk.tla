------------------------------ MODULE MCDnsBulk -----------------------------
(***************************************************************************)
(* Instance of DnsBulk for TLC: a batch of two entries for one host, told  *)
(* apart by the reverse-lookup flag, and beside it a deletion, the call    *)
(* that turns whatever the batch has read stale.  MCDnsHostEntries has all *)
(* pairs of calls.                                                         *)
(***************************************************************************)
EXTENDS DnsBulk

CONSTANTS c1, c2, c3

MCBatch == <<c1, c2>>

\* The firewall holds no address that the client does not.
AllValid == <<>>

MCInit ==
  /\ BulkInit
  /\ op[c1].reverse = TRUE /\ op[c2].reverse # TRUE
  /\ op[c3].kind = "delete"

MCSpec == MCInit /\ [][BulkNext]_bulkVars /\ BulkFairness
=============================================================================
