---------------------------- MODULE MCWebServer -----------------------------
(***************************************************************************)
(* Instance of WebServer for TLC.  Its requests are the calls of           *)
(* DnsHostEntries cut down to what makes a difference to a client: which   *)
(* entry is written is left out, when and how is not.  One thread, so that *)
(* a request waits in the queue behind another.                            *)
(***************************************************************************)
EXTENDS WebServer, TLC

CONSTANTS c1, c2, h1, e1, Omitted

\* An update of nothing is refused before there is a read.
MCOperation ==
  [kind: {"get", "delete"}, key: Keys, value: {Omitted}, force: {FALSE}]
  \union [kind: {"add"}, key: Keys, value: Entries, force: BOOLEAN]
  \union [kind: {"update"}, key: Keys, value: Entries \union {Omitted}, force: {FALSE}]

MCRejected(o) == o.kind = "update" /\ o.value = Omitted
MCReads(o) == TRUE
MCReadable(o, answer) == "read"
MCSeen(o, content) == content

MCDecision(o, entry) ==
  CASE o.kind = "get" -> IF entry = Absent THEN "not_found" ELSE "found"
    [] o.kind = "add" -> IF entry # Absent /\ ~o.force THEN "invalid_request" ELSE "write"
    [] o.kind \in {"update", "delete"} -> IF entry = Absent THEN "invalid_request" ELSE "write"

MCAct(o, entry) ==
  CASE o.kind = "add" -> IF entry = Absent THEN "add" ELSE "update"
    [] o.kind = "update" -> "update"
    [] OTHER -> "remove"

MCWritten(o, entry) == IF o.kind = "delete" THEN Absent ELSE o.value

MCSuccess(o, entry) ==
  IF o.kind # "add" THEN "ok" ELSE IF entry = Absent THEN "created" ELSE "updated"

MCIntent(o) ==
  CASE o.kind = "get" -> {}
    [] o.kind = "add" -> IF o.force THEN {"insert", "overwrite"} ELSE {"insert"}
    [] o.kind = "update" -> {"overwrite"}
    [] o.kind = "delete" -> {"remove"}

\* The first request writes to h1. The second is of any kind, for h1, or adds h2.
MCInit ==
  /\ \E o, d \in MCOperation, s \in {Absent, e1} :
        /\ o.key = h1 /\ o.kind # "get" /\ ~MCRejected(o)
        /\ o.kind = "add" => o.force
        /\ d.kind = "add" => ~d.force
        /\ d.key # h1 => d.kind = "add"
        /\ op = (c1 :> o) @@ (c2 :> d)
        /\ store = [h \in Keys |-> IF h = h1 THEN s ELSE Absent]
  /\ WebInit

MCSpec == MCInit /\ [][WebNext]_allVars /\ WebFairness
=============================================================================
