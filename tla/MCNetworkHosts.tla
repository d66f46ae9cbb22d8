--------------------------- MODULE MCNetworkHosts ---------------------------
(***************************************************************************)
(* Instance of NetworkHosts for TLC: two calls to one name, which is in    *)
(* turn one of an IPHost and of an FQDNHost.  The first is any call; the   *)
(* second makes what the first has read stale: it creates, updates or      *)
(* deletes.  Of the three IP types two are enough for the second call to   *)
(* write.                                                                  *)
(*                                                                         *)
(* The group ab is what is read where a&b is stored.  The name r&d is      *)
(* never found again: tried with IP hosts.                                 *)
(***************************************************************************)
EXTENDS NetworkHosts, TLC

CONSTANTS c1, c2, h, r_and_d, ab, a_and_b, text, x, y

MCDecoded == (ab :> ab) @@ (a_and_b :> ab) @@ (text :> text)

\* The second call.
Disturbances(r) ==
  {o \in Operation :
     /\ o.resource = r /\ o.kind # "get" /\ o.class # "IPRange"
     /\ o.kind # "delete" => o.value = y
     /\ r = "FQDNHost" /\ o.kind # "delete" => o.groups = {ab} /\ o.text = Omitted}

MCInit ==
  /\ \E r \in Resources, k \in Names :
     \E o \in {p \in Operation : p.resource = r /\ p.key = k},
        d \in {p \in Disturbances(r) : p.key = k}, s \in Objects(r) \union {Absent} :
        /\ k = r_and_d => r = "IPHost"
        /\ op = (c1 :> o) @@ (c2 :> d)
        /\ store = [n \in Names |-> IF n = k THEN s ELSE Absent]
  /\ HostInit

MCSpec == MCInit /\ [][Next]_vars
=============================================================================
