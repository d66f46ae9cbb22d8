--------------------------- MODULE MCMemberGroups ---------------------------
(***************************************************************************)
(* Instance of MemberGroups for TLC: two calls to one object, which is in  *)
(* turn of each of the five resources.  The first is any call; the second  *)
(* is the same once more, or is there to make what the first has read      *)
(* stale: a Create, a replacement or a deletion.  It takes two others to   *)
(* change the type of a service, by a deletion and a Create: a third call  *)
(* is made only then.                                                      *)
(*                                                                         *)
(* The member ab is what is read where a&b is stored; as the entry of a    *)
(* service, a&b stands for a broken one.  The name r&d is never found      *)
(* again: tried with URL groups.                                           *)
(***************************************************************************)
EXTENDS MemberGroups, TLC

CONSTANTS c1, c2, c3, g, r_and_d, ab, a_and_b, text, icmp

MCDecoded == (ab :> ab) @@ (a_and_b :> ab) @@ (text :> text)

\* The second call.
Disturbances(r) ==
  {o \in ListOps(r) \union NameOps(r) :
     /\ o.kind \in {"create", "replace", "delete"} /\ o.text = Omitted
     /\ o.kind # "delete" => o.list = {ab}}

\* One call, a disturbance, and a deletion.
MCInit ==
  /\ \E r \in Resources, k \in Names :
     \E o \in ListOps(r) \union NameOps(r) : \E d \in Disturbances(r) \union {o},
        s \in Objects(r) \union {Absent} :
        /\ o.key = k /\ d.key = k
        /\ k = r_and_d => r = "url_group"
        /\ op = (c1 :> o) @@ (c2 :> d) @@ (c3 :> Op("delete", k, r, {}, Omitted, Plain))
        /\ store = [n \in Names |-> IF n = k THEN s ELSE Absent]
  /\ GroupInit

\* The deletion is made only beside the Create of a service of the other type.
ThirdCall ==
  \/ phase'[c3] = "new"
  \/ op[c1].resource = "service" /\ op[c2].kind = "create" /\ op[c2].class = icmp

MCSpec == MCInit /\ [][Next]_vars
=============================================================================
