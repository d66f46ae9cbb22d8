--------------------------- MODULE MCNamedObjects ---------------------------
(***************************************************************************)
(* Instance of NamedObjects for TLC: two calls to one object, or to one    *)
(* setting.  The first is any call; the second makes what the first has    *)
(* read stale.  A field is absent, a text, an object with some of its      *)
(* subfields, or a list; odd cannot be written, neither as a field nor as  *)
(* a subfield; ab is what is read where a&b is stored.  The name r&d is    *)
(* read as rd: tried with a rule.                                          *)
(***************************************************************************)
EXTENDS NamedObjects, TLC

CONSTANTS c1, c2, rule, rAndD, rd, singleton, f, odd, s1, s2, ab, aAndB

MCDecoded == (rule :> rule) @@ (rAndD :> rd) @@ (rd :> rd) @@ (ab :> ab) @@ (aAndB :> ab)

Object(x, y) == [shape |-> "object", is |-> (s1 :> x) @@ (s2 :> y) @@ (odd :> Absent)]
OddObject(x) == [shape |-> "object", is |-> (s1 :> Absent) @@ (s2 :> Absent) @@ (odd :> x)]
List(s) == [shape |-> "list", is |-> s]

With(u, v) == (f :> u) @@ (odd :> v)

\* What calls are made with: nothing, an element of each shape, and values
\* that are not read back as they were given.
MCPayloads ==
  {With(v, Absent) :
     v \in {Absent, Text(ab), Object(ab, Absent), Object(Absent, Absent),
            List(<<>>), List(<<ab>>), List(<<ab, ab>>)}}

\* What is stored at first.
MCStored(r, k) ==
  {Absent} \union
  {[resource |-> r, name |-> IF k \in Names THEN k ELSE NoText, fields |-> With(u, v)] :
     u \in {Absent, Text(aAndB), Text(ab), Object(Absent, ab), Object(ab, aAndB),
            OddObject(ab), List(<<aAndB, ab>>)},
     v \in {Absent, Text(ab)}}

\* The second call.
MCDisturbance(o) ==
  /\ o.kind # "get" /\ o.name = Omitted
  /\ o.kind \in {"create", "update"} =>
       o.fields[f] \in {Text(ab), Object(ab, Absent)}

MCInit ==
  /\ \E r \in Resources : \E k \in KeysOf(r) :
     \E o \in {p \in FieldOps(r) \union NameOps(r) : p.key = k} :
     \E d \in {p \in FieldOps(r) \union NameOps(r) : p.key = k}, s \in MCStored(r, k) :
        /\ k = rAndD => r = "rule"
        /\ MCDisturbance(d) \/ Offers(r) = {"get"}
        /\ op = (c1 :> o) @@ (c2 :> d)
        /\ store = [n \in Keys |-> IF n = k THEN s ELSE Absent]
  /\ ObjectInit

MCSpec == MCInit /\ [][Next]_vars
=============================================================================
