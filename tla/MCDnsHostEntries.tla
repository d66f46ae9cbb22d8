-------------------------- MODULE MCDnsHostEntries --------------------------
(***************************************************************************)
(* Instance of DnsHostEntries for TLC.                                     *)
(***************************************************************************)
EXTENDS DnsHostEntries, TLC

CONSTANTS a1, a2, b1, b2

\* b1 is not read, b2 is read as a1.
MCParsed == (b1 :> Dropped) @@ (b2 :> a1)

\* Where the firewall holds no address that the client does not.
AllValid == <<>>

\* Calls and hosts are interchangeable (safety runs only).
NameSymmetry == Permutations(Calls) \union Permutations(Hosts)

Targets == {op[c].key : c \in Calls}

\* Addresses of a host: one that is read as it is, too many, one that is not
\* read, and two of which one is not read and one is read as another.
MCStored == {{a1}, {a1, a2}, {b1}, {b1, b2}}

\* Calls for one host: any of them, and any entry there. Calls for different
\* hosts, of which none may touch the other's: one address will do.
MCInit ==
  /\ op \in [Calls -> Operation]
  /\ store \in [Hosts -> StoredEntry \union {Absent}]
  /\ IF Cardinality(Targets) = 1
       THEN \A h \in Hosts : IF h \in Targets
                              THEN store[h] # Absent => store[h].addrs \in MCStored
                              ELSE store[h] = Absent
       ELSE /\ \A c \in Calls : op[c].addrs \in {{a1}, Omitted}
            /\ \A h \in Hosts : store[h] # Absent => store[h].addrs = {a1}
  /\ Init

MCSpec == MCInit /\ [][Next]_vars

\* Any two calls, which return: for claims about what happens in the end.
MCFairSpec ==
  /\ Init /\ [][Next]_vars
  /\ \A c \in Calls : WF_vars(ReadAnswered(c) \/ WriteAnswered(c) \/ TransportError(c))
=============================================================================
