------------------------ MODULE DnsHostEntriesProofs ------------------------
(***************************************************************************)
(* Proofs about DnsHostEntries, for any number of calls, hosts and         *)
(* addresses.  Its operators are WellFormed, so that TypedCallsProofs      *)
(* applies; what MCDnsHostEntries checks of DNS entries follows from the   *)
(* invariant proved there and from what the operators do.                  *)
(***************************************************************************)
EXTENDS DnsHostEntries, FiniteSetTheorems, TLAPS

P == INSTANCE TypedCallsProofs WITH
       Keys <- Hosts, Contents <- StoredEntry, Entries <- HostEntry

-----------------------------------------------------------------------------
(* The operators of DnsHostEntries.                                        *)

\* What the arguments of a call can be, by its kind.
LEMMA OpShape ==
  ASSUME NEW o \in Operation
  PROVE  /\ o.kind \in {"get", "add", "update", "delete"}
         /\ o.key \in Hosts
         /\ o.kind = "add" => o.addrs \in AddressLists /\ o.reverse \in BOOLEAN
         /\ o.kind = "update" => /\ o.addrs \in AddressLists \union {Omitted}
                                 /\ o.reverse \in BOOLEAN \union {Omitted}
  <1>1. CASE o \in AddOps
    BY <1>1 DEF AddOps, Op
  <1>2. CASE o \in UpdateOps
    BY <1>2 DEF UpdateOps, Op
  <1>3. CASE o \in NameOps
    BY <1>3 DEF NameOps, Op
  <1>4. QED
    BY <1>1, <1>2, <1>3 DEF Operation

\* What the client accepts, the firewall can hold.
LEMMA HostEntryStored ==
  ASSUME NEW e \in HostEntry
  PROVE  e \in StoredEntry /\ e # Absent
  <1>1. ASSUME NEW a \in AddressLists
        PROVE  a \in (SUBSET Addresses) \ {{}}
    <2>1. a \in SUBSET Valid /\ a # {}
      BY <1>1 DEF AddressLists
    <2>2. QED
      BY <2>1 DEF Addresses
  <1>2. e \in StoredEntry
    BY <1>1 DEF HostEntry, StoredEntry
  <1>3. QED
    BY <1>2, DnsAssumption DEF DnsAssumption

\* Reading makes no more addresses of some than there are.
LEMMA ReadOfKept ==
  ASSUME NEW kept \in SUBSET Addresses, kept # {}, Cardinality(kept) <= MaxAddresses
  PROVE  LET read == {AsRead(a) : a \in kept}
         IN  read # {} /\ Cardinality(read) <= MaxAddresses
  <1> DEFINE read == {AsRead(a) : a \in kept}
             f == [a \in kept |-> AsRead(a)]
  <1>1. f \in Surjection(kept, read)
    BY DEF Surjection
  <1>2. IsFiniteSet(kept)
    BY DnsAssumption, FS_Subset DEF DnsAssumption
  <1>3. Cardinality(read) <= Cardinality(kept) /\ IsFiniteSet(read)
    BY <1>1, <1>2, FS_Surjection
  <1>4. Cardinality(read) \in Nat /\ Cardinality(kept) \in Nat /\ MaxAddresses \in Nat
    BY <1>2, <1>3, FS_CardinalityType, DnsAssumption DEF DnsAssumption
  <1>5. QED
    BY <1>3, <1>4

\* get_entry parses nothing but entries the client accepts.
LEMMA SeenAccepted ==
  ASSUME NEW o \in Operation, NEW content \in StoredEntry
  PROVE  Seen(o, content) \in HostEntry \union {Absent}
  <1> DEFINE kept == {a \in content.addrs : AsRead(a) # Dropped}
             read == {AsRead(a) : a \in kept}
  <1>1. CASE ~(kept # {} /\ Cardinality(kept) <= MaxAddresses)
    BY <1>1 DEF Seen
  <1>2. CASE kept # {} /\ Cardinality(kept) <= MaxAddresses
    <2>1. Seen(o, content) = [addrs |-> read, reverse |-> content.reverse]
      BY <1>2 DEF Seen, StoredEntry
    <2>2. content.reverse \in BOOLEAN /\ kept \in SUBSET Addresses
      BY DEF StoredEntry
    <2>3. read \in SUBSET Valid
      BY <2>2, DnsAssumption DEF DnsAssumption, Addresses, AsRead
    <2>4. read # {} /\ Cardinality(read) <= MaxAddresses
      BY <1>2, <2>2, ReadOfKept
    <2>5. QED
      BY <2>1, <2>2, <2>3, <2>4 DEF HostEntry, AddressLists
  <1>3. QED
    BY <1>1, <1>2

\* update_entry's merge of accepted values is accepted.
LEMMA MergedAccepted ==
  ASSUME NEW o \in Operation, o.kind = "update", NEW e \in HostEntry
  PROVE  Merged(o, e) \in HostEntry
  BY OpShape DEF Merged, HostEntry

\* What a mutation writes is accepted, unless it removes.
LEMMA WrittenAccepted ==
  ASSUME NEW o \in Operation, NEW e \in HostEntry \union {Absent}, Decision(o, e) = "write"
  PROVE  /\ o.kind \in {"add", "update", "delete"}
         /\ o.kind = "add" /\ e # Absent => o.force
         /\ o.kind \in {"update", "delete"} => e # Absent
         /\ o.kind \in {"add", "update"} => Written(o, e) \in HostEntry
         /\ o.kind = "delete" => Written(o, e) = Absent
  <1>1. /\ o.kind \in {"add", "update", "delete"}
        /\ o.kind = "add" /\ e # Absent => o.force
        /\ o.kind \in {"update", "delete"} => e # Absent
    BY OpShape DEF Decision
  <1>2. CASE o.kind = "add"
    BY <1>1, <1>2, OpShape DEF Written, HostEntry
  <1>3. CASE o.kind = "update"
    BY <1>1, <1>3, MergedAccepted DEF Written
  <1>4. CASE o.kind = "delete"
    BY <1>1, <1>4 DEF Written
  <1>5. QED
    BY <1>1, <1>2, <1>3, <1>4

\* The premise of the theorems about TypedCalls.
LEMMA DnsWellFormed == P!WellFormed
  <1>1. NoMessage \notin P!Request /\ NoMessage \notin P!Reply /\ Absent \notin StoredEntry
    BY DnsAssumption DEF DnsAssumption, Request, P!Request, Reply, P!Reply,
       WriteActs, P!WriteActs, ReplyKinds, P!ReplyKinds
  <1>2. ASSUME NEW o \in Operation
        PROVE  /\ o.key \in Hosts
               /\ \A answer \in P!Reply : Readable(o, answer) \in {"read"} \union P!ReadErrors
               /\ \A content \in StoredEntry : Seen(o, content) \in HostEntry \union {Absent}
               /\ ~Rejected(o) /\ ~Reads(o) => Decision(o, Absent) = "write"
               /\ Intent(o) \subseteq {"insert", "overwrite", "remove"}
    BY OpShape, SeenAccepted DEF Readable, Reads, Intent
  <1>3. ASSUME NEW o \in Operation, NEW e \in HostEntry \union {Absent}
        PROVE  /\ Decision(o, e) \in {"write", "invalid_request"} \union P!Answers
               /\ Decision(o, e) \in P!Answers => Intent(o) = {}
               /\ Decision(o, e) = "write" =>
                    /\ Act(o, e) \in P!WriteActs
                    /\ P!KindsOf(Act(o, e)) \subseteq Intent(o)
                    /\ Written(o, e) \in StoredEntry \union {Absent}
                    /\ (Written(o, e) = Absent) <=> (Act(o, e) = "remove")
               /\ Success(o, e) \in P!Successes
    <2>1. o.kind \in {"get", "add", "update", "delete"}
      BY OpShape
    <2>2. /\ Decision(o, e) \in {"write", "invalid_request"} \union P!Answers
          /\ Decision(o, e) \in P!Answers => Intent(o) = {}
      BY <2>1 DEF Decision, Intent, P!Answers
    <2>3. Success(o, e) \in P!Successes
      BY DEF Success, P!Successes
    <2>4. ASSUME Decision(o, e) = "write"
          PROVE  /\ Act(o, e) \in P!WriteActs
                 /\ P!KindsOf(Act(o, e)) \subseteq Intent(o)
                 /\ (Act(o, e) = "remove") <=> (o.kind = "delete")
      BY <2>4, <1>3, WrittenAccepted DEF Act, P!WriteActs, P!KindsOf, Intent
    <2>5. ASSUME Decision(o, e) = "write"
          PROVE  /\ Written(o, e) \in StoredEntry \union {Absent}
                 /\ (Written(o, e) = Absent) <=> (Act(o, e) = "remove")
      <3>1. o.kind \in {"add", "update"} => Written(o, e) \in HostEntry
        BY <1>3, <2>5, WrittenAccepted
      <3>2. o.kind = "delete" => Written(o, e) = Absent
        BY <1>3, <2>5, WrittenAccepted
      <3>3. o.kind # "get"
        BY <1>3, <2>5, WrittenAccepted
      <3>4. QED
        BY <2>1, <2>4, <2>5, <3>1, <3>2, <3>3, HostEntryStored
    <2>6. QED
      BY <2>2, <2>3, <2>4, <2>5
  <1>4. QED
    BY <1>1, <1>2, <1>3 DEF P!WellFormed

-----------------------------------------------------------------------------
(* The specification is the instance of TypedCalls.                        *)

LEMMA SameInit == Init <=> P!Init
  BY DEF Init, P!Init, ExchangeInit, P!ExchangeInit

LEMMA SameFirewall ==
  ASSUME NEW c \in Calls
  PROVE  FirewallStep(c) <=> P!FirewallStep(c)
  BY DEF FirewallStep, P!FirewallStep, callVars, P!callVars, Firewall, P!Firewall,
         ProcessGet, P!ProcessGet, ProcessWrite, P!ProcessWrite,
         RefuseWrite, P!RefuseWrite, RefuseOther, P!RefuseOther,
         Answer, P!Answer, Accepts, P!Accepts, WriteActs, P!WriteActs

LEMMA SameCalls ==
  ASSUME NEW c \in Calls
  PROVE  /\ Begin(c) <=> P!Begin(c)
         /\ ReadAnswered(c) <=> P!ReadAnswered(c)
         /\ WriteAnswered(c) <=> P!WriteAnswered(c)
         /\ TransportError(c) <=> P!TransportError(c)
  BY DEF Begin, P!Begin, ReadAnswered, P!ReadAnswered, WriteAnswered, P!WriteAnswered,
         TransportError, P!TransportError, Finish, P!Finish, Hangup, P!Hangup,
         Return, P!Return, Submit, P!Submit, Post, P!Post, Entry, P!Entry,
         ReadOutcome, P!ReadOutcome, WriteOutcome, P!WriteOutcome

LEMMA SameStep == [Next]_vars <=> [P!Next]_(P!vars)
  BY SameFirewall, SameCalls DEF Next, P!Next, vars, P!vars

LEMMA SameSpec == Spec <=> P!Spec
  BY SameInit, SameStep, PTL DEF Spec, P!Spec

\* What is on the wire for a call, and what the call has done, fit its phase.
LEMMA InvCorrect == Spec => []P!CallsInv
  BY SameSpec, DnsWellFormed, P!InvCorrect

\* The part of the invariant that speaks of what a call has done.
LEMMA EffectFacts ==
  ASSUME P!CallsInv, NEW c \in Calls
  PROVE  /\ op[c] \in Operation /\ existing[c] \in HostEntry \union {Absent}
         /\ raw[c] \in StoredEntry \union {Absent}
         /\ applied[c] \in {0, 1}
         /\ applied[c] = 1 => /\ Decision(op[c], existing[c]) = "write"
                              /\ after[c] = Written(op[c], existing[c])
                              /\ P!Accepts(Act(op[c], existing[c]), before[c])
         /\ outcome[c] \in {"created", "updated", "ok"} =>
              applied[c] = 1 /\ outcome[c] = Success(op[c], existing[c])
         /\ existing[c] # Absent => raw[c] # Absent /\ existing[c] = Seen(op[c], raw[c])
  BY P!EffectFacts DEF P!WriteAllowed, P!Successes

-----------------------------------------------------------------------------
(* Theorems.                                                               *)

\* Requests and replies on the wire are well formed, and what a call has read
\* of the store is an entry the client accepts.
THEOREM TypeCorrect == Spec => []TypeOK
  <1>1. P!TypeOK => TypeOK
    BY DEF TypeOK, P!TypeOK, ExchangeTypeOK, P!ExchangeTypeOK, Request, P!Request,
           Reply, P!Reply, WriteActs, P!WriteActs, ReplyKinds, P!ReplyKinds,
           Phases, P!Phases, Outcomes, P!Outcomes, Successes, P!Successes,
           Refusals, P!Refusals, Answers, P!Answers
  <1>2. P!Spec => []P!TypeOK
    BY DnsWellFormed, P!TypeCorrect
  <1>3. QED
    BY <1>1, <1>2, SameSpec, PTL

\* A DNS call reports success only if it has changed the firewall, exactly once,
\* and a refusal only if it has not and cannot any more.
THEOREM AnswerCorrect == Spec => []AnswerMatchesEffect
  <1>1. P!AnswerMatchesEffect => AnswerMatchesEffect
    BY DEF AnswerMatchesEffect, P!AnswerMatchesEffect, Successes, P!Successes,
           Refusals, P!Refusals
  <1>2. P!Spec => []P!AnswerMatchesEffect
    BY DnsWellFormed, P!AnswerCorrect
  <1>3. QED
    BY <1>1, <1>2, SameSpec, PTL

\* A DNS call changes only the host it names, once at most and as its operation
\* intends; if it succeeded it has, if it was refused it never will.
THEOREM DnsImplementsConfigStore == Spec => ImplementsConfigStore
  <1>1. P!Spec => P!ImplementsConfigStore
    BY DnsWellFormed, P!CallsImplementConfigStore
  <1>2. P!Config!ConfigInit => Config!ConfigInit
    BY DEF Config!ConfigInit, P!Config!ConfigInit, Config!Kinds, P!Config!Kinds,
           VerdictOf, P!VerdictOf, Successes, P!Successes, Refusals, P!Refusals,
           Answers, P!Answers
  <1>3. [P!Config!ConfigNext]_(P!Config!configVars) => [Config!ConfigNext]_(Config!configVars)
    BY DEF Config!ConfigNext, P!Config!ConfigNext, Config!configVars, P!Config!configVars,
           Config!Change, P!Config!Change, Config!Conclude, P!Config!Conclude,
           Config!KindOf, P!Config!KindOf,
           VerdictOf, P!VerdictOf, Successes, P!Successes, Refusals, P!Refusals,
           Answers, P!Answers
  <1>4. QED
    BY <1>1, <1>2, <1>3, SameSpec, PTL
       DEF P!ImplementsConfigStore, ImplementsConfigStore, Config!ConfigSpec, P!Config!ConfigSpec

\* A DNS call sends one Get at most and then one write at most.
THEOREM NothingResentCorrect == Spec => NothingResent
  <1>1. P!Spec => P!NothingResent
    BY DnsWellFormed, P!NothingResentCorrect
  <1>2. QED
    BY <1>1, SameSpec, PTL DEF NothingResent, P!NothingResent, vars, P!vars

\* A DNS call whose host did not change between its Get and its write is
\* atomic.
THEOREM UnracedCorrect == Spec => []UnracedCallIsAtomic
  <1>1. P!UnracedCallIsAtomic => UnracedCallIsAtomic
    BY DEF UnracedCallIsAtomic, P!UnracedCallIsAtomic, View, P!View, Successes, P!Successes
  <1>2. P!Spec => []P!UnracedCallIsAtomic
    BY DnsWellFormed, P!UnracedCorrect
  <1>3. QED
    BY <1>1, <1>2, SameSpec, PTL

LEMMA DnsIdempotent == P!Idempotent
  <1> SUFFICES ASSUME NEW o \in Operation, NEW e \in HostEntry \union {Absent},
                      Written(o, e) \in HostEntry, Decision(o, Written(o, e)) = "write"
               PROVE  Written(o, Written(o, e)) = Written(o, e)
    BY DEF P!Idempotent, P!WriteAllowed
  <1>1. o.kind \in {"add", "update", "get", "delete"}
    BY DEF Operation, AddOps, UpdateOps, NameOps, Op
  <1>2. CASE o.kind = "add"
    BY <1>2 DEF Written
  <1>3. CASE o.kind = "update"
    BY <1>3 DEF Written, Merged
  <1>4. CASE o.kind \in {"get", "delete"}
    <2>1. Written(o, e) = Absent
      BY <1>4 DEF Written
    <2>2. QED
      BY <2>1, HostEntryStored
  <1>5. QED
    BY <1>1, <1>2, <1>3, <1>4

\* add_entry with force, or update_entry, made again on the entry that the
\* first one left, leaves the same entry.
THEOREM RepeatCorrect == Spec => []RepeatChangesNothing
  <1>1. P!RepeatChangesNothing => RepeatChangesNothing
    BY DEF RepeatChangesNothing, P!RepeatChangesNothing
  <1>2. P!Spec => []P!RepeatChangesNothing
    BY DnsWellFormed, DnsIdempotent, P!RepeatCorrect
  <1>3. QED
    BY <1>1, <1>2, SameSpec, PTL

\* add_entry without force replaces nothing, whatever other calls do between
\* its read and its write.
THEOREM UnforcedAddCorrect == Spec => []UnforcedAddNeverReplaces
  <1>1. ASSUME P!CallsInv PROVE UnforcedAddNeverReplaces
    <2> SUFFICES ASSUME NEW c \in Calls, op[c].kind = "add", ~op[c].force, applied[c] > 0
                 PROVE  before[c] = Absent
      BY DEF UnforcedAddNeverReplaces
    <2>1. applied[c] = 1
      BY <1>1, EffectFacts
    <2>2. existing[c] = Absent /\ P!Accepts(Act(op[c], existing[c]), before[c])
      BY <1>1, <2>1, EffectFacts, WrittenAccepted
    <2>3. QED
      BY <2>2 DEF Act, P!Accepts
  <1>2. QED
    BY <1>1, InvCorrect, PTL

\* The action add_entry reports, chosen before its write, is what took place.
THEOREM ReportedActionCorrect == Spec => []ReportedActionHappened
  <1>1. ASSUME P!CallsInv PROVE ReportedActionHappened
    <2> SUFFICES ASSUME NEW c \in Calls, outcome[c] \in {"created", "updated"}
                 PROVE  /\ outcome[c] = "created" => before[c] = Absent
                        /\ outcome[c] = "updated" => before[c] # Absent
                        /\ after[c] # Absent
      BY DEF ReportedActionHappened
    <2>1. applied[c] = 1 /\ outcome[c] = Success(op[c], existing[c])
      BY <1>1, EffectFacts
    <2>2. /\ op[c].kind = "add"
          /\ (existing[c] = Absent) <=> (outcome[c] = "created")
      BY <2>1 DEF Success
    <2>3. /\ after[c] \in HostEntry
          /\ P!Accepts(Act(op[c], existing[c]), before[c])
      BY <1>1, <2>1, <2>2, EffectFacts, WrittenAccepted
    <2>4. /\ existing[c] = Absent => before[c] = Absent
          /\ existing[c] # Absent => before[c] # Absent
      BY <2>2, <2>3 DEF Act, P!Accepts
    <2>5. QED
      BY <2>2, <2>3, <2>4, HostEntryStored
  <1>2. QED
    BY <1>1, InvCorrect, PTL

\* Whatever is read, merged and written back is an entry the client accepts.
THEOREM OnlyValidWritten == Spec => []OnlyValidEntriesWritten
  <1>1. ASSUME P!CallsInv PROVE OnlyValidEntriesWritten
    <2> SUFFICES ASSUME NEW c \in Calls, applied[c] > 0
                 PROVE  after[c] \in HostEntry \union {Absent}
      BY DEF OnlyValidEntriesWritten
    <2>1. applied[c] = 1
      BY <1>1, EffectFacts
    <2>2. QED
      BY <1>1, <2>1, EffectFacts, WrittenAccepted
  <1>2. QED
    BY <1>1, InvCorrect, PTL

\* What update_entry was not given stays, unless another call got in between
\* or the entry holds addresses the client cannot represent.
THEOREM UnracedUpdateCorrect == Spec => []UnracedUpdateKeepsOmitted
  <1>1. ASSUME P!CallsInv PROVE UnracedUpdateKeepsOmitted
    <2> SUFFICES ASSUME NEW c \in Calls, op[c].kind = "update", applied[c] > 0,
                        before[c] = raw[c]
                 PROVE  /\ op[c].reverse = Omitted => after[c].reverse = before[c].reverse
                        /\ op[c].addrs = Omitted /\ before[c].addrs \subseteq Valid
                             => after[c].addrs = before[c].addrs
      BY DEF UnracedUpdateKeepsOmitted
    <2>1. applied[c] = 1
      BY <1>1, EffectFacts
    <2>2. existing[c] # Absent /\ after[c] = Merged(op[c], existing[c])
      BY <1>1, <2>1, EffectFacts, WrittenAccepted DEF Written
    <2>3. /\ existing[c] = Seen(op[c], raw[c]) /\ raw[c] \in StoredEntry
      BY <1>1, <2>2, EffectFacts
    <2>4. /\ existing[c].reverse = raw[c].reverse
          /\ existing[c].addrs = {AsRead(a) : a \in {b \in raw[c].addrs : AsRead(b) # Dropped}}
      BY <2>2, <2>3 DEF Seen, StoredEntry
    <2>5. raw[c].addrs \subseteq Valid =>
            {AsRead(a) : a \in {b \in raw[c].addrs : AsRead(b) # Dropped}} = raw[c].addrs
      BY DnsAssumption DEF DnsAssumption, AsRead
    <2>6. /\ op[c].reverse = Omitted => after[c].reverse = existing[c].reverse
          /\ op[c].addrs = Omitted => after[c].addrs = existing[c].addrs
      BY <2>2 DEF Merged
    <2>7. QED
      BY <2>4, <2>5, <2>6
  <1>2. QED
    BY <1>1, InvCorrect, PTL

=============================================================================
