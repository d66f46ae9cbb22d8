---------------------------- MODULE DnsBulkProofs ---------------------------
(***************************************************************************)
(* Proofs about DnsBulk, for a batch of any length among any other calls:  *)
(* it is made of the calls of DnsHostEntries, so that what is proved of    *)
(* these holds in it; it stops where it should; its counts tell what its   *)
(* calls did; and they take effect in its order.                           *)
(***************************************************************************)
EXTENDS DnsBulk, DnsHostEntriesProofs, FiniteSetTheorems

-----------------------------------------------------------------------------
LEMMA BatchItems ==
  ASSUME NEW i \in Items
  PROVE  /\ Batch[i] \in Calls /\ i \in Nat
         /\ \A j \in Items : Batch[i] = Batch[j] => i = j
  <1>1. Batch \in Seq(Calls)
    BY BatchAssumption DEF BatchAssumption
  <1>2. Batch[i] \in Calls /\ i \in Nat
    BY <1>1 DEF Items
  <1>3. QED
    BY <1>2, BatchAssumption DEF BatchAssumption

\* While the loop runs it is at an entry of the batch.
LEMMA ItemInBatch ==
  ASSUME item \in Nat \ {0}, ~Over
  PROVE  item \in Items
  <1>1. Batch \in Seq(Calls)
    BY BatchAssumption DEF BatchAssumption
  <1>2. Len(Batch) \in Nat /\ DOMAIN Batch = 1..Len(Batch)
    BY <1>1
  <1>3. item <= Len(Batch)
    BY <1>2 DEF Over
  <1>4. QED
    BY <1>2, <1>3 DEF Items

-----------------------------------------------------------------------------
(* A batch is made of calls.                                               *)

ItemOK == item \in Nat \ {0}

LEMMA ItemInit == BulkInit => ItemOK
  BY DEF BulkInit, ItemOK

LEMMA ItemStep == ItemOK /\ [BulkNext]_bulkVars => ItemOK'
  BY DEF ItemOK, BulkNext, BeginItem, Tally, CallStep, bulkVars

LEMMA BulkStepIsCallStep == ItemOK /\ [BulkNext]_bulkVars => [Next]_vars
  <1> SUFFICES ASSUME ItemOK, [BulkNext]_bulkVars PROVE [Next]_vars
    OBVIOUS
  <1>1. CASE BeginItem
    <2>1. Batch[item] \in Calls
      BY <1>1, ItemInBatch, BatchItems DEF ItemOK, BeginItem
    <2>2. QED
      BY <1>1, <2>1 DEF BeginItem, Next
  <1>2. CASE Tally
    BY <1>2 DEF Tally, dnsVars, vars
  <1>3. CASE CallStep
    BY <1>3 DEF CallStep, Next, Others
  <1>4. CASE UNCHANGED bulkVars
    BY <1>4 DEF bulkVars, dnsVars, vars
  <1>5. QED
    BY <1>1, <1>2, <1>3, <1>4 DEF BulkNext

\* Every behaviour of a batch among other calls is a behaviour of the calls
\* alone: all that is proved of add_entry and update_entry holds of the
\* entries of add_many and update_many.
THEOREM BatchIsCalls == BulkSpec => Spec
  <1>1. BulkInit => Init
    BY DEF BulkInit
  <1>2. QED
    BY <1>1, ItemInit, ItemStep, BulkStepIsCallStep, PTL DEF BulkSpec, Spec

-----------------------------------------------------------------------------
(* A batch stops at its first error unless told to continue.               *)

\* Entries the loop has not reached are untouched; those it is through with
\* have returned, and without continue_on_error those it has passed succeeded.
LoopInv ==
  /\ ItemOK
  /\ \A j \in Items : j > item => phase[Batch[j]] = "new"
  /\ \A i \in Processed : phase[Batch[i]] = "done"
  /\ ~continueOnError =>
       \A i \in Items : i < item => phase[Batch[i]] = "done" /\ Succeeded(Batch[i])

LEMMA LoopInit == BulkInit => LoopInv
  <1> SUFFICES ASSUME BulkInit PROVE LoopInv
    OBVIOUS
  <1>1. item = 1 /\ phase = [c \in Calls |-> "new"]
    BY DEF BulkInit, Init
  <1>2. \A j \in Items : phase[Batch[j]] = "new"
    BY <1>1, BatchItems
  <1>3. \A i \in Items : ~(i < 1)
    BY BatchAssumption DEF Items, BatchAssumption
  <1>4. Processed = {}
    BY <1>1, <1>3 DEF Processed, BulkInit
  <1>5. QED
    BY <1>1, <1>2, <1>3, <1>4 DEF LoopInv, ItemOK

\* A step of call c changes no other call's phase or outcome, and starts from
\* a phase that is not done.
LEMMA CallStepPhase ==
  ASSUME P!TypeOK, NEW c \in Calls,
         \/ Begin(c) \/ ReadAnswered(c) \/ WriteAnswered(c) \/ TransportError(c)
         \/ FirewallStep(c)
  PROVE  /\ \A d \in Calls : d # c => phase'[d] = phase[d] /\ outcome'[d] = outcome[d]
         /\ \/ phase[c] # "done"
            \/ phase' = phase /\ outcome' = outcome
         /\ Begin(c) \/ phase[c] # "new" \/ phase'[c] = phase[c]
  <1>1. \A d \in Calls : d # c => phase'[d] = phase[d] /\ outcome'[d] = outcome[d]
    BY SameCalls, SameFirewall, P!OthersKept DEF P!Kept
  <1>2. CASE FirewallStep(c)
    BY <1>1, <1>2 DEF FirewallStep, callVars
  <1>3. CASE Begin(c)
    BY <1>1, <1>3 DEF Begin
  <1>4. CASE ReadAnswered(c) \/ WriteAnswered(c) \/ TransportError(c)
    BY <1>1, <1>4 DEF ReadAnswered, WriteAnswered, TransportError
  <1>5. QED
    BY <1>2, <1>3, <1>4

\* A call begins once: nothing else happens for it while it is new.
LEMMA NoBegin ==
  ASSUME P!TypeOK, NEW c \in Calls,
         ReadAnswered(c) \/ WriteAnswered(c) \/ TransportError(c) \/ FirewallStep(c)
  PROVE  ~Begin(c)
  <1> SUFFICES ASSUME Begin(c) PROVE FALSE
    OBVIOUS
  <1>1. phase[c] = "new"
    BY DEF Begin
  <1>2. phase'[c] # "new"
    BY DEF Begin, Return, Submit, P!TypeOK
  <1>3. phase[c] # "new" \/ phase' = phase
    BY DEF ReadAnswered, WriteAnswered, TransportError, FirewallStep, callVars
  <1>4. QED
    BY <1>1, <1>2, <1>3

\* The loop is through with one entry more.
LEMMA TallyProcesses ==
  ASSUME ItemOK, Tally
  PROVE  /\ item \in Items /\ item \notin Processed
         /\ Processed' = Processed \union {item}
  <1>1. item \in Items /\ ~stopped
    BY ItemInBatch DEF ItemOK, Tally, Over
  <1>2. \A i \in Items : i \in Nat
    BY BatchItems
  <1>3. Processed = {i \in Items : i < item}
    BY <1>1 DEF Processed
  <1>4. CASE item' = item + 1 /\ UNCHANGED stopped
    <2>1. Processed' = {i \in Items : i < item + 1}
      BY <1>1, <1>4 DEF Processed
    <2>2. QED
      BY <1>1, <1>2, <1>3, <2>1
  <1>5. CASE stopped' = TRUE /\ item' = item
    <2>1. Processed' = {i \in Items : i < item \/ i = item}
      BY <1>5 DEF Processed
    <2>2. QED
      BY <1>1, <1>2, <1>3, <2>1
  <1>6. QED
    BY <1>1, <1>2, <1>3, <1>4, <1>5 DEF Tally

LEMMA LoopStep == P!TypeOK /\ LoopInv /\ [BulkNext]_bulkVars => LoopInv'
  <1> SUFFICES ASSUME P!TypeOK, LoopInv, [BulkNext]_bulkVars PROVE LoopInv'
    OBVIOUS
  <1>1. ItemOK /\ ItemOK'
    BY ItemStep DEF LoopInv
  <1>2. ASSUME UNCHANGED <<continueOnError, item, stopped>>, NEW c \in Calls,
               \/ Begin(c) \/ ReadAnswered(c) \/ WriteAnswered(c) \/ TransportError(c)
               \/ FirewallStep(c),
               Begin(c) => \A j \in Items : j > item => Batch[j] # c
        PROVE  LoopInv'
    <2>1. ASSUME NEW j \in Items, j > item PROVE phase'[Batch[j]] = "new"
      <3>1. Batch[j] \in Calls /\ phase[Batch[j]] = "new"
        BY <2>1, BatchItems DEF LoopInv
      <3>2. QED
        BY <1>2, <2>1, <3>1, CallStepPhase
    <2>2. ASSUME ~continueOnError, NEW i \in Items, i < item
          PROVE  phase'[Batch[i]] = "done" /\ Succeeded(Batch[i])'
      <3>1. Batch[i] \in Calls /\ phase[Batch[i]] = "done" /\ Succeeded(Batch[i])
        BY <2>2, BatchItems DEF LoopInv
      <3>2. phase'[Batch[i]] = phase[Batch[i]] /\ outcome'[Batch[i]] = outcome[Batch[i]]
        BY <1>2, <3>1, CallStepPhase
      <3>3. QED
        BY <3>1, <3>2 DEF Succeeded
    <2>3. ASSUME NEW i \in Processed PROVE phase'[Batch[i]] = "done"
      <3>1. Batch[i] \in Calls /\ phase[Batch[i]] = "done"
        BY BatchItems DEF LoopInv, Processed
      <3>2. phase'[Batch[i]] = phase[Batch[i]]
        BY <1>2, <3>1, CallStepPhase
      <3>3. QED
        BY <3>1, <3>2
    <2>4. Processed' = Processed
      BY <1>2 DEF Processed
    <2>5. QED
      BY <1>1, <1>2, <2>1, <2>2, <2>3, <2>4 DEF LoopInv
  <1>3. CASE BeginItem
    <2>1. item \in Items
      BY <1>1, <1>3, ItemInBatch DEF ItemOK, BeginItem
    <2>2. Batch[item] \in Calls
      BY <2>1, BatchItems
    <2>3. \A j \in Items : j > item => Batch[j] # Batch[item]
      BY <2>1, BatchItems
    <2>4. QED
      BY <1>2, <1>3, <2>2, <2>3 DEF BeginItem
  <1>4. CASE Tally
    <2>1. item \in Items /\ phase[Batch[item]] = "done"
      BY <1>1, <1>4, ItemInBatch DEF ItemOK, Tally
    <2>2. /\ UNCHANGED <<phase, outcome, continueOnError>>
          /\ \/ item' = item
             \/ item' = item + 1 /\ (Succeeded(Batch[item]) \/ continueOnError)
      BY <1>4 DEF Tally, dnsVars
    <2>3. \A j \in Items : j \in Nat
      BY BatchItems
    <2>4. \A i \in Processed' : phase'[Batch[i]] = "done"
      BY <1>4, <2>1, <2>2, TallyProcesses DEF LoopInv
    <2>5. CASE item' = item
      BY <1>1, <2>4, <2>2, <2>5 DEF LoopInv, Succeeded
    <2>6. CASE item' = item + 1 /\ (Succeeded(Batch[item]) \/ continueOnError)
      <3>1. \A j \in Items : j > item' => phase'[Batch[j]] = "new"
        BY <1>1, <2>2, <2>3, <2>6 DEF LoopInv, ItemOK
      <3>2. ASSUME ~continueOnError, NEW i \in Items, i < item'
            PROVE  phase[Batch[i]] = "done" /\ Succeeded(Batch[i])
        <4>1. i < item \/ i = item
          BY <1>1, <2>3, <2>6, <3>2 DEF ItemOK
        <4>2. QED
          BY <2>1, <2>6, <3>2, <4>1 DEF LoopInv
      <3>3. QED
        BY <1>1, <2>4, <2>2, <3>1, <3>2 DEF LoopInv, Succeeded
    <2>7. QED
      BY <2>2, <2>5, <2>6
  <1>5. CASE CallStep
    <2>1. UNCHANGED <<continueOnError, item, stopped>>
      BY <1>5 DEF CallStep
    <2>2. CASE \E c \in Others : Begin(c)
      <3>1. PICK c \in Others : Begin(c)
        BY <2>2
      <3>2. c \in Calls /\ \A j \in Items : Batch[j] # c
        BY <3>1 DEF Others
      <3>3. QED
        BY <1>2, <2>1, <3>1, <3>2
    <2>3. CASE \E c \in Calls : ReadAnswered(c) \/ WriteAnswered(c) \/ TransportError(c)
                                \/ FirewallStep(c)
      <3>1. PICK c \in Calls : ReadAnswered(c) \/ WriteAnswered(c) \/ TransportError(c)
                               \/ FirewallStep(c)
        BY <2>3
      <3>2. ~Begin(c)
        BY <3>1, NoBegin
      <3>3. QED
        BY <1>2, <2>1, <3>1, <3>2
    <2>4. QED
      BY <1>5, <2>2, <2>3 DEF CallStep
  <1>6. CASE UNCHANGED bulkVars
    BY <1>6 DEF bulkVars, dnsVars, LoopInv, ItemOK, Succeeded, Processed
  <1>7. QED
    BY <1>3, <1>4, <1>5, <1>6 DEF BulkNext

\* Without continue_on_error no entry after a failed one reaches the firewall,
\* whatever other calls are under way.
THEOREM NothingAfterFailureCorrect == BulkSpec => []NothingAfterFailure
  <1>1. ASSUME P!CallsInv, LoopInv PROVE NothingAfterFailure
    <2> SUFFICES ASSUME ~continueOnError, NEW i \in Items, NEW j \in Items, i < j,
                        phase[Batch[i]] = "done", ~Succeeded(Batch[i])
                 PROVE  /\ phase[Batch[j]] = "new" /\ request[Batch[j]] = NoMessage
                        /\ applied[Batch[j]] = 0
      BY DEF NothingAfterFailure
    <2>1. ~(i < item) /\ i \in Nat /\ j \in Nat /\ item \in Nat
      BY <1>1, BatchItems DEF LoopInv, ItemOK
    <2>2. phase[Batch[j]] = "new"
      BY <1>1, <2>1 DEF LoopInv
    <2>3. P!CallInv(Batch[j])
      BY <1>1, BatchItems DEF P!CallsInv
    <2>4. QED
      BY <2>2, <2>3 DEF P!CallInv, P!NewInv
  <1>2. P!CallsInv => P!TypeOK
    BY DEF P!CallsInv
  <1>3. QED
    BY <1>1, <1>2, LoopInit, LoopStep, InvCorrect, BatchIsCalls, PTL DEF BulkSpec

-----------------------------------------------------------------------------
(* The counts.                                                             *)

Outcome(i) == outcome[Batch[i]]

CreatedItems == {i \in Processed : Outcome(i) = "created"}
UpdatedItems == {i \in Processed : Outcome(i) \in {"updated", "ok"}}
FailedItems == {i \in Processed : ~Succeeded(Batch[i])}

\* The counts are those of the outcomes of the entries the loop is through with.
CountInv ==
  /\ result \in [created: Nat, updated: Nat, failed: Nat, errors: Seq(Calls)]
  /\ result.created = Cardinality(CreatedItems)
  /\ result.updated = Cardinality(UpdatedItems)
  /\ result.failed = Cardinality(FailedItems)
  /\ Len(result.errors) = result.failed

LEMMA ProcessedFinite ==
  /\ IsFiniteSet(Processed)
  /\ \A S \in SUBSET Processed : IsFiniteSet(S) /\ Cardinality(S) \in Nat
  <1>1. Batch \in Seq(Calls)
    BY BatchAssumption DEF BatchAssumption
  <1>2. Len(Batch) \in Nat /\ Items = 1..Len(Batch)
    BY <1>1 DEF Items
  <1>3. IsFiniteSet(Items)
    BY <1>2, FS_Interval
  <1>4. Processed \in SUBSET Items
    BY DEF Processed
  <1>5. IsFiniteSet(Processed)
    BY <1>3, <1>4, FS_Subset
  <1>6. QED
    BY <1>5, FS_Subset, FS_CardinalityType

LEMMA CountInit == BulkInit => CountInv
  <1> SUFFICES ASSUME BulkInit PROVE CountInv
    OBVIOUS
  <1>1. result = [created |-> 0, updated |-> 0, failed |-> 0, errors |-> <<>>]
    BY DEF BulkInit
  <1>2. \A i \in Items : i \in Nat /\ i >= 1
    BY BatchAssumption DEF Items, BatchAssumption
  <1>3. Processed = {}
    BY <1>2 DEF Processed, BulkInit
  <1>4. CreatedItems = {} /\ UpdatedItems = {} /\ FailedItems = {}
    BY <1>3 DEF CreatedItems, UpdatedItems, FailedItems
  <1>5. <<>> \in Seq(Calls) /\ Len(<<>>) = 0
    OBVIOUS
  <1>6. QED
    BY <1>1, <1>4, <1>5, FS_EmptySet DEF CountInv

\* What has returned keeps its outcome.
LEMMA OutcomeKept ==
  ASSUME P!TypeOK, [Next]_vars, NEW c \in Calls, phase[c] = "done"
  PROVE  outcome'[c] = outcome[c]
  <1>1. CASE UNCHANGED vars
    BY <1>1 DEF vars
  <1>2. CASE Next
    <2>1. PICK d \in Calls : \/ Begin(d) \/ ReadAnswered(d) \/ WriteAnswered(d)
                             \/ TransportError(d) \/ FirewallStep(d)
      BY <1>2 DEF Next
    <2>2. QED
      BY <2>1, CallStepPhase
  <1>3. QED
    BY <1>1, <1>2

\* One entry more is counted, in the count of its outcome.
LEMMA TallyCounts ==
  ASSUME P!TypeOK, ItemOK, CountInv, Tally
  PROVE  CountInv'
  <1> DEFINE c == Batch[item]
  <1>1. /\ item \in Items /\ item \notin Processed /\ c \in Calls
        /\ Processed' = Processed \union {item}
    BY TallyProcesses, BatchItems
  <1>2. outcome' = outcome /\ result' = Count(c)
    BY DEF Tally, dnsVars
  <1>3. /\ CreatedItems' = {i \in Processed \union {item} : Outcome(i) = "created"}
        /\ UpdatedItems' = {i \in Processed \union {item} : Outcome(i) \in {"updated", "ok"}}
        /\ FailedItems' = {i \in Processed \union {item} : ~Succeeded(Batch[i])}
    BY <1>1, <1>2 DEF CreatedItems, UpdatedItems, FailedItems, Outcome, Succeeded
  <1>4. ASSUME NEW S \in SUBSET Processed
        PROVE  Cardinality(S \union {item}) = Cardinality(S) + 1
    <2>1. IsFiniteSet(S) /\ item \notin S
      BY <1>1, ProcessedFinite
    <2>2. QED
      BY <2>1, FS_AddElement
  <1>5. /\ CreatedItems \in SUBSET Processed /\ UpdatedItems \in SUBSET Processed
        /\ FailedItems \in SUBSET Processed
    BY DEF CreatedItems, UpdatedItems, FailedItems
  <1>6. /\ result.created \in Nat /\ result.updated \in Nat /\ result.failed \in Nat
        /\ result.errors \in Seq(Calls) /\ result =
             [created |-> result.created, updated |-> result.updated,
              failed |-> result.failed, errors |-> result.errors]
    BY DEF CountInv
  <1>7. CASE outcome[c] = "created"
    <2>1. /\ CreatedItems' = CreatedItems \union {item}
          /\ UpdatedItems' = UpdatedItems /\ FailedItems' = FailedItems
      BY <1>1, <1>3, <1>7 DEF CreatedItems, UpdatedItems, FailedItems, Outcome, Succeeded
    <2>2. result' = [result EXCEPT !.created = @ + 1]
      BY <1>2, <1>7 DEF Count
    <2>3. QED
      BY <1>4, <1>5, <1>6, <2>1, <2>2 DEF CountInv
  <1>8. CASE outcome[c] \in {"updated", "ok"}
    <2>1. /\ UpdatedItems' = UpdatedItems \union {item}
          /\ CreatedItems' = CreatedItems /\ FailedItems' = FailedItems
      BY <1>1, <1>3, <1>8 DEF CreatedItems, UpdatedItems, FailedItems, Outcome, Succeeded
    <2>2. result' = [result EXCEPT !.updated = @ + 1]
      BY <1>2, <1>8 DEF Count
    <2>3. QED
      BY <1>4, <1>5, <1>6, <2>1, <2>2 DEF CountInv
  <1>9. CASE outcome[c] \notin {"created", "updated", "ok"}
    <2>1. /\ FailedItems' = FailedItems \union {item}
          /\ CreatedItems' = CreatedItems /\ UpdatedItems' = UpdatedItems
      BY <1>1, <1>3, <1>9 DEF CreatedItems, UpdatedItems, FailedItems, Outcome, Succeeded
    <2>2. result' = [created |-> result.created, updated |-> result.updated,
                     failed |-> result.failed + 1, errors |-> Append(result.errors, c)]
      BY <1>2, <1>6, <1>9 DEF Count
    <2>3. /\ Append(result.errors, c) \in Seq(Calls)
          /\ Len(Append(result.errors, c)) = Len(result.errors) + 1
      BY <1>1, <1>6
    <2>4. /\ result'.failed = result.failed + 1 /\ result'.created = result.created
          /\ result'.updated = result.updated
          /\ Len(result'.errors) = Len(result.errors) + 1
          /\ result' \in [created: Nat, updated: Nat, failed: Nat, errors: Seq(Calls)]
      <3> HIDE DEF c
      <3>1. QED
        BY <1>6, <2>2, <2>3
    <2>5. Cardinality(FailedItems') = Cardinality(FailedItems) + 1
      BY <1>4, <1>5, <2>1
    <2>6. QED
      BY <2>1, <2>4, <2>5 DEF CountInv
  <1>10. QED
    BY <1>7, <1>8, <1>9

LEMMA CountStep == P!TypeOK /\ LoopInv /\ CountInv /\ [BulkNext]_bulkVars => CountInv'
  <1> SUFFICES ASSUME P!TypeOK, LoopInv, CountInv, [BulkNext]_bulkVars PROVE CountInv'
    OBVIOUS
  <1>1. ItemOK
    BY DEF LoopInv
  <1>2. CASE Tally
    BY <1>1, <1>2, TallyCounts
  <1>3. CASE UNCHANGED <<item, stopped, result>>
    <2>1. Processed' = Processed
      BY <1>3 DEF Processed
    <2>2. ASSUME NEW i \in Processed PROVE outcome'[Batch[i]] = outcome[Batch[i]]
      <3>1. Batch[i] \in Calls /\ phase[Batch[i]] = "done"
        BY BatchItems DEF LoopInv, Processed
      <3>2. [Next]_vars
        BY <1>1, BulkStepIsCallStep
      <3>3. QED
        BY <3>1, <3>2, OutcomeKept
    <2>3. CreatedItems' = CreatedItems /\ UpdatedItems' = UpdatedItems /\ FailedItems' = FailedItems
      BY <2>1, <2>2 DEF CreatedItems, UpdatedItems, FailedItems, Outcome, Succeeded
    <2>4. QED
      BY <1>3, <2>3 DEF CountInv
  <1>4. QED
    BY <1>2, <1>3 DEF BulkNext, BeginItem, CallStep, bulkVars

\* What an outcome says of the firewall, for a call that has returned.
LEMMA OutcomeEffect ==
  ASSUME P!CallsInv, NEW c \in Calls, phase[c] = "done"
  PROVE  /\ outcome[c] = "created" => applied[c] = 1 /\ before[c] = Absent
         /\ outcome[c] \in {"updated", "ok"} => applied[c] = 1 /\ before[c] # Absent
         /\ applied[c] = 1 => \/ outcome[c] \in {"created", "updated", "ok"}
                              \/ outcome[c] \in {"transport", "response_parse"}
  <1> DEFINE o == op[c]
             e == existing[c]
  <1>1. /\ o \in Operation /\ e \in HostEntry \union {Absent}
        /\ applied[c] = 1 => /\ Decision(o, e) = "write"
                             /\ P!Accepts(Act(o, e), before[c])
        /\ outcome[c] \in {"created", "updated", "ok"} =>
             applied[c] = 1 /\ outcome[c] = Success(o, e)
    BY EffectFacts
  <1>2. applied[c] = 1 =>
          /\ o.kind \in {"add", "update", "delete"}
          /\ o.kind \in {"update", "delete"} => e # Absent
    BY <1>1, WrittenAccepted
  <1>3. outcome[c] \in {"created", "updated", "ok"} =>
          /\ applied[c] = 1
          /\ (outcome[c] = "created") <=> (before[c] = Absent)
    BY <1>1, <1>2 DEF Success, Act, P!Accepts
  <1>4. P!CallInv(c) /\ outcome[c] \in P!Outcomes
    BY DEF P!CallsInv, P!TypeOK
  <1>5. /\ outcome[c] # "none"
        /\ outcome[c] \in P!Refusals => applied[c] = 0
        /\ outcome[c] \in P!Answers => Intent(o) = {}
    BY <1>4 DEF P!CallInv, P!DoneInv
  <1>6. applied[c] = 1 => Intent(o) # {}
    BY <1>2 DEF Intent
  <1>7. QED
    BY <1>3, <1>4, <1>5, <1>6 DEF P!Outcomes, P!Successes, P!Refusals, P!Answers

\* A union has at most as many elements as its parts.
LEMMA UnionBound ==
  ASSUME NEW S, NEW T, IsFiniteSet(S), IsFiniteSet(T)
  PROVE  /\ IsFiniteSet(S \union T)
         /\ Cardinality(S \union T) <= Cardinality(S) + Cardinality(T)
         /\ S \intersect T = {} => Cardinality(S \union T) = Cardinality(S) + Cardinality(T)
  <1>1. /\ IsFiniteSet(S \union T)
        /\ Cardinality(S \union T)
             = Cardinality(S) + Cardinality(T) - Cardinality(S \intersect T)
    BY FS_Union
  <1>2. IsFiniteSet(S \intersect T)
    BY FS_Subset
  <1>3. /\ Cardinality(S) \in Nat /\ Cardinality(T) \in Nat
        /\ Cardinality(S \intersect T) \in Nat
    BY <1>2, FS_CardinalityType
  <1>4. S \intersect T = {} => Cardinality(S \intersect T) = 0
    BY FS_EmptySet
  <1>5. QED
    BY <1>1, <1>3, <1>4

\* What a batch reports of the firewall is what its calls did there, however
\* many entries it has and whoever else writes.
THEOREM CountsCorrect == BulkSpec => []CountsMatchEffects
  <1>1. ASSUME P!CallsInv, LoopInv, CountInv PROVE CountsMatchEffects
    <2> DEFINE wrote(i) == applied[Batch[i]] = 1
               inDoubt(i) == outcome[Batch[i]] \in {"transport", "response_parse"}
               Wrote == {i \in Processed : wrote(i)}
               InDoubt == {i \in Processed : inDoubt(i)}
               Inserted == {i \in Processed : wrote(i) /\ before[Batch[i]] = Absent}
               Overwritten == {i \in Processed : wrote(i) /\ before[Batch[i]] # Absent}
    <2>1. /\ CreatedItems \in SUBSET Processed /\ UpdatedItems \in SUBSET Processed
          /\ FailedItems \in SUBSET Processed /\ InDoubt \in SUBSET Processed
          /\ Wrote \in SUBSET Processed /\ Inserted \in SUBSET Processed
          /\ Overwritten \in SUBSET Processed
      BY DEF CreatedItems, UpdatedItems, FailedItems
    <2>2. \A S \in SUBSET Processed : IsFiniteSet(S) /\ Cardinality(S) \in Nat
      BY ProcessedFinite
    <2>3. ASSUME NEW i \in Processed
          PROVE  /\ Outcome(i) = "created" => wrote(i) /\ before[Batch[i]] = Absent
                 /\ Outcome(i) \in {"updated", "ok"} => wrote(i) /\ before[Batch[i]] # Absent
                 /\ wrote(i) => Succeeded(Batch[i]) \/ inDoubt(i)
      <3>1. Batch[i] \in Calls /\ phase[Batch[i]] = "done"
        BY <1>1, BatchItems DEF LoopInv, Processed
      <3>2. QED
        BY <1>1, <3>1, OutcomeEffect DEF Outcome, Succeeded
    <2>4. Cardinality(CreatedItems \union UpdatedItems)
            = Cardinality(CreatedItems) + Cardinality(UpdatedItems)
          /\ IsFiniteSet(CreatedItems \union UpdatedItems)
      <3>1. CreatedItems \intersect UpdatedItems = {}
        BY DEF CreatedItems, UpdatedItems
      <3>2. QED
        BY <2>1, <2>2, <3>1, UnionBound
    <2>5. Cardinality(Processed) = Cardinality(CreatedItems) + Cardinality(UpdatedItems)
                                     + Cardinality(FailedItems)
      <3>1. /\ (CreatedItems \union UpdatedItems) \intersect FailedItems = {}
            /\ (CreatedItems \union UpdatedItems) \union FailedItems = Processed
        BY DEF CreatedItems, UpdatedItems, FailedItems, Outcome, Succeeded
      <3>2. QED
        BY <2>1, <2>2, <2>4, <3>1, UnionBound
    <2>6. Cardinality(CreatedItems) <= Cardinality(Inserted)
      <3>1. CreatedItems \in SUBSET Inserted
        BY <2>3 DEF CreatedItems
      <3>2. QED
        BY <2>1, <2>2, <3>1, FS_Subset
    <2>7. Cardinality(UpdatedItems) <= Cardinality(Overwritten)
      <3>1. UpdatedItems \in SUBSET Overwritten
        BY <2>3 DEF UpdatedItems
      <3>2. QED
        BY <2>1, <2>2, <3>1, FS_Subset
    <2>8. Cardinality(Wrote) <= Cardinality(CreatedItems) + Cardinality(UpdatedItems)
                                  + Cardinality(InDoubt)
      <3> DEFINE All == (CreatedItems \union UpdatedItems) \union InDoubt
      <3>1. Wrote \in SUBSET All
        BY <2>3 DEF CreatedItems, UpdatedItems, Outcome, Succeeded
      <3>2. /\ IsFiniteSet(All)
            /\ Cardinality(All)
                 <= Cardinality(CreatedItems \union UpdatedItems) + Cardinality(InDoubt)
        BY <2>1, <2>2, <2>4, UnionBound
      <3>3. Cardinality(Wrote) <= Cardinality(All)
        BY <3>1, <3>2, FS_Subset
      <3>4. Cardinality(All) \in Nat
        BY <3>2, FS_CardinalityType
      <3> HIDE DEF All
      <3>5. QED
        BY <2>1, <2>2, <2>4, <3>2, <3>3, <3>4
    <2>9. /\ result.created = Cardinality(CreatedItems)
          /\ result.updated = Cardinality(UpdatedItems)
          /\ result.failed = Cardinality(FailedItems)
          /\ Len(result.errors) = result.failed
      BY <1>1 DEF CountInv
    <2>10. QED
      BY <2>5, <2>6, <2>7, <2>8, <2>9 DEF CountsMatchEffects
  <1>2. P!CallsInv => P!TypeOK
    BY DEF P!CallsInv
  <1>3. QED
    BY <1>1, <1>2, LoopInit, LoopStep, CountInit, CountStep, InvCorrect, BatchIsCalls, PTL
       DEF BulkSpec

-----------------------------------------------------------------------------
(* The order.                                                              *)

\* No other call wrote, and no call of the batch was left in doubt.
Settled ==
  /\ \A c \in Others : applied[c] = 0
  /\ \A i \in Items : outcome[Batch[i]] \notin {"transport", "response_parse"}

\* Entry i wrote, and no later one for its host did.
WroteLast(i) ==
  /\ applied[Batch[i]] = 1
  /\ \A j \in Items : j > i /\ op[Batch[j]].key = op[Batch[i]].key => applied[Batch[j]] = 0

\* LastEntryWins, at every moment of the batch.
LastInv ==
  Settled => \A i \in Items :
               WroteLast(i) => store[op[Batch[i]].key] = after[Batch[i]]

LEMMA LastInit == BulkInit => LastInv
  <1>1. ASSUME BulkInit, NEW i \in Items PROVE applied[Batch[i]] = 0
    BY <1>1, BatchItems DEF BulkInit, Init, ExchangeInit
  <1>2. QED
    BY <1>1 DEF LastInv, WroteLast

\* Only a write that the firewall processes changes the store.
LEMMA StepsThatWrite ==
  ASSUME [Next]_vars
  PROVE  \/ UNCHANGED <<store, applied, after, op>>
         \/ \E c \in Calls : ProcessWrite(c) /\ UNCHANGED op
  <1>1. CASE UNCHANGED vars
    BY <1>1 DEF vars
  <1>2. CASE Next
    <2>1. PICK c \in Calls : \/ Begin(c) \/ ReadAnswered(c) \/ WriteAnswered(c)
                             \/ TransportError(c) \/ FirewallStep(c)
      BY <1>2 DEF Next
    <2>2. CASE FirewallStep(c)
      BY <2>2 DEF FirewallStep, callVars, Firewall, ProcessGet, RefuseWrite, RefuseOther
    <2>3. CASE Begin(c) \/ ReadAnswered(c) \/ WriteAnswered(c) \/ TransportError(c)
      BY <2>3 DEF Begin, ReadAnswered, WriteAnswered, TransportError
    <2>4. QED
      BY <2>1, <2>2, <2>3
  <1>3. QED
    BY <1>1, <1>2

LEMMA AppliedGrows ==
  ASSUME P!TypeOK, [Next]_vars, NEW c \in Calls
  PROVE  applied[c] \in Nat /\ applied'[c] \in {applied[c], applied[c] + 1}
  <1>1. applied \in [Calls -> Nat]
    BY DEF P!TypeOK, P!ExchangeTypeOK
  <1>2. QED
    BY <1>1, StepsThatWrite DEF ProcessWrite

\* A step takes no write back, and makes no doubt go away.
LEMMA SettledBefore ==
  ASSUME P!CallsInv, P!CallsInv', [Next]_vars, Settled'
  PROVE  Settled
  <1>1. P!TypeOK
    BY DEF P!CallsInv
  <1>2. ASSUME NEW c \in Others PROVE applied[c] = 0
    <2>1. c \in Calls /\ applied'[c] = 0
      BY DEF Settled, Others
    <2>2. applied[c] \in Nat /\ applied'[c] \in {applied[c], applied[c] + 1}
      BY <1>1, <2>1, AppliedGrows
    <2>3. QED
      BY <2>1, <2>2
  <1>3. ASSUME NEW i \in Items
        PROVE  outcome[Batch[i]] \notin {"transport", "response_parse"}
    <2>1. Batch[i] \in Calls
      BY BatchItems
    <2>2. outcome'[Batch[i]] \notin {"transport", "response_parse"}
      BY DEF Settled
    <2>3. outcome[Batch[i]] # "none" => phase[Batch[i]] = "done"
      BY <2>1 DEF P!CallsInv, P!CallInv, P!NewInv, P!ReadingInv, P!WritingInv,
         P!TypeOK, P!Phases
    <2>4. phase[Batch[i]] = "done" => outcome'[Batch[i]] = outcome[Batch[i]]
      BY <1>1, <2>1, OutcomeKept
    <2>5. QED
      BY <2>2, <2>3, <2>4
  <1>4. QED
    BY <1>2, <1>3 DEF Settled

\* While the batch is settled, a write is that of the entry the loop is at, and
\* nothing of a later entry has been written.
LEMMA WriterIsItem ==
  ASSUME P!CallsInv, LoopInv, Settled, Settled', NEW c \in Calls, ProcessWrite(c)
  PROVE  \E m \in Items : /\ c = Batch[m]
                          /\ \A j \in Items : j > m => applied[Batch[j]] = 0
  <1>1. P!TypeOK /\ P!CallInv(c)
    BY DEF P!CallsInv
  <1>2. request[c] # NoMessage /\ request[c].act \in P!WriteActs
    BY DEF ProcessWrite, WriteActs, P!WriteActs
  <1>3. request[c] # P!GetRequest(op[c])
    BY <1>2 DEF P!GetRequest, P!WriteActs
  <1>4. applied[c] = 0 /\ phase[c] \in {"writing", "done"}
    BY <1>1, <1>2, <1>3, DnsWellFormed, P!PendingRequest
  <1>5. applied'[c] = 1
    BY <1>1, <1>4 DEF ProcessWrite, P!TypeOK, P!ExchangeTypeOK
  <1>6. c \notin Others
    BY <1>5 DEF Settled
  <1>7. PICK m \in Items : c = Batch[m]
    BY <1>6 DEF Others
  <1>8. phase[c] = "writing"
    <2>1. phase[c] = "done" => outcome[c] = "transport"
      BY <1>1, <1>2 DEF P!CallInv, P!DoneInv
    <2>2. QED
      BY <1>4, <1>7, <2>1 DEF Settled
  <1>9. \A i \in Items : i \in Nat
    BY BatchItems
  <1>10. m = item
    <2>1. ~(m > item)
      BY <1>7, <1>8 DEF LoopInv
    <2>2. ~(m < item)
      BY <1>7, <1>8 DEF LoopInv, Processed
    <2>3. QED
      BY <1>9, <2>1, <2>2 DEF LoopInv, ItemOK
  <1>11. ASSUME NEW j \in Items, j > m PROVE applied[Batch[j]] = 0
    <2>1. Batch[j] \in Calls /\ phase[Batch[j]] = "new"
      BY <1>10, <1>11, BatchItems DEF LoopInv
    <2>2. QED
      BY <2>1 DEF P!CallsInv, P!CallInv, P!NewInv
  <1>12. QED
    BY <1>7, <1>11

\* The write of an entry is the last one for its host so far.
LEMMA WriteKeepsLast ==
  ASSUME P!CallsInv, LoopInv, LastInv, Settled, Settled', NEW c \in Calls,
         ProcessWrite(c), UNCHANGED op
  PROVE  LastInv'
  <1> SUFFICES ASSUME NEW i \in Items, WroteLast(i)'
               PROVE  store'[op[Batch[i]].key] = after'[Batch[i]]
    BY DEF LastInv
  <1>1. P!TypeOK /\ P!CallInv(c)
    BY DEF P!CallsInv
  <1>2. PICK m \in Items : /\ c = Batch[m]
                           /\ \A j \in Items : j > m => applied[Batch[j]] = 0
    BY WriterIsItem
  <1>3. request[c] # NoMessage /\ request[c].act \in P!WriteActs
    BY DEF ProcessWrite, WriteActs, P!WriteActs
  <1>4. request[c].key = op[c].key /\ applied[c] = 0
    <2>1. request[c] # P!GetRequest(op[c])
      BY <1>3 DEF P!GetRequest, P!WriteActs
    <2>2. QED
      BY <1>1, <1>3, <2>1, DnsWellFormed, P!PendingRequest
  <1>5. /\ store' = [store EXCEPT ![op[c].key] = after'[c]]
        /\ applied'[c] = 1
        /\ \A d \in Calls : d # c => applied'[d] = applied[d] /\ after'[d] = after[d]
    BY <1>1, <1>4 DEF ProcessWrite, P!TypeOK, P!ExchangeTypeOK
  <1>6. \A j \in Items : j \in Nat /\ Batch[j] \in Calls /\ op[Batch[j]].key \in Hosts
    <2>1. ASSUME NEW j \in Items PROVE op[Batch[j]] \in Operation
      BY <1>1, BatchItems DEF P!TypeOK
    <2>2. QED
      BY <2>1, BatchItems, OpShape
  <1>7. store \in [Hosts -> StoredEntry \union {Absent}]
    BY <1>1 DEF P!TypeOK, P!ExchangeTypeOK
  <1>8. CASE i = m
    BY <1>2, <1>5, <1>6, <1>7, <1>8
  <1>9. CASE i # m
    <2>1. Batch[i] # c
      BY <1>2, <1>9, BatchItems
    <2>2. applied[Batch[i]] = 1
      BY <1>5, <1>6, <2>1 DEF WroteLast
    <2>3. ~(i > m)
      BY <1>2, <2>2
    <2>4. op[Batch[i]].key # op[c].key
      <3>1. m > i
        BY <1>6, <1>9, <2>3
      <3>2. op[c].key = op[Batch[i]].key => applied'[c] = 0
        BY <1>2, <3>1 DEF WroteLast
      <3>3. QED
        BY <1>5, <3>2
    <2>5. WroteLast(i)
      <3>1. ASSUME NEW j \in Items, j > i, op[Batch[j]].key = op[Batch[i]].key
            PROVE  applied[Batch[j]] = 0
        <4>1. applied'[Batch[j]] = 0
          BY <3>1 DEF WroteLast
        <4>2. Batch[j] # c
          BY <2>4, <3>1
        <4>3. QED
          BY <1>5, <1>6, <4>1, <4>2
      <3>2. QED
        BY <2>2, <3>1 DEF WroteLast
    <2>6. store[op[Batch[i]].key] = after[Batch[i]]
      BY <2>5 DEF LastInv
    <2>7. QED
      BY <1>5, <1>6, <1>7, <2>1, <2>4, <2>6
  <1>10. QED
    BY <1>8, <1>9

LEMMA LastStep ==
  ASSUME P!CallsInv, P!CallsInv', LoopInv, LastInv, [BulkNext]_bulkVars
  PROVE  LastInv'
  <1> SUFFICES ASSUME Settled' PROVE LastInv'
    BY DEF LastInv
  <1>1. [Next]_vars
    BY BulkStepIsCallStep DEF LoopInv
  <1>2. Settled
    BY <1>1, SettledBefore
  <1>3. CASE UNCHANGED <<store, applied, after, op>>
    BY <1>2, <1>3 DEF LastInv, WroteLast
  <1>4. CASE \E c \in Calls : ProcessWrite(c) /\ UNCHANGED op
    BY <1>2, <1>4, WriteKeepsLast
  <1>5. QED
    BY <1>1, <1>3, <1>4, StepsThatWrite

\* When nobody interferes and no call is left in doubt, the entries of a batch
\* take effect in its order: each host is left as the last entry that was
\* written for it asked, however many entries name it.
THEOREM LastEntryCorrect == BulkSpec => []LastEntryWins
  <1>1. LastInv => LastEntryWins
    BY DEF LastInv, LastEntryWins, Settled, WroteLast
  <1>2. P!CallsInv => P!TypeOK
    BY DEF P!CallsInv
  <1>3. P!CallsInv /\ P!CallsInv' /\ LoopInv /\ LastInv /\ [BulkNext]_bulkVars => LastInv'
    BY LastStep
  <1>4. QED
    BY <1>1, <1>2, <1>3, LoopInit, LoopStep, LastInit, InvCorrect, BatchIsCalls, PTL
       DEF BulkSpec

-----------------------------------------------------------------------------
(* The refinement.                                                         *)

\* A step of one call is no step of the entries it is not the call of.
LEMMA OthersMapped ==
  ASSUME P!TypeOK, NEW c \in Calls,
         \/ Begin(c) \/ ReadAnswered(c) \/ WriteAnswered(c) \/ TransportError(c)
         \/ FirewallStep(c),
         UNCHANGED <<item, stopped>>, NEW i \in Items, Batch[i] # c
  PROVE  VerdictOn(i)' = VerdictOn(i) /\ EffectOf(i)' = EffectOf(i)
  <1>1. Batch[i] \in Calls
    BY BatchItems
  <1>2. P!Kept(Batch[i])
    BY <1>1, SameCalls, SameFirewall, P!OthersKept
  <1>3. Processed' = Processed
    BY DEF Processed
  <1>4. QED
    BY <1>2, <1>3 DEF P!Kept, VerdictOn, EffectOf

\* A call that waits for an answer stays called until it is counted.
LEMMA AnswersMapped ==
  ASSUME P!TypeOK, LoopInv, NEW m \in Items,
         \/ ReadAnswered(Batch[m]) \/ WriteAnswered(Batch[m]) \/ TransportError(Batch[m]),
         UNCHANGED <<item, stopped>>
  PROVE  VerdictOn(m)' = VerdictOn(m) /\ EffectOf(m)' = EffectOf(m)
  <1> DEFINE c == Batch[m]
  <1>1. c \in Calls /\ phase \in [Calls -> P!Phases]
    BY BatchItems DEF P!TypeOK
  <1>2. phase[c] \in {"reading", "writing"} /\ UNCHANGED <<applied, before>>
    BY DEF ReadAnswered, WriteAnswered, TransportError
  <1>3. phase'[c] \in {"writing", "done"}
    <2>1. \/ phase' = [phase EXCEPT ![c] = "done"]
          \/ phase' = [phase EXCEPT ![c] = "writing"]
      BY DEF ReadAnswered, WriteAnswered, TransportError, Finish, Return, Submit
    <2>2. QED
      BY <1>1, <2>1
  <1>4. m \notin Processed /\ Processed' = Processed
    BY <1>2 DEF LoopInv, Processed
  <1>5. QED
    BY <1>2, <1>3, <1>4 DEF VerdictOn, EffectOf

\* What the firewall does for a call changes the effect of its entry, or
\* nothing; and an entry counted as refused has nothing on the way.
LEMMA FirewallMapped ==
  ASSUME P!CallsInv, LoopInv, NEW m \in Items, FirewallStep(Batch[m]),
         UNCHANGED <<item, stopped>>
  PROVE  /\ VerdictOn(m)' = VerdictOn(m)
         /\ \/ EffectOf(m)' = EffectOf(m)
            \/ /\ VerdictOn(m) \in {"called", "in_doubt"} /\ EffectOf(m) = "nothing"
               /\ EffectOf(m)' \in {"inserted", "overwrote"}
  <1> DEFINE c == Batch[m]
  <1>1. c \in Calls /\ P!TypeOK /\ P!CallInv(c)
    BY BatchItems DEF P!CallsInv
  <1>2. UNCHANGED <<phase, outcome>> /\ Processed' = Processed
    BY DEF FirewallStep, callVars, Processed
  <1>3. VerdictOn(m)' = VerdictOn(m)
    BY <1>2 DEF VerdictOn
  <1>4. CASE ProcessGet(c) \/ RefuseWrite(c) \/ RefuseOther(c)
    <2>1. UNCHANGED <<applied, before>>
      BY <1>4 DEF ProcessGet, RefuseWrite, RefuseOther
    <2>2. QED
      BY <1>3, <2>1 DEF EffectOf
  <1>5. CASE ProcessWrite(c)
    <2>1. request[c] # NoMessage /\ request[c].act \in P!WriteActs
      BY <1>5 DEF ProcessWrite, WriteActs, P!WriteActs
    <2>2. request[c] # P!GetRequest(op[c])
      BY <2>1 DEF P!GetRequest, P!WriteActs
    <2>3. applied[c] = 0 /\ phase[c] \in {"writing", "done"}
      BY <1>1, <2>1, <2>2, DnsWellFormed, P!PendingRequest
    <2>4. applied'[c] = 1
      BY <1>1, <1>5, <2>3 DEF ProcessWrite, P!TypeOK, P!ExchangeTypeOK
    <2>5. phase[c] = "done" => outcome[c] = "transport"
      BY <1>1, <2>1 DEF P!CallInv, P!DoneInv
    <2>6. m \in Processed => phase[c] = "done"
      BY DEF LoopInv
    <2>7. VerdictOn(m) \in {"called", "in_doubt"}
      BY <2>3, <2>5, <2>6 DEF VerdictOn
    <2>8. EffectOf(m) = "nothing" /\ EffectOf(m)' \in {"inserted", "overwrote"}
      BY <2>3, <2>4 DEF EffectOf
    <2>9. QED
      BY <1>3, <2>7, <2>8
  <1>6. QED
    BY <1>4, <1>5 DEF FirewallStep, Firewall

\* A step that leaves the loop where it is: it takes an entry up, lets one
\* take effect, or changes nothing that the abstract batch knows of.
LEMMA CallMaps ==
  ASSUME P!CallsInv, LoopInv, NEW c \in Calls,
         \/ Begin(c) \/ ReadAnswered(c) \/ WriteAnswered(c) \/ TransportError(c)
         \/ FirewallStep(c),
         UNCHANGED <<continueOnError, item, stopped, result>>,
         \A m \in Items : Batch[m] = c /\ Begin(c) => m = item /\ ~Over
  PROVE  [Order!BatchNext]_(Order!batchVars)
  <1> DEFINE V == [i \in Items |-> VerdictOn(i)]
             E == [i \in Items |-> EffectOf(i)]
  <1> USE DEF Order!BatchNext, Order!batchVars, Order!Entries, Items
  <1>1. P!TypeOK
    BY DEF P!CallsInv
  <1>2. ASSUME NEW i \in Items, Batch[i] # c
        PROVE  VerdictOn(i)' = VerdictOn(i) /\ EffectOf(i)' = EffectOf(i)
    BY <1>1, <1>2, OthersMapped
  <1>3. CASE c \in Others
    <2>1. \A i \in Items : Batch[i] # c
      BY <1>3 DEF Others
    <2>2. V' = V /\ E' = E
      BY <1>2, <2>1
    <2>3. QED
      BY <2>2
  <1>4. ASSUME NEW m \in Items, c = Batch[m] PROVE [Order!BatchNext]_(Order!batchVars)
    <2>1. \A i \in Items : i # m => VerdictOn(i)' = VerdictOn(i) /\ EffectOf(i)' = EffectOf(i)
      BY <1>2, <1>4, BatchItems
    <2>2. CASE ReadAnswered(c) \/ WriteAnswered(c) \/ TransportError(c)
      <3>1. VerdictOn(m)' = VerdictOn(m) /\ EffectOf(m)' = EffectOf(m)
        BY <1>1, <1>4, <2>2, AnswersMapped
      <3>2. V' = V /\ E' = E
        BY <2>1, <3>1
      <3>3. QED
        BY <3>2
    <2>3. CASE FirewallStep(c)
      <3>1. /\ VerdictOn(m)' = VerdictOn(m)
            /\ \/ EffectOf(m)' = EffectOf(m)
               \/ /\ VerdictOn(m) \in {"called", "in_doubt"} /\ EffectOf(m) = "nothing"
                  /\ EffectOf(m)' \in {"inserted", "overwrote"}
        BY <1>4, <2>3, FirewallMapped
      <3>2. V' = V
        BY <2>1, <3>1
      <3>3. CASE EffectOf(m)' = EffectOf(m)
        <4>1. E' = E
          BY <2>1, <3>3
        <4>2. QED
          BY <3>2, <4>1
      <3>4. CASE /\ VerdictOn(m) \in {"called", "in_doubt"} /\ EffectOf(m) = "nothing"
                 /\ EffectOf(m)' \in {"inserted", "overwrote"}
        <4>1. E' = [E EXCEPT ![m] = EffectOf(m)']
          BY <2>1
        <4>2. V[m] = VerdictOn(m) /\ E[m] = EffectOf(m)
          OBVIOUS
        <4>3. Order!Effect(m)
          BY <3>2, <3>4, <4>1, <4>2 DEF Order!Effect
        <4>4. QED
          BY <4>3
      <3>5. QED
        BY <3>1, <3>3, <3>4
    <2>4. CASE Begin(c)
      <3>1. m = item /\ ~Over
        BY <1>4, <2>4
      <3>2. ~stopped /\ m \notin Processed /\ Processed' = Processed
        <4>1. ~stopped /\ ~(m < item)
          BY <3>1, BatchItems DEF Over
        <4>2. m \notin Processed
          BY <3>1, <4>1 DEF Processed
        <4>3. QED
          BY <4>1, <4>2 DEF Processed
      <3>3. phase[c] = "new" /\ UNCHANGED <<applied, before>>
        BY <2>4 DEF Begin
      <3>4. phase'[c] # "new"
        BY <1>1, <2>4 DEF Begin, Return, Submit, P!TypeOK
      <3>5. VerdictOn(m) = "waiting" /\ VerdictOn(m)' = "called" /\ EffectOf(m)' = EffectOf(m)
        BY <1>4, <3>2, <3>3, <3>4 DEF VerdictOn, EffectOf
      <3>6. V' = [V EXCEPT ![m] = "called"] /\ E' = E /\ V[m] = "waiting"
        BY <2>1, <3>5
      <3>7. Order!TakeUp(m)
        BY <3>1, <3>6 DEF Order!TakeUp, Over
      <3>8. QED
        BY <3>7
    <2>5. QED
      BY <2>2, <2>3, <2>4
  <1>5. QED
    BY <1>3, <1>4 DEF Others

\* The loop counts its entry for what it did.
LEMMA TallyMaps ==
  ASSUME P!CallsInv, LoopInv, Tally
  PROVE  Order!BatchNext
  <1> DEFINE V == [i \in Items |-> VerdictOn(i)]
             E == [i \in Items |-> EffectOf(i)]
             c == Batch[item]
  <1>1. /\ item \in Items /\ item \notin Processed /\ c \in Calls
        /\ Processed' = Processed \union {item}
    BY TallyProcesses, BatchItems DEF LoopInv
  <1>2. /\ phase[c] = "done" /\ ~stopped
        /\ UNCHANGED <<phase, outcome, applied, before, continueOnError>>
        /\ result' = Count(c)
        /\ IF Succeeded(c) \/ continueOnError
             THEN item' = item + 1 /\ UNCHANGED stopped
             ELSE stopped' = TRUE /\ UNCHANGED item
    BY DEF Tally, Over, dnsVars
  <1>3. VerdictOn(item) = "called"
    BY <1>1, <1>2 DEF VerdictOn
  <1> DEFINE v == CASE outcome[c] = "created" -> "created"
                    [] outcome[c] \in {"updated", "ok"} -> "updated"
                    [] outcome[c] \in {"transport", "response_parse"} -> "in_doubt"
                    [] OTHER -> "refused"
  <1>4. ASSUME NEW i \in Items
        PROVE  /\ VerdictOn(i)' = IF i = item THEN v ELSE VerdictOn(i)
               /\ EffectOf(i)' = EffectOf(i)
    BY <1>1, <1>2 DEF VerdictOn, EffectOf
  <1>5. V' = [V EXCEPT ![item] = v] /\ E' = E /\ V[item] = "called" /\ E[item] = EffectOf(item)
    BY <1>1, <1>3, <1>4
  <1>6. /\ outcome[c] = "created" => applied[c] = 1 /\ before[c] = Absent
        /\ outcome[c] \in {"updated", "ok"} => applied[c] = 1 /\ before[c] # Absent
        /\ applied[c] = 1 => \/ outcome[c] \in {"created", "updated", "ok"}
                             \/ outcome[c] \in {"transport", "response_parse"}
        /\ applied[c] \in {0, 1}
    BY <1>1, <1>2, OutcomeEffect, EffectFacts
  <1>7. CASE outcome[c] = "created"
    <2>1. E[item] = "inserted" /\ v = "created"
      BY <1>5, <1>6, <1>7 DEF EffectOf
    <2>2. item' = item + 1 /\ UNCHANGED stopped
          /\ result' = [result EXCEPT !.created = @ + 1]
      BY <1>2, <1>7 DEF Succeeded, Count
    <2>3. Order!Succeed(item)
      BY <1>2, <1>5, <2>1, <2>2 DEF Order!Succeed
    <2>4. QED
      BY <1>1, <2>3 DEF Order!BatchNext, Order!Entries, Items
  <1>8. CASE outcome[c] \in {"updated", "ok"}
    <2>1. E[item] = "overwrote" /\ v = "updated"
      BY <1>5, <1>6, <1>8 DEF EffectOf
    <2>2. item' = item + 1 /\ UNCHANGED stopped
          /\ result' = [result EXCEPT !.updated = @ + 1]
      BY <1>2, <1>8 DEF Succeeded, Count
    <2>3. Order!Succeed(item)
      BY <1>2, <1>5, <2>1, <2>2 DEF Order!Succeed
    <2>4. QED
      BY <1>1, <2>3 DEF Order!BatchNext, Order!Entries, Items
  <1>9. CASE outcome[c] \notin {"created", "updated", "ok"}
    <2>1. /\ IF continueOnError THEN item' = item + 1 /\ UNCHANGED stopped
                                ELSE stopped' = TRUE /\ UNCHANGED item
          /\ result' = [result EXCEPT !.failed = @ + 1, !.errors = Append(@, Batch[item])]
      BY <1>2, <1>9 DEF Succeeded, Count
    <2>2. v = "in_doubt" \/ (v = "refused" /\ E[item] = "nothing")
      BY <1>5, <1>6, <1>9 DEF EffectOf
    <2>3. Order!Fail(item)
      BY <1>2, <1>5, <2>1, <2>2 DEF Order!Fail
    <2>4. QED
      BY <1>1, <2>3 DEF Order!BatchNext, Order!Entries, Items
  <1>10. QED
    BY <1>7, <1>8, <1>9

LEMMA OrderInit == BulkInit => Order!BatchInit
  <1> SUFFICES ASSUME BulkInit PROVE Order!BatchInit
    OBVIOUS
  <1>1. ASSUME NEW i \in Items PROVE VerdictOn(i) = "waiting" /\ EffectOf(i) = "nothing"
    <2>1. Batch[i] \in Calls /\ i \in Items
      BY BatchItems
    <2>2. phase[Batch[i]] = "new" /\ applied[Batch[i]] = 0
      BY <2>1 DEF BulkInit, Init, ExchangeInit
    <2>3. i \notin Processed
      BY LoopInit, <2>2 DEF LoopInv
    <2>4. QED
      BY <2>2, <2>3 DEF VerdictOn, EffectOf
  <1>2. QED
    BY <1>1 DEF BulkInit, Order!BatchInit, Order!Entries, Items

LEMMA OrderStep ==
  P!CallsInv /\ LoopInv /\ [BulkNext]_bulkVars => [Order!BatchNext]_(Order!batchVars)
  <1> SUFFICES ASSUME P!CallsInv, LoopInv, [BulkNext]_bulkVars
               PROVE  [Order!BatchNext]_(Order!batchVars)
    OBVIOUS
  <1>1. CASE BeginItem
    <2>1. item \in Items /\ Batch[item] \in Calls /\ ~Over
      BY <1>1, ItemInBatch, BatchItems DEF LoopInv, ItemOK, BeginItem
    <2>2. \A m \in Items : Batch[m] = Batch[item] => m = item
      BY <2>1, BatchItems
    <2>3. QED
      BY <1>1, <2>1, <2>2, CallMaps DEF BeginItem
  <1>2. CASE Tally
    BY <1>2, TallyMaps
  <1>3. CASE CallStep
    <2>1. CASE \E c \in Others : Begin(c)
      <3>1. PICK c \in Others : Begin(c)
        BY <2>1
      <3>2. c \in Calls /\ \A m \in Items : Batch[m] # c
        BY <3>1 DEF Others
      <3>3. QED
        BY <1>3, <3>1, <3>2, CallMaps DEF CallStep
    <2>2. CASE \E c \in Calls : ReadAnswered(c) \/ WriteAnswered(c) \/ TransportError(c)
                                \/ FirewallStep(c)
      <3>1. PICK c \in Calls : ReadAnswered(c) \/ WriteAnswered(c) \/ TransportError(c)
                               \/ FirewallStep(c)
        BY <2>2
      <3>2. ~Begin(c)
        BY <3>1, NoBegin DEF P!CallsInv
      <3>3. QED
        BY <1>3, <3>1, <3>2, CallMaps DEF CallStep
    <2>3. QED
      BY <1>3, <2>1, <2>2 DEF CallStep
  <1>4. CASE UNCHANGED bulkVars
    <2>1. UNCHANGED <<continueOnError, item, stopped, result, phase, outcome, applied, before>>
      BY <1>4 DEF bulkVars, dnsVars
    <2>2. \A i \in Items : VerdictOn(i)' = VerdictOn(i) /\ EffectOf(i)' = EffectOf(i)
      BY <2>1 DEF VerdictOn, EffectOf, Processed
    <2>3. QED
      BY <2>1, <2>2 DEF Order!batchVars
  <1>5. QED
    BY <1>1, <1>2, <1>3, <1>4 DEF BulkNext

\* A batch of any length, among any other calls and late writes, is an ordered
\* batch.
THEOREM BatchImplementsOrderedBatch == BulkSpec => ImplementsOrderedBatch
  <1>1. P!CallsInv => P!TypeOK
    BY DEF P!CallsInv
  <1>2. QED
    BY <1>1, OrderInit, OrderStep, LoopInit, LoopStep, InvCorrect, BatchIsCalls, PTL
       DEF BulkSpec, ImplementsOrderedBatch, Order!BatchSpec

=============================================================================
