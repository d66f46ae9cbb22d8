------------------------ MODULE ResponseParserProofs ------------------------
(***************************************************************************)
(* Proofs about ResponseParser, for every set of names, codes and texts    *)
(* and every bound.                                                        *)
(***************************************************************************)
EXTENDS ResponseParser, SequenceTheorems, TLAPS


-----------------------------------------------------------------------------
(* Lemmas on the operators of the event loop.                              *)

\* A new resource and one that a start or end tag has changed are resources
\* in progress.
LEMMA NewResourceType ==
  ASSUME NEW name \in Names
  PROVE  NewResource(name) \in CurrentResource
BY DEF NewResource, CurrentResource

LEMMA DescendType ==
  ASSUME NEW r \in CurrentResource, NEW name \in Names,
         NEW code \in Codes \union {NoCode}
  PROVE  Descend(r, name, code) \in CurrentResource
<1> DEFINE deeper == [r EXCEPT !.depth = @ + 1]
<1>1. deeper \in CurrentResource
  BY DEF CurrentResource
<1>2. [deeper EXCEPT !.in_status = TRUE, !.status_depth = deeper.depth,
                     !.status_code = code, !.status_text = <<>>] \in CurrentResource
  <2> HIDE DEF deeper
  <2>1. <<>> \in Seq(Texts)
    OBVIOUS
  <2>2. QED BY <1>1, <2>1 DEF CurrentResource
<1>3. QED BY <1>1, <1>2 DEF Descend

LEMMA CloseStatusType ==
  ASSUME NEW r \in CurrentResource, NEW name \in Names
  PROVE  CloseStatus(r, name) \in CurrentResource
BY DEF CloseStatus, CurrentResource, StatusRecord

\* finish always yields a response with a proper status.
LEMMA FinishedType ==
  ASSUME NEW r \in CurrentResource
  PROVE  Finished(r) \in ResourceResponse
BY DEF Finished, CurrentResource, ResourceResponse, StatusRecord

\* validate_resource_status lets a response through only if it succeeded.
LEMMA ValidatedSucceeded ==
  ASSUME NEW response \in ResourceResponse,
         ValidateResourceStatus(response) = "reading"
  PROVE  /\ response.status.text # <<ZeroRecords>>
         /\ response.status.code \in Success \union {NoCode}
BY DEF ValidateResourceStatus, ResourceResponse, StatusRecord

LEMMA ValidateType ==
  ASSUME NEW response
  PROVE  ValidateResourceStatus(response) \in {"reading", "zero_records", "api_error"}
BY DEF ValidateResourceStatus

-----------------------------------------------------------------------------
\* Type correctness of the event loop: the counters stay natural numbers and
\* every finished resource has a status.
THEOREM TypeCorrect == Spec => []TypeOK
<1>1. Init => TypeOK
  BY DEF Init, TypeOK, Verdicts
<1>2. TypeOK /\ [Next]_vars => TypeOK'
  <2> SUFFICES ASSUME TypeOK, [Next]_vars PROVE TypeOK'
    OBVIOUS
  <2> USE DEF TypeOK, Verdicts
  <2>1. ASSUME NEW name \in Names, NEW code \in Codes \union {NoCode},
               StartTag(name, code)
        PROVE  TypeOK'
    BY <2>1, NewResourceType, DescendType DEF StartTag
  <2>2. ASSUME NEW name \in Names, NEW code \in Codes \union {NoCode},
               EmptyTag(name, code)
        PROVE  TypeOK'
    <3>1. CASE current # NoResource
      <4>1. [code |-> code, text |-> <<>>] \in StatusRecord
        BY DEF StatusRecord
      <4>2. [current EXCEPT !.status = [code |-> code, text |-> <<>>]]
              \in CurrentResource
        BY <3>1, <4>1 DEF CurrentResource
      <4>3. current' \in CurrentResource /\ UNCHANGED <<stack, resources, verdict>>
        BY <2>2, <3>1, <4>2 DEF EmptyTag
      <4>4. QED BY <4>3
    <3>2. CASE current = NoResource
      BY <2>2, <3>2, NewResourceType, FinishedType DEF EmptyTag
    <3>3. QED BY <3>1, <3>2
  <2>3. ASSUME NEW text \in Texts, StatusText(text) PROVE TypeOK'
    <3>1. current \in CurrentResource
      BY <2>3 DEF StatusText
    <3>2. [current EXCEPT !.status_text = Append(@, text)] \in CurrentResource
      <4>1. Append(current.status_text, text) \in Seq(Texts)
        BY <3>1 DEF CurrentResource
      <4>2. ASSUME NEW t \in Seq(Texts)
            PROVE  [current EXCEPT !.status_text = t] \in CurrentResource
        BY <3>1 DEF CurrentResource
      <4>3. QED BY <4>1, <4>2
    <3>3. QED BY <2>3, <3>2 DEF StatusText
  <2>4. ASSUME NEW name \in Names, EndTag(name) PROVE TypeOK'
    <3>1. stack' \in Seq(Names)
      BY <2>4 DEF EndTag
    <3>2. CASE current = NoResource
      BY <2>4, <3>1, <3>2 DEF EndTag
    <3>3. CASE current # NoResource /\ current.depth = 1 /\ name = current.name
      <4>1. Finished(CloseStatus(current, name)) \in ResourceResponse
        BY <3>3, CloseStatusType, FinishedType
      <4>2. Deliver(Finished(CloseStatus(current, name)))
        BY <2>4, <3>3 DEF EndTag
      <4>3. QED BY <3>1, <4>1, <4>2, ValidateType DEF Deliver
    <3>4. CASE current # NoResource /\ ~(current.depth = 1 /\ name = current.name)
      <4>1. CloseStatus(current, name) \in CurrentResource
        BY <3>4, CloseStatusType
      <4>2. /\ current' = [CloseStatus(current, name) EXCEPT
                             !.depth = IF @ = 0 THEN 0 ELSE @ - 1]
            /\ UNCHANGED <<resources, verdict>>
        BY <2>4, <3>4 DEF EndTag
      <4>3. current' \in CurrentResource
        <5>1. ASSUME NEW c \in CurrentResource
              PROVE  [c EXCEPT !.depth = IF @ = 0 THEN 0 ELSE @ - 1]
                       \in CurrentResource
          BY DEF CurrentResource
        <5>2. QED BY <4>1, <4>2, <5>1
      <4>4. QED BY <3>1, <4>2, <4>3
    <3>5. QED BY <3>2, <3>3, <3>4
  <2>5. CASE EndOfFile
    BY <2>5 DEF EndOfFile
  <2>6. CASE ReadError
    BY <2>6 DEF ReadError
  <2>7. CASE UNCHANGED vars
    BY <2>7 DEF vars
  <2>8. QED BY <2>1, <2>2, <2>3, <2>4, <2>5, <2>6, <2>7 DEF Next
<1>3. QED BY <1>1, <1>2, PTL DEF Spec

\* No failed resource is ever delivered.
THEOREM DeliveredCorrect == Spec => []DeliveredResourcesSucceeded
<1>1. Init => DeliveredResourcesSucceeded
  BY DEF Init, DeliveredResourcesSucceeded
<1>2. TypeOK /\ DeliveredResourcesSucceeded /\ [Next]_vars
        => DeliveredResourcesSucceeded'
  <2> SUFFICES ASSUME TypeOK, DeliveredResourcesSucceeded, [Next]_vars
               PROVE  DeliveredResourcesSucceeded'
    OBVIOUS
  <2>1. ASSUME NEW response \in ResourceResponse,
               resources' = Append(resources, response),
               ValidateResourceStatus(response) = "reading"
        PROVE  DeliveredResourcesSucceeded'
    BY <2>1, ValidatedSucceeded DEF TypeOK, DeliveredResourcesSucceeded
  <2>2. ASSUME NEW name \in Names, NEW code \in Codes \union {NoCode},
               EmptyTag(name, code)
        PROVE  DeliveredResourcesSucceeded'
    <3>1. CASE current # NoResource
      BY <2>2, <3>1 DEF EmptyTag, DeliveredResourcesSucceeded
    <3>2. CASE current = NoResource
      <4> DEFINE response == Finished(NewResource(name))
      <4>1. response \in ResourceResponse
        BY NewResourceType, FinishedType
      <4>2. ValidateResourceStatus(response) = "reading"
        BY DEF ValidateResourceStatus, Finished, NewResource
      <4>3. resources' = Append(resources, response)
        BY <2>2, <3>2 DEF EmptyTag
      <4>4. QED BY <2>1, <4>1, <4>2, <4>3
    <3>3. QED BY <3>1, <3>2
  <2>3. ASSUME NEW name \in Names, EndTag(name)
        PROVE  DeliveredResourcesSucceeded'
    <3>1. CASE current # NoResource /\ current.depth = 1 /\ name = current.name
      <4> DEFINE response == Finished(CloseStatus(current, name))
      <4>1. response \in ResourceResponse
        BY <3>1, CloseStatusType, FinishedType DEF TypeOK
      <4>2. Deliver(response)
        BY <2>3, <3>1 DEF EndTag
      <4>3. QED
        BY <2>1, <4>1, <4>2 DEF Deliver, DeliveredResourcesSucceeded
    <3>2. CASE ~(current # NoResource /\ current.depth = 1 /\ name = current.name)
      BY <2>3, <3>2 DEF EndTag, DeliveredResourcesSucceeded
    <3>3. QED BY <3>1, <3>2
  <2>4. CASE UNCHANGED resources
    BY <2>4 DEF DeliveredResourcesSucceeded
  <2>5. QED
    BY <2>2, <2>3, <2>4 DEF Next, vars, StartTag, StatusText, EndOfFile, ReadError
<1>3. QED BY <1>1, <1>2, TypeCorrect, PTL DEF Spec

-----------------------------------------------------------------------------
\* What a start tag does to the counters of the open resource.
LEMMA DescendFields ==
  ASSUME NEW r \in CurrentResource, NEW name \in Names,
         NEW code \in Codes \union {NoCode},
         NEW d, d = Descend(r, name, code)
  PROVE  /\ d \in CurrentResource
         /\ d.name = r.name
         /\ d.status = r.status
         /\ d.depth = r.depth + 1
         /\ d.in_status <=> (r.in_status \/ (name = Status /\ r.depth = 1))
         /\ name = Status /\ r.depth = 1 =>
              /\ d.status_depth = 2
              /\ d.status_code = code /\ d.status_text = <<>>
         /\ ~(name = Status /\ r.depth = 1) =>
              /\ d.status_depth = r.status_depth
              /\ d.status_code = r.status_code /\ d.status_text = r.status_text
<1> DEFINE deeper == [r EXCEPT !.depth = @ + 1]
<1>1. /\ deeper \in CurrentResource
      /\ deeper.depth = r.depth + 1 /\ deeper.name = r.name
      /\ deeper.in_status = r.in_status /\ deeper.status_depth = r.status_depth
      /\ deeper.status = r.status /\ deeper.status_code = r.status_code
      /\ deeper.status_text = r.status_text
      /\ r.depth \in Nat
  BY DEF CurrentResource
<1>2. d =
        IF name = Status /\ deeper.depth = 2
          THEN [deeper EXCEPT !.in_status = TRUE, !.status_depth = deeper.depth,
                              !.status_code = code, !.status_text = <<>>]
          ELSE deeper
  BY DEF Descend
<1> HIDE DEF deeper
<1>3. deeper.depth = 2 <=> r.depth = 1
  BY <1>1
<1>0. d \in CurrentResource
  BY DescendType
<1>4. CASE name = Status /\ r.depth = 1
  <2>1. d = [deeper EXCEPT !.in_status = TRUE, !.status_depth = deeper.depth,
                           !.status_code = code, !.status_text = <<>>]
    BY <1>2, <1>3, <1>4
  <2>2. /\ d.name = deeper.name /\ d.status = deeper.status
        /\ d.depth = deeper.depth
        /\ d.in_status = TRUE /\ d.status_depth = deeper.depth
        /\ d.status_code = code /\ d.status_text = <<>>
    BY <1>1, <2>1 DEF CurrentResource
  <2>3. QED BY <1>0, <1>1, <1>4, <2>2
<1>5. CASE ~(name = Status /\ r.depth = 1)
  BY <1>0, <1>1, <1>2, <1>3, <1>5
<1>6. QED BY <1>4, <1>5

\* What an end tag does to them, before the depth is decremented.
LEMMA CloseStatusFields ==
  ASSUME NEW r \in CurrentResource, NEW name \in Names,
         NEW c, c = CloseStatus(r, name)
  PROVE  /\ c.name = r.name /\ c.depth = r.depth
         /\ c.status_depth = r.status_depth
         /\ c.status_text = r.status_text
         /\ c.in_status <=> /\ r.in_status
                            /\ ~(r.depth = r.status_depth /\ name = Status)
         /\ (r.in_status /\ r.depth = r.status_depth /\ name = Status) =>
              c.status = [code |-> r.status_code, text |-> r.status_text]
         /\ ~(r.in_status /\ r.depth = r.status_depth /\ name = Status) => c = r
BY DEF CloseStatus, CurrentResource

\* The stack of open elements.
LEMMA Lengths ==
  ASSUME NEW s \in Seq(Names)
  PROVE  /\ Len(s) = 0 \/ Len(s) = 1 \/ Len(s) >= 2
         /\ Len(s) >= 2 => Len(s) = 2 \/ Len(s) > 2
<1>1. Len(s) \in Nat
  BY LenProperties
<1>2. ASSUME NEW n \in Nat
      PROVE  (n = 0 \/ n = 1 \/ n >= 2) /\ (n >= 2 => n = 2 \/ n > 2)
  OBVIOUS
<1>3. QED BY <1>1, <1>2

LEMMA Push ==
  ASSUME NEW s \in Seq(Names), NEW name \in Names
  PROVE  /\ Len(s) \in Nat
         /\ Len(Append(s, name)) = Len(s) + 1
         /\ \A i \in 1..Len(s) : Append(s, name)[i] = s[i]
         /\ Append(s, name)[Len(s) + 1] = name
OBVIOUS

LEMMA Pop ==
  ASSUME NEW s \in Seq(Names), s # <<>>
  PROVE  /\ Len(s) \in Nat \ {0}
         /\ Len(SubSeq(s, 1, Len(s) - 1)) = Len(s) - 1
         /\ \A i \in 1..(Len(s) - 1) : SubSeq(s, 1, Len(s) - 1)[i] = s[i]
<1>1. Len(s) \in Nat \ {0}
  BY EmptySeq
<1>2. \A i \in 1..(Len(s) - 1) : s[i] \in Names
  BY <1>1, ElementOfSeq
<1>3. ASSUME NEW n \in Nat, n <= Len(s)
      PROVE  Len(SubSeq(s, 1, n)) = n
  OBVIOUS
<1>4. ASSUME NEW i \in 1..(Len(s) - 1)
      PROVE  SubSeq(s, 1, Len(s) - 1)[i] = s[i]
  BY <1>1, <1>2
<1>5. QED
  <2>1. Len(s) - 1 \in Nat /\ Len(s) - 1 <= Len(s)
    BY <1>1
  <2>2. QED BY <1>1, <1>3, <1>4, <2>1

LEMMA Root ==
  ASSUME NEW s \in Seq(Names)
  PROVE  s = <<Response>> <=> (Len(s) = 1 /\ s[1] = Response)
<1>1. <<Response>> \in Seq(Names) /\ Len(<<Response>>) = 1 /\ <<Response>>[1] = Response
  BY ParserAssumption
<1>2. ASSUME Len(s) = 1, s[1] = Response PROVE s = <<Response>>
  BY <1>1, <1>2, SeqEqual
<1>3. QED BY <1>1, <1>2

\* The depth counters follow the stack of open elements.
LEMMA DepthStep ==
  TypeOK /\ DepthAgreesWithStack /\ [Next]_vars => DepthAgreesWithStack'
<1> SUFFICES ASSUME TypeOK, DepthAgreesWithStack, [Next]_vars, verdict' = "reading"
             PROVE  DepthAgreesWithStack'
  BY DEF DepthAgreesWithStack
<1> USE DEF DepthAgreesWithStack
<1>0. /\ stack \in Seq(Names)
      /\ current # NoResource => current \in CurrentResource
  BY DEF TypeOK
<1>1. ASSUME NEW name \in Names, NEW code \in Codes \union {NoCode},
             StartTag(name, code)
      PROVE  DepthAgreesWithStack'
  <2>1. /\ verdict = "reading"
        /\ stack' = Append(stack, name)
        /\ Len(stack) \in Nat
        /\ Len(stack') = Len(stack) + 1
        /\ \A i \in 1..Len(stack) : stack'[i] = stack[i]
        /\ stack'[Len(stack) + 1] = name
    BY <1>0, <1>1, Push DEF StartTag
  <2>2. CASE current # NoResource
    <3>1. current' = Descend(current, name, code)
      BY <1>1, <2>2 DEF StartTag
    <3>2. current' \in CurrentResource
      BY <1>0, <2>2, <3>1, DescendType
    <3>3. Len(stack) >= 2 /\ stack[1] = Response /\ stack[2] # Status
      BY <2>1, <2>2
    <3>4. /\ current'.name = current.name
          /\ current'.depth = current.depth + 1
          /\ current'.in_status <=>
               (current.in_status \/ (name = Status /\ current.depth = 1))
          /\ name = Status /\ current.depth = 1 => current'.status_depth = 2
          /\ ~(name = Status /\ current.depth = 1) =>
               current'.status_depth = current.status_depth
      <4>1. current \in CurrentResource
        BY <1>0, <2>2
      <4>2. QED BY <1>1, <3>1, <4>1, DescendFields
    <3>5. current.name = stack[2] /\ current.depth = Len(stack) - 1
      BY <2>1, <2>2
    <3>6. current'.in_status <=> (Len(stack') >= 3 /\ stack'[3] = Status)
      <4>1. CASE Len(stack) = 2
        BY <2>1, <2>2, <3>4, <3>5, <4>1
      <4>2. CASE Len(stack) > 2
        <5>1. stack'[3] = stack[3] /\ Len(stack') >= 3
          BY <2>1, <4>2
        <5>2. current'.in_status <=> current.in_status
          BY <2>1, <3>4, <3>5, <4>2
        <5>3. QED BY <2>1, <2>2, <4>2, <5>1, <5>2
      <4>3. Len(stack) = 2 \/ Len(stack) > 2
        BY <1>0, <3>3, Lengths
      <4>4. QED BY <4>1, <4>2, <4>3
    <3>7. current'.in_status => current'.status_depth = 2
      BY <2>1, <2>2, <3>4
    <3>8. QED
      BY <1>0, <2>1, <3>2, <3>3, <3>4, <3>5, <3>6, <3>7, MarkerAssumption
  <2>3. CASE current = NoResource /\ IsResourceStart(name)
    <3>1. current' = NewResource(name) /\ current' # NoResource
      BY <1>1, <2>3, NewResourceType, MarkerAssumption DEF StartTag
    <3>2. QED BY <2>1, <2>3, <3>1 DEF IsResourceStart, NewResource
  <2>4. CASE current = NoResource /\ ~IsResourceStart(name)
    <3>1. current' = NoResource
      BY <1>1, <2>4 DEF StartTag
    <3>2. ~(Len(stack) >= 2 /\ stack[1] = Response /\ stack[2] # Status)
      BY <2>1, <2>4
    <3>3. ~(Len(stack) = 1 /\ stack[1] = Response /\ name # Status)
      BY <1>0, <2>4, Root DEF IsResourceStart
    <3>4. ~(Len(stack') >= 2 /\ stack'[1] = Response /\ stack'[2] # Status)
      <4>1. CASE Len(stack) = 0
        BY <2>1, <4>1
      <4>2. CASE Len(stack) = 1
        BY <2>1, <3>3, <4>2
      <4>3. CASE Len(stack) >= 2
        <5>1. stack'[1] = stack[1] /\ stack'[2] = stack[2]
          BY <2>1, <4>3
        <5>2. QED BY <2>1, <3>2, <4>3, <5>1
      <4>4. Len(stack) = 0 \/ Len(stack) = 1 \/ Len(stack) >= 2
        BY <1>0, Lengths
      <4>5. QED BY <4>1, <4>2, <4>3, <4>4
    <3>5. QED BY <3>1, <3>4
  <2>5. QED BY <2>2, <2>3, <2>4
<1>2. ASSUME NEW name \in Names, NEW code \in Codes \union {NoCode},
             EmptyTag(name, code)
      PROVE  DepthAgreesWithStack'
  <2>1. CASE current # NoResource
    <3>1. /\ UNCHANGED <<stack, verdict>>
          /\ current' = current \/ current' = [current EXCEPT !.status =
                                      [code |-> code, text |-> <<>>]]
      BY <1>2, <2>1 DEF EmptyTag
    <3>2. [current EXCEPT !.status = [code |-> code, text |-> <<>>]] \in CurrentResource
      <4>1. [code |-> code, text |-> <<>>] \in StatusRecord
        BY DEF StatusRecord
      <4>2. QED BY <1>0, <2>1, <4>1 DEF CurrentResource
    <3>3. current' # NoResource
      BY <2>1, <3>1, <3>2, MarkerAssumption
    <3>4. /\ current'.name = current.name /\ current'.depth = current.depth
          /\ current'.in_status = current.in_status
          /\ current'.status_depth = current.status_depth
      BY <1>0, <2>1, <3>1 DEF CurrentResource
    <3>5. QED BY <2>1, <3>1, <3>3, <3>4
  <2>2. CASE current = NoResource
    BY <1>2, <2>2 DEF EmptyTag
  <2>3. QED BY <2>1, <2>2
<1>3. ASSUME NEW text \in Texts, StatusText(text) PROVE DepthAgreesWithStack'
  <2>1. /\ UNCHANGED <<stack, verdict>> /\ current # NoResource
        /\ current' = [current EXCEPT !.status_text = Append(@, text)]
    BY <1>3 DEF StatusText
  <2>2. /\ current'.name = current.name /\ current'.depth = current.depth
        /\ current'.in_status = current.in_status
        /\ current'.status_depth = current.status_depth
    BY <1>0, <2>1 DEF CurrentResource
  <2>3. current' # NoResource
    <3>1. Append(current.status_text, text) \in Seq(Texts)
      BY <1>0, <2>1 DEF CurrentResource
    <3>2. ASSUME NEW t \in Seq(Texts)
          PROVE  [current EXCEPT !.status_text = t] \in CurrentResource
      BY <1>0, <2>1 DEF CurrentResource
    <3>3. QED BY <2>1, <3>1, <3>2, MarkerAssumption
  <2>4. QED BY <2>1, <2>2, <2>3
<1>4. ASSUME NEW name \in Names, EndTag(name) PROVE DepthAgreesWithStack'
  <2>1. /\ verdict = "reading" /\ stack # <<>> /\ stack[Len(stack)] = name
        /\ stack' = SubSeq(stack, 1, Len(stack) - 1)
    BY <1>4 DEF EndTag
  <2>2. /\ Len(stack) \in Nat \ {0} /\ Len(stack') = Len(stack) - 1
        /\ \A i \in 1..(Len(stack) - 1) : stack'[i] = stack[i]
    BY <1>0, <2>1, Pop
  <2>3. CASE current = NoResource
    <3>1. current' = NoResource
      BY <1>4, <2>3 DEF EndTag
    <3>2. QED BY <2>1, <2>2, <2>3, <3>1
  <2>4. CASE current # NoResource /\ current.depth = 1 /\ name = current.name
    <3>1. current' = NoResource
      BY <1>4, <2>4 DEF EndTag, Deliver
    <3>2. Len(stack) = 2
      BY <1>0, <2>1, <2>2, <2>4 DEF CurrentResource
    <3>3. QED BY <2>2, <3>1, <3>2
  <2>5. CASE current # NoResource /\ ~(current.depth = 1 /\ name = current.name)
    <3> DEFINE closed == CloseStatus(current, name)
    <3>1. current' = [closed EXCEPT !.depth = IF @ = 0 THEN 0 ELSE @ - 1]
      BY <1>4, <2>5 DEF EndTag
    <3>2. closed \in CurrentResource
      BY <1>0, <2>5, CloseStatusType
    <3>3. current' \in CurrentResource
      BY <3>1, <3>2 DEF CurrentResource
    <3>4. /\ Len(stack) >= 2 /\ stack[1] = Response /\ stack[2] # Status
          /\ current.name = stack[2] /\ current.depth = Len(stack) - 1
          /\ current.in_status <=> (Len(stack) >= 3 /\ stack[3] = Status)
          /\ current.in_status => current.status_depth = 2
      BY <2>1, <2>5
    <3>5. Len(stack) >= 3
      <4>1. Len(stack) # 2
        BY <2>1, <2>5, <3>4
      <4>2. QED BY <2>2, <3>4, <4>1
    <3>6. /\ closed.name = current.name /\ closed.depth = current.depth
          /\ closed.status_depth = current.status_depth
          /\ closed.in_status <=> /\ current.in_status
                                  /\ ~(current.depth = current.status_depth
                                       /\ name = Status)
      <4>1. current \in CurrentResource
        BY <1>0, <2>5
      <4>2. QED BY <1>4, <4>1, CloseStatusFields
    <3>7. /\ current'.name = current.name /\ current'.depth = current.depth - 1
          /\ current'.status_depth = current.status_depth
          /\ current'.in_status = closed.in_status
      <4> HIDE DEF closed
      <4>1. QED BY <1>0, <2>2, <3>1, <3>2, <3>4, <3>5, <3>6 DEF CurrentResource
    <3>8. current'.in_status <=> (Len(stack') >= 3 /\ stack'[3] = Status)
      <4>1. CASE Len(stack) = 3
        <5>1. current.in_status => name = Status
          BY <2>1, <3>4, <4>1
        <5>2. ~closed.in_status
          BY <3>4, <3>6, <4>1, <5>1
        <5>3. QED BY <2>2, <3>7, <4>1, <5>2
      <4>2. CASE Len(stack) > 3
        <5>1. closed.in_status <=> current.in_status
          BY <2>2, <3>4, <3>6, <4>2
        <5>2. stack'[3] = stack[3]
          BY <2>2, <4>2
        <5>3. QED BY <2>2, <3>4, <3>7, <4>2, <5>1, <5>2
      <4>3. QED BY <2>2, <3>5, <4>1, <4>2
    <3>9. QED BY <2>2, <3>3, <3>4, <3>5, <3>6, <3>7, <3>8, MarkerAssumption
  <2>6. QED BY <2>3, <2>4, <2>5
<1>5. CASE EndOfFile
  BY <1>5 DEF EndOfFile
<1>6. CASE ReadError
  BY <1>6 DEF ReadError
<1>7. CASE UNCHANGED vars
  BY <1>7 DEF vars
<1>8. QED BY <1>1, <1>2, <1>3, <1>4, <1>5, <1>6, <1>7 DEF Next

\* The open resource, its name, its depth and its open status are those of the
\* document at every point of the loop.
THEOREM DepthCorrect == Spec => []DepthAgreesWithStack
<1>1. Init => DepthAgreesWithStack
  BY DEF Init, DepthAgreesWithStack
<1>2. QED BY <1>1, DepthStep, TypeCorrect, PTL DEF Spec

-----------------------------------------------------------------------------
(* The event loop implements ResponseDocument, step by step.               *)

LEMMA DepthArithmetic ==
  ASSUME NEW n \in Nat, NEW d, d = n - 1
  PROVE  /\ n = 2 <=> d = 1
         /\ n = 3 <=> d = 2
         /\ d = 1 => ~(n >= 3)
OBVIOUS

LEMMA StartTagRefines ==
  ASSUME TypeOK, DepthAgreesWithStack, DepthAgreesWithStack',
         NEW name \in Names, NEW code \in Codes \union {NoCode},
         StartTag(name, code)
  PROVE  Document!Open(name, code)
<1>1. /\ verdict = "reading" /\ verdict' = "reading"
      /\ stack' = Append(stack, name) /\ Len(stack) \in Nat
      /\ Len(stack') = Len(stack) + 1
      /\ stack'[Len(stack) + 1] = name
      /\ resources' = resources
  BY Push DEF StartTag, TypeOK
<1>2. CASE current # NoResource
  <2>1. /\ current \in CurrentResource
        /\ current' = Descend(current, name, code)
    BY <1>2 DEF StartTag, TypeOK
  <2>2. /\ current' \in CurrentResource /\ current' # NoResource
        /\ current'.status = current.status
        /\ current'.in_status <=>
             (current.in_status \/ (name = Status /\ current.depth = 1))
        /\ name = Status /\ current.depth = 1 =>
             current'.status_code = code /\ current'.status_text = <<>>
        /\ ~(name = Status /\ current.depth = 1) =>
             /\ current'.status_code = current.status_code
             /\ current'.status_text = current.status_text
    <3>1. current' \in CurrentResource /\ current' # NoResource
      BY <2>1, DescendType, MarkerAssumption
    <3>2. current'.status = current.status
      <4> DEFINE d == Descend(current, name, code)
      <4>1. d.status = current.status
        BY <2>1, DescendFields
      <4>2. QED BY <2>1, <4>1
    <3>3. current'.in_status <=>
            (current.in_status \/ (name = Status /\ current.depth = 1))
      BY <2>1, DescendFields
    <3>4. name = Status /\ current.depth = 1 =>
            current'.status_code = code /\ current'.status_text = <<>>
      BY <2>1, DescendFields
    <3>5. ~(name = Status /\ current.depth = 1) =>
            /\ current'.status_code = current.status_code
            /\ current'.status_text = current.status_text
      BY <2>1, DescendFields
    <3>6. QED BY <3>1, <3>2, <3>3, <3>4, <3>5
  <2>3. ClosedStatus' = ClosedStatus
    BY <1>2, <2>2 DEF ClosedStatus
  <2>4. /\ current.depth = Len(stack) - 1
        /\ Len(stack) >= 2
        /\ Len(stack') >= 2 /\ stack'[1] = Response /\ stack'[2] # Status
        /\ current'.in_status <=> (Len(stack') >= 3 /\ stack'[3] = Status)
    BY <1>1, <1>2, <2>2 DEF DepthAgreesWithStack
  <2>5. Document!InDirectStatus(stack') /\ Len(stack') = 3
          <=> name = Status /\ current.depth = 1
    <3>1. Len(stack') = 3 <=> current.depth = 1
      <4>1. ASSUME NEW n \in Nat PROVE n + 1 = 3 <=> n - 1 = 1
        OBVIOUS
      <4>2. QED BY <1>1, <2>4, <4>1
    <3>2. Len(stack') = 3 => stack'[3] = name
      BY <1>1
    <3>3. QED BY <2>4, <3>1, <3>2 DEF Document!InDirectStatus, Document!InResource
  <2>6. CASE name = Status /\ current.depth = 1
    <3>1. OpenStatus' = [code |-> code, text |-> <<>>]
      BY <2>2, <2>6 DEF OpenStatus
    <3>2. QED BY <1>1, <2>3, <2>5, <2>6, <3>1 DEF Document!Open
  <2>7. CASE ~(name = Status /\ current.depth = 1)
    <3>1. OpenStatus' = OpenStatus
      BY <1>2, <2>2, <2>7 DEF OpenStatus
    <3>2. QED BY <1>1, <2>3, <2>5, <2>7, <3>1 DEF Document!Open
  <2>8. QED BY <2>6, <2>7
<1>3. CASE current = NoResource
  <2>1. current' = NoResource \/ current' = NewResource(name)
    BY <1>3 DEF StartTag
  <2>2. ClosedStatus' = ClosedStatus /\ OpenStatus' = OpenStatus
    BY <1>3, <2>1 DEF ClosedStatus, OpenStatus, NewResource
  <2>3. ~(Document!InDirectStatus(stack') /\ Len(stack') = 3)
    <3>1. ~(Len(stack) >= 2 /\ stack[1] = Response /\ stack[2] # Status)
      BY <1>1, <1>3 DEF DepthAgreesWithStack
    <3>2. Len(stack') = 3 => stack'[1] = stack[1] /\ stack'[2] = stack[2]
      BY <1>1, Push DEF TypeOK
    <3>3. Len(stack') = 3 => Len(stack) >= 2
      BY <1>1
    <3>4. QED BY <3>1, <3>2, <3>3 DEF Document!InDirectStatus, Document!InResource
  <2>4. QED BY <1>1, <2>2, <2>3 DEF Document!Open
<1>4. QED BY <1>2, <1>3

LEMMA EmptyTagRefines ==
  ASSUME TypeOK, DepthAgreesWithStack,
         NEW name \in Names, NEW code \in Codes \union {NoCode},
         EmptyTag(name, code)
  PROVE  Document!OpenAndClose(name, code)
<1>1. /\ verdict = "reading" /\ verdict' = "reading" /\ stack' = stack
      /\ stack \in Seq(Names)
  BY DEF EmptyTag, TypeOK
<1>2. stack = <<Response>> => Len(stack) = 1 /\ ~(Len(stack) >= 2)
  BY <1>1, Root
<1>3. CASE current # NoResource
  <2>1. /\ current \in CurrentResource /\ resources' = resources
        /\ current' = IF name = Status /\ current.depth = 1
                        THEN [current EXCEPT !.status = [code |-> code, text |-> <<>>]]
                        ELSE current
    BY <1>3 DEF EmptyTag, TypeOK
  <2>2. /\ Document!InResource(stack) /\ Len(stack) >= 2
        /\ Len(stack) = 2 <=> current.depth = 1
    <3>1. /\ Len(stack) >= 2 /\ stack[1] = Response /\ stack[2] # Status
          /\ current.depth = Len(stack) - 1
      BY <1>1, <1>3 DEF DepthAgreesWithStack
    <3>2. QED BY <1>1, <2>1, <3>1, Push DEF Document!InResource, CurrentResource
  <2>3. CASE name = Status /\ current.depth = 1
    <3>1. [code |-> code, text |-> <<>>] \in StatusRecord
      BY DEF StatusRecord
    <3>2. /\ current' \in CurrentResource
          /\ current'.status = [code |-> code, text |-> <<>>]
          /\ current'.in_status <=> current.in_status
          /\ current'.status_code = current.status_code
          /\ current'.status_text = current.status_text
      BY <2>1, <2>3, <3>1 DEF CurrentResource
    <3>3. /\ ClosedStatus' = [code |-> code, text |-> <<>>]
          /\ OpenStatus' = OpenStatus
      BY <1>3, <3>2, MarkerAssumption DEF ClosedStatus, OpenStatus
    <3>4. QED
      BY <1>1, <1>2, <2>1, <2>2, <2>3, <3>3 DEF Document!OpenAndClose
  <2>4. CASE ~(name = Status /\ current.depth = 1)
    <3>1. ClosedStatus' = ClosedStatus /\ OpenStatus' = OpenStatus
      BY <2>1, <2>4 DEF ClosedStatus, OpenStatus
    <3>2. ~(Document!InResource(stack) /\ Len(stack) = 2 /\ name = Status)
      BY <2>2, <2>4
    <3>3. stack # <<Response>>
      BY <1>2, <2>2
    <3>4. QED
      BY <1>1, <2>1, <3>1, <3>2, <3>3 DEF Document!OpenAndClose
  <2>5. QED BY <2>3, <2>4
<1>4. CASE current = NoResource
  <2>1. /\ current' = current /\ stack = <<Response>> /\ name # Status
        /\ resources' = Append(resources, Finished(NewResource(name)))
    BY <1>4 DEF EmptyTag, IsResourceStart
  <2>2. Finished(NewResource(name)) = [name |-> name, status |-> Document!Unstated]
    BY DEF Finished, NewResource, Document!Unstated
  <2>3. ClosedStatus' = ClosedStatus /\ OpenStatus' = OpenStatus
    BY <2>1 DEF ClosedStatus, OpenStatus
  <2>4. QED BY <1>1, <1>2, <2>1, <2>2, <2>3 DEF Document!OpenAndClose
<1>5. QED BY <1>3, <1>4

LEMMA ReplaceText ==
  ASSUME NEW c, NEW t, NEW v, NEW r, r = [code |-> c, text |-> t]
  PROVE  [r EXCEPT !.text = v] = [code |-> c, text |-> v]
OBVIOUS

LEMMA StatusTextRefines ==
  ASSUME TypeOK, DepthAgreesWithStack, NEW text \in Texts, StatusText(text)
  PROVE  Document!Characters(text)
<1>1. /\ verdict = "reading" /\ verdict' = "reading"
      /\ stack' = stack /\ resources' = resources
      /\ current # NoResource /\ current.in_status
      /\ current \in CurrentResource
      /\ current' = [current EXCEPT !.status_text = Append(@, text)]
  BY DEF StatusText, TypeOK
<1>2. Document!InDirectStatus(stack)
  BY <1>1 DEF DepthAgreesWithStack, Document!InDirectStatus, Document!InResource
<1>3. Append(current.status_text, text) \in Seq(Texts)
  BY <1>1 DEF CurrentResource
<1>4. /\ current' \in CurrentResource
      /\ current'.status = current.status
      /\ current'.in_status
      /\ current'.status_code = current.status_code
      /\ current'.status_text = Append(current.status_text, text)
  <2>1. ASSUME NEW t \in Seq(Texts), NEW d, d = [current EXCEPT !.status_text = t]
        PROVE  /\ d \in CurrentResource /\ d.status = current.status
               /\ d.in_status /\ d.status_code = current.status_code
               /\ d.status_text = t
    BY <1>1, <2>1 DEF CurrentResource
  <2>2. QED BY <1>1, <1>3, <2>1
<1>5. ClosedStatus' = ClosedStatus
  BY <1>1, <1>4, MarkerAssumption DEF ClosedStatus
<1>6. OpenStatus' = [OpenStatus EXCEPT !.text = Append(@, text)]
  <2>1. OpenStatus = [code |-> current.status_code, text |-> current.status_text]
    BY <1>1 DEF OpenStatus
  <2>2. OpenStatus' = [code |-> current'.status_code, text |-> current'.status_text]
    BY <1>4, MarkerAssumption DEF OpenStatus
  <2>3. current.status_text \in Seq(Texts)
    BY <1>1 DEF CurrentResource
  <2>4. OpenStatus' = [code |-> current.status_code,
                       text |-> Append(current.status_text, text)]
    BY <1>4, <2>2
  <2>5. OpenStatus.text = current.status_text
    BY <2>1
  <2>6. [OpenStatus EXCEPT !.text = Append(current.status_text, text)]
          = [code |-> current.status_code, text |-> Append(current.status_text, text)]
    BY <2>1, ReplaceText
  <2>7. QED BY <2>4, <2>5, <2>6
<1>7. QED BY <1>1, <1>2, <1>5, <1>6 DEF Document!Characters

LEMMA EndTagRefines ==
  ASSUME TypeOK, DepthAgreesWithStack, DepthAgreesWithStack',
         NEW name \in Names, EndTag(name)
  PROVE  Document!Close
<1>1. /\ verdict = "reading" /\ stack # <<>> /\ stack \in Seq(Names)
      /\ stack[Len(stack)] = name
      /\ stack' = SubSeq(stack, 1, Len(stack) - 1)
  BY DEF EndTag, TypeOK
<1>2. CASE current = NoResource
  <2>1. UNCHANGED <<resources, current, verdict>>
    BY <1>2 DEF EndTag
  <2>2. ~Document!InResource(stack)
    BY <1>1, <1>2 DEF DepthAgreesWithStack, Document!InResource
  <2>3. ClosedStatus' = ClosedStatus /\ OpenStatus' = OpenStatus
    BY <2>1 DEF ClosedStatus, OpenStatus
  <2>4. QED
    BY <1>1, <2>1, <2>2, <2>3 DEF Document!Close, Document!InDirectStatus
<1>3. ASSUME current # NoResource PROVE
      /\ current \in CurrentResource
      /\ Len(stack) >= 2 /\ stack[1] = Response /\ stack[2] # Status
      /\ current.name = stack[2] /\ current.depth = Len(stack) - 1
      /\ current.in_status <=> (Len(stack) >= 3 /\ stack[3] = Status)
      /\ current.in_status => current.status_depth = 2
      /\ Document!InResource(stack)
      /\ Len(stack) = 2 <=> current.depth = 1
      /\ Len(stack) = 3 <=> current.depth = 2
      /\ current.depth = 1 => ~current.in_status
  <2>1. /\ current \in CurrentResource /\ Len(stack) \in Nat
        /\ Len(stack) >= 2 /\ stack[1] = Response /\ stack[2] # Status
        /\ current.name = stack[2] /\ current.depth = Len(stack) - 1
        /\ current.in_status <=> (Len(stack) >= 3 /\ stack[3] = Status)
        /\ current.in_status => current.status_depth = 2
    BY <1>1, <1>3, Push DEF TypeOK, DepthAgreesWithStack
  <2>2. /\ Len(stack) = 2 <=> current.depth = 1
        /\ Len(stack) = 3 <=> current.depth = 2
        /\ current.depth = 1 => ~(Len(stack) >= 3)
    BY <1>1, <2>1, DepthArithmetic
  <2>3. QED BY <2>1, <2>2 DEF Document!InResource
<1>4. CASE current # NoResource /\ current.depth = 1 /\ name = current.name
  <2>3. ~current.in_status
    BY <1>3, <1>4
  <2>1. CloseStatus(current, name) = current
    BY <2>3 DEF CloseStatus
  <2>2. Deliver(Finished(current))
    BY <1>4, <2>1 DEF EndTag
  <2> DEFINE st == IF ClosedStatus = NoStatus THEN Document!Unstated ELSE ClosedStatus
  <2>4. Finished(current) = [name |-> stack[2], status |-> st]
    BY <1>3, <1>4 DEF Finished, ClosedStatus, Document!Unstated
  <2>5. ValidateResourceStatus(Finished(current)) = Document!Judge(st)
    BY <2>4 DEF ValidateResourceStatus, Document!Judge
  <2>6. /\ ClosedStatus' = NoStatus /\ OpenStatus' = NoStatus /\ OpenStatus = NoStatus
    BY <2>2, <2>3 DEF Deliver, ClosedStatus, OpenStatus
  <2>7. /\ verdict' = Document!Judge(st)
        /\ resources' = IF Document!Judge(st) = "reading"
                          THEN Append(resources, [name |-> stack[2], status |-> st])
                          ELSE resources
    BY <2>2, <2>4, <2>5 DEF Deliver
  <2>8. Document!InResource(stack) /\ Len(stack) = 2
    BY <1>3, <1>4
  <2>9. QED BY <1>1, <2>6, <2>7, <2>8 DEF Document!Close
<1>5. CASE current # NoResource /\ ~(current.depth = 1 /\ name = current.name)
  <2> DEFINE closed == CloseStatus(current, name)
  <2>1. /\ current' = [closed EXCEPT !.depth = IF @ = 0 THEN 0 ELSE @ - 1]
        /\ resources' = resources /\ verdict' = verdict
    BY <1>5 DEF EndTag
  <2>2. closed \in CurrentResource
    BY <1>3, <1>5, CloseStatusType
  <2>3. /\ current' \in CurrentResource /\ current' # NoResource
        /\ current'.status = closed.status
        /\ current'.in_status <=> closed.in_status
        /\ current'.status_code = closed.status_code
        /\ current'.status_text = closed.status_text
    <3> HIDE DEF closed
    <3>1. QED BY <2>1, <2>2, MarkerAssumption DEF CurrentResource
  <2>4. Len(stack) # 2
    BY <1>1, <1>3, <1>5
  <2>5. CASE Document!InDirectStatus(stack) /\ Len(stack) = 3
    <3>1. current.in_status /\ current.depth = current.status_depth /\ name = Status
      BY <1>1, <1>3, <1>5, <2>5 DEF Document!InDirectStatus
    <3>2. /\ ~closed.in_status
          /\ closed.status = [code |-> current.status_code, text |-> current.status_text]
      BY <1>3, <1>5, <3>1, CloseStatusFields
    <3>3. /\ ClosedStatus' = OpenStatus /\ OpenStatus' = NoStatus
      BY <1>5, <2>3, <3>1, <3>2 DEF ClosedStatus, OpenStatus
    <3>4. QED BY <1>1, <2>1, <2>5, <3>3 DEF Document!Close
  <2>6. CASE ~(Document!InDirectStatus(stack) /\ Len(stack) = 3)
    <3>1. ~(current.in_status /\ current.depth = current.status_depth /\ name = Status)
      BY <1>3, <1>5, <2>6 DEF Document!InDirectStatus
    <3>2. closed = current
      BY <3>1 DEF CloseStatus
    <3>3. ClosedStatus' = ClosedStatus /\ OpenStatus' = OpenStatus
      BY <1>5, <2>3, <3>2 DEF ClosedStatus, OpenStatus
    <3>4. QED BY <1>1, <2>1, <2>4, <2>6, <3>3 DEF Document!Close
  <2>7. QED BY <2>5, <2>6
<1>6. QED BY <1>2, <1>4, <1>5

LEMMA StepRefines ==
  TypeOK /\ DepthAgreesWithStack /\ DepthAgreesWithStack' /\ [Next]_vars
    => [Document!Next]_(Document!docVars)
<1> SUFFICES ASSUME TypeOK, DepthAgreesWithStack, DepthAgreesWithStack', [Next]_vars
             PROVE  [Document!Next]_(Document!docVars)
  OBVIOUS
<1>1. ASSUME NEW name \in Names, NEW code \in Codes \union {NoCode},
             StartTag(name, code)
      PROVE  Document!Next
  BY <1>1, StartTagRefines DEF Document!Next
<1>2. ASSUME NEW name \in Names, NEW code \in Codes \union {NoCode},
             EmptyTag(name, code)
      PROVE  Document!Next
  BY <1>2, EmptyTagRefines DEF Document!Next
<1>3. ASSUME NEW text \in Texts, StatusText(text) PROVE Document!Next
  BY <1>3, StatusTextRefines DEF Document!Next
<1>4. ASSUME NEW name \in Names, EndTag(name) PROVE Document!Next
  BY <1>4, EndTagRefines DEF Document!Next
<1>5. CASE EndOfFile
  <2>1. verdict = "reading" /\ UNCHANGED <<stack, resources, current>>
        /\ verdict' = IF current # NoResource THEN "parse_error" ELSE "ok"
    BY <1>5 DEF EndOfFile
  <2>2. current # NoResource <=> Document!InResource(stack)
    BY <2>1 DEF DepthAgreesWithStack, Document!InResource
  <2>3. ClosedStatus' = ClosedStatus /\ OpenStatus' = OpenStatus
    BY <2>1 DEF ClosedStatus, OpenStatus
  <2>4. Document!Finish
    BY <2>1, <2>2, <2>3 DEF Document!Finish
  <2>5. QED BY <2>4 DEF Document!Next
<1>6. CASE ReadError
  BY <1>6 DEF ReadError, Document!Malformed, Document!Next, ClosedStatus, OpenStatus
<1>7. CASE UNCHANGED vars
  BY <1>7 DEF vars, Document!docVars, ClosedStatus, OpenStatus
<1>8. QED BY <1>1, <1>2, <1>3, <1>4, <1>5, <1>6, <1>7 DEF Next

\* parse_response_xml implements the promise on the element tree: what it
\* delivers, and when it fails, does not depend on its depth counters.
THEOREM ParserImplementsDocument == Spec => ImplementsDocument
<1>1. Init => Document!Init
  BY DEF Init, Document!Init, ClosedStatus, OpenStatus
<1>2. QED
  BY <1>1, StepRefines, TypeCorrect, DepthCorrect, PTL
  DEF Spec, ImplementsDocument, Document!Spec

=============================================================================
