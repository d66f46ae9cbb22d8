--------------------------- MODULE ResponseParser ---------------------------
(***************************************************************************)
(* parse_response_xml of src/src/response.rs: the event loop that splits   *)
(* an API response into resources and their statuses.                      *)
(*                                                                         *)
(* The reader (quick-xml) is the environment: it emits any event.  A       *)
(* resource's body_xml is a copy of the input and is left out, and with it *)
(* the events that only add to it (comments, processing instructions,      *)
(* DOCTYPE, entity references, text outside a status).  Text is a sequence *)
(* of fragments; white space is left out (trim_text, trim).                *)
(***************************************************************************)
EXTENDS Naturals, Sequences

CONSTANTS Names, Response, Status,
          Codes, Success, NoCode,
          Texts, ZeroRecords,
          NoStatus,     \* status: None of a resource
          NoResource,   \* current: None
          MaxDepth,     \* bound: open elements
          MaxResources, \* bound: resources of one response
          MaxText       \* bound: text fragments of one status

ASSUME ParserAssumption ==
  /\ Response \in Names /\ Status \in Names /\ Response # Status
  /\ Success \subseteq Codes
  /\ NoCode \notin Codes
  /\ ZeroRecords \in Texts
  /\ MaxDepth \in Nat /\ MaxResources \in Nat /\ MaxText \in Nat

VARIABLES stack,      \* names of the open elements
          resources,  \* finished resources
          current,    \* the resource being read, or NoResource
          verdict     \* "reading", or what the function returned

vars == <<stack, resources, current, verdict>>

StatusRecord == [code: Codes \union {NoCode}, text: Seq(Texts)]

CurrentResource ==
  [name: Names, status: StatusRecord \union {NoStatus}, depth: Nat,
   in_status: BOOLEAN, status_depth: Nat,
   status_code: Codes \union {NoCode}, status_text: Seq(Texts)]

ASSUME MarkerAssumption ==
  /\ NoStatus \notin StatusRecord
  /\ NoResource \notin CurrentResource

ResourceResponse == [name: Names, status: StatusRecord]

Verdicts == {"reading", "ok", "zero_records", "api_error", "parse_error"}

TypeOK ==
  /\ stack \in Seq(Names)
  /\ resources \in Seq(ResourceResponse)
  /\ current \in CurrentResource \union {NoResource}
  /\ verdict \in Verdicts

-----------------------------------------------------------------------------
\* CurrentResource::new, with the depth its caller sets.
NewResource(name) ==
  [name |-> name, status |-> NoStatus, depth |-> 1, in_status |-> FALSE,
   status_depth |-> 0, status_code |-> NoCode, status_text |-> <<>>]

IsResourceStart(name) == stack = <<Response>> /\ name # Status

\* Faulty variant: finish without the default status.
FinishedWithoutDefault(resource) ==
  [name |-> resource.name, status |-> resource.status]

\* CurrentResource::finish.
Finished(resource) ==
  [name |-> resource.name,
   status |-> IF resource.status = NoStatus
                THEN [code |-> NoCode, text |-> <<>>]
                ELSE resource.status]

\* Faulty variant: a code of the wrong class is let through.
ValidateTextOnly(response) ==
  IF response.status.text = <<ZeroRecords>> THEN "zero_records" ELSE "reading"

\* validate_resource_status; "reading" is its Ok.
ValidateResourceStatus(response) ==
  IF response.status.text = <<ZeroRecords>> THEN "zero_records"
  ELSE IF response.status.code # NoCode /\ response.status.code \notin Success
         THEN "api_error"
  ELSE "reading"

\* Faulty variant: any <Status>, however deep, is taken for the resource's.
DescendAnyStatus(resource, name, code) ==
  LET deeper == [resource EXCEPT !.depth = @ + 1]
  IN  IF name = Status
        THEN [deeper EXCEPT !.in_status = TRUE, !.status_depth = deeper.depth,
                            !.status_code = code, !.status_text = <<>>]
        ELSE deeper

\* The open resource after a start tag inside it.
Descend(resource, name, code) ==
  LET deeper == [resource EXCEPT !.depth = @ + 1]
  IN  IF name = Status /\ deeper.depth = 2
        THEN [deeper EXCEPT !.in_status = TRUE, !.status_depth = deeper.depth,
                            !.status_code = code, !.status_text = <<>>]
        ELSE deeper

\* Faulty variant: the status stays open after its end tag.
CloseStatusStillOpen(resource, name) ==
  IF resource.in_status /\ resource.depth = resource.status_depth /\ name = Status
    THEN [resource EXCEPT
            !.status = [code |-> resource.status_code, text |-> resource.status_text]]
    ELSE resource

\* The open resource after an end tag's status handling.
CloseStatus(resource, name) ==
  IF /\ resource.in_status
     /\ resource.depth = resource.status_depth
     /\ name = Status
    THEN [resource EXCEPT !.in_status = FALSE,
            !.status = [code |-> resource.status_code, text |-> resource.status_text],
            !.status_code = NoCode]
    ELSE resource

-----------------------------------------------------------------------------
Init ==
  /\ stack = <<>>
  /\ resources = <<>>
  /\ current = NoResource
  /\ verdict = "reading"

\* Event::Start
StartTag(name, code) ==
  /\ verdict = "reading"
  /\ Len(stack) < MaxDepth
  /\ stack' = Append(stack, name)
  /\ current' = IF current # NoResource THEN Descend(current, name, code)
                ELSE IF IsResourceStart(name) THEN NewResource(name)
                ELSE NoResource
  /\ UNCHANGED <<resources, verdict>>

\* Event::Empty. An empty resource is pushed without validating its status.
EmptyTag(name, code) ==
  /\ verdict = "reading"
  /\ \/ /\ current # NoResource
        /\ current' = IF name = Status /\ current.depth = 1
                        THEN [current EXCEPT !.status = [code |-> code, text |-> <<>>]]
                        ELSE current
        /\ UNCHANGED resources
     \/ /\ current = NoResource
        /\ IsResourceStart(name)
        /\ Len(resources) < MaxResources
        /\ resources' = Append(resources, Finished(NewResource(name)))
        /\ UNCHANGED current
  /\ UNCHANGED <<stack, verdict>>

\* Event::Text and Event::CData inside a status.
StatusText(text) ==
  /\ verdict = "reading"
  /\ current # NoResource
  /\ current.in_status
  /\ Len(current.status_text) < MaxText
  /\ current' = [current EXCEPT !.status_text = Append(@, text)]
  /\ UNCHANGED <<stack, resources, verdict>>

\* The resource has closed: it is validated and, if it succeeded, pushed.
Deliver(response) ==
  /\ current' = NoResource
  /\ verdict' = ValidateResourceStatus(response)
  /\ resources' = IF verdict' = "reading" THEN Append(resources, response)
                  ELSE resources

\* Event::End whose name is that of the innermost element.
EndTag(name) ==
  /\ verdict = "reading"
  /\ stack # <<>>
  /\ stack[Len(stack)] = name
  /\ stack' = SubSeq(stack, 1, Len(stack) - 1)
  /\ \/ /\ current = NoResource
        /\ UNCHANGED <<resources, current, verdict>>
     \/ /\ current # NoResource
        /\ current.depth = 1 /\ name = current.name
        /\ Len(resources) < MaxResources
        /\ Deliver(Finished(CloseStatus(current, name)))
     \/ /\ current # NoResource
        /\ ~(current.depth = 1 /\ name = current.name)
        /\ current' = [CloseStatus(current, name) EXCEPT
                         !.depth = IF @ = 0 THEN 0 ELSE @ - 1]
        /\ UNCHANGED <<resources, verdict>>

\* Event::Eof
EndOfFile ==
  /\ verdict = "reading"
  /\ verdict' = IF current # NoResource THEN "parse_error" ELSE "ok"
  /\ UNCHANGED <<stack, resources, current>>

\* The reader fails, an attribute does not parse, or an end tag is not that
\* of the innermost element (which both the reader and the loop reject).
ReadError ==
  /\ verdict = "reading"
  /\ verdict' = "parse_error"
  /\ UNCHANGED <<stack, resources, current>>

Next ==
  \/ \E name \in Names, code \in Codes \union {NoCode} :
        StartTag(name, code) \/ EmptyTag(name, code)
  \/ \E text \in Texts : StatusText(text)
  \/ \E name \in Names : EndTag(name)
  \/ EndOfFile
  \/ ReadError

Spec == Init /\ [][Next]_vars

-----------------------------------------------------------------------------
\* The depth counters agree with the stack of open elements: the loop has an
\* open resource exactly while one is open in the document, its name is the
\* second open element, its depth is counted from there, and in_status says
\* whether one of its direct <Status> children is open. (CurrentResource's
\* depth, in_status and status_depth, response.rs:96-118, 160-182.)
DepthAgreesWithStack ==
  verdict = "reading" =>
    /\ (current # NoResource) <=>
         (Len(stack) >= 2 /\ stack[1] = Response /\ stack[2] # Status)
    /\ current # NoResource =>
         /\ current.name = stack[2]
         /\ current.depth = Len(stack) - 1
         /\ current.in_status <=> (Len(stack) >= 3 /\ stack[3] = Status)
         /\ current.in_status => current.status_depth = 2

\* Whatever the order of statuses and resources, no resource the caller is
\* handed carries a failure: neither a code outside 2xx nor the zero-records
\* text. (validate_resource_status before resources.push.)
DeliveredResourcesSucceeded ==
  \A i \in 1..Len(resources) :
    /\ resources[i].status.text # <<ZeroRecords>>
    /\ resources[i].status.code \in Success \union {NoCode}

\* The refinement mapping: the statuses of the open resource, read off the
\* parser's bookkeeping.
ClosedStatus == IF current = NoResource THEN NoStatus ELSE current.status

OpenStatus ==
  IF current # NoResource /\ current.in_status
    THEN [code |-> current.status_code, text |-> current.status_text]
    ELSE NoStatus

Document ==
  INSTANCE ResponseDocument WITH
    path <- stack, closedStatus <- ClosedStatus, openStatus <- OpenStatus,
    delivered <- resources, verdict <- verdict

\* parse_response_xml delivers the resources ResponseDocument describes, each
\* with the last of its direct statuses, and fails where it says so.
ImplementsDocument == Document!Spec

=============================================================================
