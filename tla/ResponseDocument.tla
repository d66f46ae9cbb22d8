-------------------------- MODULE ResponseDocument --------------------------
(***************************************************************************)
(* What parse_response_xml promises of an API response, stated on the      *)
(* element tree and not on the parser's own bookkeeping: every child of    *)
(* <Response> that is not a <Status> is a resource; its status is the last *)
(* <Status> among its direct children; a resource is delivered when it     *)
(* closes, and the first one whose status is a failure ends the reading.   *)
(*                                                                         *)
(* ResponseParser, the event loop with its depth counters, implements      *)
(* this.                                                                   *)
(***************************************************************************)
EXTENDS Naturals, Sequences

CONSTANTS Names,        \* element names
          Response,     \* "Response", the name of the root
          Status,       \* "Status"
          Codes,        \* values of a status' code attribute
          Success,      \* the codes that start with '2'
          NoCode,       \* a <Status> without the attribute
          Texts,        \* fragments of character data
          ZeroRecords,  \* the fragment "Number of records Zero."
          NoStatus      \* a resource that has no <Status>

VARIABLES path,         \* the open elements, outermost first
          closedStatus, \* last closed <Status> child of the open resource
          openStatus,   \* the <Status> child that is open now
          delivered,    \* the resources handed to the caller, in order
          verdict       \* "reading", or what the caller gets

docVars == <<path, closedStatus, openStatus, delivered, verdict>>

StatusRecord == [code: Codes \union {NoCode}, text: Seq(Texts)]

\* A resource's status when none was given: ResourceStatus's default.
Unstated == [code |-> NoCode, text |-> <<>>]

InResource(p) == Len(p) >= 2 /\ p[1] = Response /\ p[2] # Status

InDirectStatus(p) == InResource(p) /\ Len(p) >= 3 /\ p[3] = Status

\* The three ways the status of a closed resource can end.
Judge(st) ==
  IF st.text = <<ZeroRecords>> THEN "zero_records"
  ELSE IF st.code # NoCode /\ st.code \notin Success THEN "api_error"
  ELSE "reading"

Init ==
  /\ path = <<>>
  /\ closedStatus = NoStatus
  /\ openStatus = NoStatus
  /\ delivered = <<>>
  /\ verdict = "reading"

\* An element opens; a direct <Status> child starts a new status.
Open(name, code) ==
  /\ verdict = "reading"
  /\ path' = Append(path, name)
  /\ openStatus' = IF InDirectStatus(path') /\ Len(path') = 3
                     THEN [code |-> code, text |-> <<>>]
                     ELSE openStatus
  /\ UNCHANGED <<closedStatus, delivered, verdict>>

\* <Tag/>: a status without text, or a resource without content.
OpenAndClose(name, code) ==
  /\ verdict = "reading"
  /\ closedStatus' = IF InResource(path) /\ Len(path) = 2 /\ name = Status
                       THEN [code |-> code, text |-> <<>>]
                       ELSE closedStatus
  /\ delivered' = IF path = <<Response>> /\ name # Status
                    THEN Append(delivered, [name |-> name, status |-> Unstated])
                    ELSE delivered
  /\ UNCHANGED <<path, openStatus, verdict>>

\* Character data anywhere inside the open status is part of its text.
Characters(text) ==
  /\ verdict = "reading"
  /\ InDirectStatus(path)
  /\ openStatus' = [openStatus EXCEPT !.text = Append(@, text)]
  /\ UNCHANGED <<path, closedStatus, delivered, verdict>>

\* The innermost element closes.
Close ==
  /\ verdict = "reading"
  /\ path # <<>>
  /\ path' = SubSeq(path, 1, Len(path) - 1)
  /\ \/ /\ InDirectStatus(path) /\ Len(path) = 3
        /\ closedStatus' = openStatus
        /\ openStatus' = NoStatus
        /\ UNCHANGED <<delivered, verdict>>
     \/ /\ InResource(path) /\ Len(path) = 2
        /\ LET st == IF closedStatus = NoStatus THEN Unstated ELSE closedStatus
           IN  /\ verdict' = Judge(st)
               /\ delivered' = IF Judge(st) = "reading"
                                 THEN Append(delivered, [name |-> path[2], status |-> st])
                                 ELSE delivered
        /\ closedStatus' = NoStatus
        /\ UNCHANGED openStatus
     \/ /\ ~(InDirectStatus(path) /\ Len(path) = 3)
        /\ ~(InResource(path) /\ Len(path) = 2)
        /\ UNCHANGED <<closedStatus, openStatus, delivered, verdict>>

\* The document ends. The resources read so far are the answer unless one of
\* them is still open.
Finish ==
  /\ verdict = "reading"
  /\ verdict' = IF InResource(path) THEN "parse_error" ELSE "ok"
  /\ UNCHANGED <<path, closedStatus, openStatus, delivered>>

\* The document is not well formed at this point.
Malformed ==
  /\ verdict = "reading"
  /\ verdict' = "parse_error"
  /\ UNCHANGED <<path, closedStatus, openStatus, delivered>>

Next ==
  \/ \E name \in Names, code \in Codes \union {NoCode} :
        Open(name, code) \/ OpenAndClose(name, code)
  \/ \E text \in Texts : Characters(text)
  \/ Close
  \/ Finish
  \/ Malformed

Spec == Init /\ [][Next]_docVars

=============================================================================
