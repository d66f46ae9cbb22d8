-------------------------- MODULE MCResponseParser --------------------------
(***************************************************************************)
(* Instance of ResponseParser for TLC: the root, the status tag and one    *)
(* other name, which is a resource or an element inside one; a success and *)
(* a failure code; one text fragment, the zero-records text: given twice,  *)
(* the status has another text, so both outcomes of the comparison and the *)
(* accumulation of text occur.                                             *)
(***************************************************************************)
EXTENDS ResponseParser

CONSTANTS Rule, C200, C500

MCNames == {Response, Status, Rule}
MCCodes == {C200, C500}
MCSuccess == {C200}
MCTexts == {ZeroRecords}
=============================================================================
