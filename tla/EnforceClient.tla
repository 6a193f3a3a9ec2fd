---------------------------- MODULE EnforceClient ----------------------------
(***************************************************************************)
(* How one POST /v1/enforce turns into an outcome (enforce.py:             *)
(* EnforceClient.enforce, _read_json, _string_field).                      *)
(*                                                                         *)
(* A reply says how the opener ended (it returned a response, or raised    *)
(* HTTPError, OSError or something else), its status, the decision field   *)
(* and the audit_event_id field.  A field that is missing, null, not a     *)
(* string, or in a body that is not a JSON object reads as NoField.        *)
(***************************************************************************)
EXTENDS Integers

\* An audit id is the number of the service's event, from 1 on.
AuditIds == Nat \ {0}
NoField == 0      \* _string_field returns None
Blank == -1       \* a string without an ASCII letter or digit

Response(status, decision, audit) ==
  [end |-> "response", status |-> status, decision |-> decision, audit_event_id |-> audit]

HTTPError(status, audit) ==
  [end |-> "HTTPError", status |-> status, decision |-> "", audit_event_id |-> audit]

Broken(exception) ==
  [end |-> exception, status |-> 0, decision |-> "", audit_event_id |-> NoField]

Permits(reply) ==
  /\ reply.end = "response"
  /\ reply.status = 200
  /\ reply.decision = "permit"
  /\ reply.audit_event_id \in AuditIds

Denies(reply) ==
  /\ reply.end = "HTTPError"
  /\ reply.status = 403

\* Mutant: a 200 with decision "permit" is a permit, whatever its evidence.
EnforceWithoutEvidence(reply) ==
  CASE reply.status = 200 /\ reply.decision = "permit" ->
         [verdict |-> "permit", audit_event_id |-> reply.audit_event_id]
    [] Denies(reply)  -> [verdict |-> "deny", audit_event_id |-> reply.audit_event_id]
    [] OTHER          -> [verdict |-> "error", audit_event_id |-> NoField]

\* EnforceOutcome, ActionDeniedError, or ServiceUnavailableError and whatever
\* else the opener lets through, which pre_tool_call handles alike.
Enforce(reply) ==
  CASE Permits(reply) -> [verdict |-> "permit", audit_event_id |-> reply.audit_event_id]
    [] Denies(reply)  -> [verdict |-> "deny", audit_event_id |-> reply.audit_event_id]
    [] OTHER          -> [verdict |-> "error", audit_event_id |-> NoField]
=============================================================================
