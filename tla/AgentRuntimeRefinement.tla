----------------------- MODULE AgentRuntimeRefinement -----------------------
(***************************************************************************)
(* AgentRuntime implements ApprovedOnce.  A payload is an action with the  *)
(* content it was previewed on; the approved payloads are those of the     *)
(* grants in the log, the outcome of a key is its completed reservation.   *)
(***************************************************************************)
EXTENDS AgentRuntime

Payloads == Actions \X (Contents \union {NoContent})

PayloadKey(p) == Key[p[1]]

ApprovedPayloads ==
  {<<log[i].action, log[i].baseline>> :
     i \in {j \in DOMAIN log : log[j].type = "approval_granted"}}

PerformedPayloads ==
  [i \in DOMAIN effects |-> <<effects[i].action, effects[i].baseline>>]

RecordedOutcome ==
  [k \in Keys |-> IF reservations[k].state = "completed"
                  THEN reservations[k].status ELSE ""]

Abstract == INSTANCE ApprovedOnce WITH
  KeyOf <- PayloadKey, Outcomes <- Statuses, NoOutcome <- "",
  approved <- ApprovedPayloads,
  performed <- PerformedPayloads,
  outcome <- RecordedOutcome

\* Every behaviour of the threads, the store and the crashes is a behaviour of
\* the approved-once promise (docs/architecture.md, Durable Runtime Approval
\* Grants): approved before performed, performed once, settled once.
ImplementsApprovedOnce == Abstract!Spec
=============================================================================
