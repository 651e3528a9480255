---------------------------- MODULE ApprovedOnce ----------------------------
(***************************************************************************)
(* What the runtime promises about the side effects of a run, without the  *)
(* threads, the event log and the crashes: an effect is performed only     *)
(* after its payload was approved, effects of one key are performed at     *)
(* most once, and the outcome recorded for a key is recorded once.         *)
(***************************************************************************)
EXTENDS Sequences

CONSTANTS Keys, KeyOf(_), Payloads, Outcomes, NoOutcome

VARIABLES
  approved,   \* the payloads the user has approved
  performed,  \* the payloads performed, in order
  outcome     \* [Keys -> Outcomes \union {NoOutcome}]

vars == <<approved, performed, outcome>>

Init ==
  /\ approved = {}
  /\ performed = <<>>
  /\ outcome = [k \in Keys |-> NoOutcome]

Approve(p) ==
  /\ approved' = approved \union {p}
  /\ UNCHANGED <<performed, outcome>>

Perform(p) ==
  /\ p \in approved
  /\ \A i \in DOMAIN performed : KeyOf(performed[i]) # KeyOf(p)
  /\ performed' = Append(performed, p)
  /\ UNCHANGED <<approved, outcome>>

Settle(k, o) ==
  /\ outcome[k] = NoOutcome
  /\ outcome' = [outcome EXCEPT ![k] = o]
  /\ UNCHANGED <<approved, performed>>

Next ==
  \/ \E p \in Payloads : Approve(p) \/ Perform(p)
  \/ \E k \in Keys, o \in Outcomes : Settle(k, o)

Spec == Init /\ [][Next]_vars
=============================================================================
