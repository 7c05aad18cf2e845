-------------------------- MODULE DeliveryOutcome --------------------------
(***************************************************************************)
(* What the rest of the system relies on of a delivery                     *)
(* (server/deliveries.ts), however it was handed out, failed and handed    *)
(* out again: it is open until it is verified as posted or cancelled, and  *)
(* neither is ever open again.                                             *)
(***************************************************************************)
CONSTANT Keys  \* the deliveries

VARIABLE outcome

Outcomes == {"absent", "open", "verified_posted", "cancelled"}

OutcomeInit == outcome = [k \in Keys |-> "absent"]

BecomeFrom(k, from, to) ==
  /\ outcome[k] \in from
  /\ outcome' = [outcome EXCEPT ![k] = to]

Open(k) == BecomeFrom(k, {"absent"}, "open")

Verify(k) == BecomeFrom(k, {"open"}, "verified_posted")

\* A request made while the delivery was open may be acknowledged later.
Cancel(k) == BecomeFrom(k, {"open", "verified_posted"}, "cancelled")

OutcomeNext == \E k \in Keys : Open(k) \/ Verify(k) \/ Cancel(k)

OutcomeSpec == OutcomeInit /\ [][OutcomeNext]_outcome
=============================================================================
