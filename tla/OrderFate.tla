----------------------------- MODULE OrderFate -----------------------------
(***************************************************************************)
(* What the rest of the system relies on of Work Orders                    *)
(* (server/work-orders.ts), through all their claims, reviews and retries: *)
(* a draft is approved before anybody works on it, and an order ends once, *)
(* completed or dropped.  One step may concern several orders.             *)
(***************************************************************************)
CONSTANT Orders

VARIABLE fate

Fates == {"absent", "draft", "open", "completed", "dropped"}

\* Some handlers create an order and approve it in one act.
MayBecome(from) ==
  CASE from = "absent" -> {"draft", "open"}
    [] from = "draft" -> {"open", "dropped"}
    [] from = "open" -> {"completed", "dropped"}
    [] OTHER -> {}

FateInit == fate = [o \in Orders |-> "absent"]

Become(o, to) ==
  /\ to \in MayBecome(fate[o])
  /\ fate' = [fate EXCEPT ![o] = to]

FateNext ==
  /\ fate' \in [Orders -> Fates]
  /\ \A o \in Orders : fate'[o] # fate[o] => fate'[o] \in MayBecome(fate[o])

FateSpec == FateInit /\ [][FateNext]_fate
=============================================================================
