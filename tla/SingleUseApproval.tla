-------------------------- MODULE SingleUseApproval --------------------------
(***************************************************************************)
(* What the two-phase write promises of an approval                        *)
(* (server/project-changes.ts:1-21): a person decides a digest once, only  *)
(* an approved digest is consumed, and a consumed one is used at most once *)
(* and never again becomes something that could be applied.                *)
(***************************************************************************)
EXTENDS Naturals

CONSTANT Digests

VARIABLES
  approval,   \* what is known of each digest
  uses        \* the times each digest was sent to its project

vars == <<approval, uses>>

Approvals == {"absent", "pending", "approved", "rejected", "used"}

TypeOK ==
  /\ approval \in [Digests -> Approvals]
  /\ uses \in [Digests -> Nat]

Init ==
  /\ approval = [d \in Digests |-> "absent"]
  /\ uses = [d \in Digests |-> 0]

Move(d, from, to) ==
  /\ approval[d] = from
  /\ approval' = [approval EXCEPT ![d] = to]
  /\ UNCHANGED uses

Prepare(d) == Move(d, "absent", "pending")

Decide(d) == Move(d, "pending", "approved") \/ Move(d, "pending", "rejected")

Consume(d) == Move(d, "approved", "used")

Use(d) ==
  /\ approval[d] = "used"
  /\ uses[d] = 0
  /\ uses' = [uses EXCEPT ![d] = 1]
  /\ UNCHANGED approval

Next == \E d \in Digests : Prepare(d) \/ Decide(d) \/ Consume(d) \/ Use(d)

Spec == Init /\ [][Next]_vars

-----------------------------------------------------------------------------
\* An approval is used at most once, and only after it was consumed.
SingleUse ==
  \A d \in Digests : uses[d] <= 1 /\ (uses[d] = 1 => approval[d] = "used")

\* A decision against a change, and the consumption of an approval, are final.
Final ==
  [][\A d \in Digests :
       approval[d] \in {"rejected", "used"} => approval'[d] = approval[d]]_vars
=============================================================================
