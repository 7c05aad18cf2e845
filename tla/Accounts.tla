------------------------------ MODULE Accounts ------------------------------
(***************************************************************************)
(* The Account Slots and Account Instances of server/accounts.ts: a slot   *)
(* is a place for an account on one platform, an instance is the account   *)
(* that currently fills it.  A lost instance archives and the slot is      *)
(* filled again; readiness is earned by the instance, item by item.        *)
(*                                                                         *)
(* Every handler is synchronous, so no other handler runs inside it.  Its  *)
(* SQL statements commit one by one, so the process may die between two    *)
(* of them: the actions on a Fragile slot also have the outcomes in which  *)
(* only their first statements were executed.                              *)
(***************************************************************************)
EXTENDS Naturals, Sequences, FiniteSets

CONSTANTS
  Slots,          \* the account_slots rows that may be created
  Items,          \* READINESS_ITEMS, the checklist of an instance
  MaxInstances,   \* bound on the account_instances rows
  Fragile         \* the rows in whose handlers the process may die

ASSUME AccountsAssumption == MaxInstances \in Nat

VARIABLES
  slotStatus,     \* account_slots.status, "absent" before the row exists
  instances       \* account_instances in id order, with their evidence rows

accountVars == <<slotStatus, instances>>

-----------------------------------------------------------------------------
(* The column account_slots.status also allows 'provisioning', 'impaired'  *)
(* and 'retired'; no statement of the program writes them.                 *)

SlotStatuses ==
  {"absent", "requested", "warming", "ready", "active", "replacing", "paused"}

Halted == {"paused", "retired"}

\* The row id that stands for SQL's NULL in a column that names an instance.
None == 0

InstanceIds == 1 .. MaxInstances

InstanceRow ==
  [slot : Slots, health : {"unverified", "healthy", "lost"}, archived : BOOLEAN,
   replaces : {None} \cup InstanceIds, evidence : SUBSET Items]

AccountsTypeOK ==
  /\ slotStatus \in [Slots -> SlotStatuses]
  /\ instances \in Seq(InstanceRow)
  /\ Len(instances) <= MaxInstances

AccountsInit ==
  /\ slotStatus = [s \in Slots |-> "absent"]
  /\ instances = <<>>

-----------------------------------------------------------------------------
(* Reading *)

InstancesOf(s) == {i \in DOMAIN instances : instances[i].slot = s}

UnarchivedOf(s) == {i \in InstancesOf(s) : ~ instances[i].archived}

\* ORDER BY id DESC LIMIT 1 over a set of row ids.
Newest(ids) ==
  IF ids = {} THEN None ELSE CHOOSE i \in ids : \A j \in ids : j <= i

currentInstance(s) == Newest(UnarchivedOf(s))

\* Faulty variant of lastArchivedInstance: the oldest loss instead of the latest.
lastArchivedOldest(s) ==
  LET lost == InstancesOf(s) \ UnarchivedOf(s)
  IN IF lost = {} THEN None ELSE CHOOSE i \in lost : \A j \in lost : i <= j

lastArchivedInstance(s) == Newest(InstancesOf(s) \ UnarchivedOf(s))

outstandingReadiness(i) == Items \ instances[i].evidence

SlotExists(s) == slotStatus[s] # "absent"

refuseIfHalted(s) == slotStatus[s] \notin Halted

-----------------------------------------------------------------------------
(* The handlers.  A disjunct with Fragile is the handler cut short. *)

SetSlot(s, status) == slotStatus' = [slotStatus EXCEPT ![s] = status]

createSlot(s) ==
  /\ slotStatus[s] = "absent"
  /\ SetSlot(s, "requested")
  /\ UNCHANGED instances

SlotIsFree(s) == currentInstance(s) = None

addInstance(s) ==
  /\ SlotExists(s)
  /\ refuseIfHalted(s)
  /\ SlotIsFree(s)
  /\ Len(instances) < MaxInstances
  /\ instances' = Append(instances,
       [slot |-> s, health |-> "unverified", archived |-> FALSE,
        replaces |-> lastArchivedInstance(s), evidence |-> {}])
  /\ \/ SetSlot(s, "warming")
     \/ s \in Fragile /\ UNCHANGED slotStatus

\* recordReadiness succeeds: the instance is in place and the pair is new,
\* which the UNIQUE (instance_id, item) index decides.
CanEarn(i, item) ==
  /\ i \in DOMAIN instances
  /\ ~ instances[i].archived
  /\ item \notin instances[i].evidence

Earn(i, item) ==
  instances' = [instances EXCEPT ![i].evidence = @ \cup {item}]

recordReadiness(i, item) ==
  /\ CanEarn(i, item)
  /\ Earn(i, item)
  /\ UNCHANGED slotStatus

\* Faulty variant of ReadinessComplete: one item is forgiven.
ReadinessAlmostComplete(i) == Cardinality(outstandingReadiness(i)) <= 1

ReadinessComplete(i) == outstandingReadiness(i) = {}

markReady(s) ==
  LET i == currentInstance(s) IN
  /\ SlotExists(s)
  /\ refuseIfHalted(s)
  /\ i # None
  /\ ReadinessComplete(i)
  /\ SetSlot(s, "ready")
  /\ \/ instances' = [instances EXCEPT ![i].health = "healthy"]
     \/ s \in Fragile /\ UNCHANGED instances

\* A loss never lifts the kill switch.
StatusAfterLoss(s) ==
  IF slotStatus[s] \in Halted THEN slotStatus[s] ELSE "replacing"

\* The UPDATE of markInstanceLost on the instance.
Archive(i) ==
  instances' = [instances EXCEPT ![i].archived = TRUE, ![i].health = "lost"]

markInstanceLost(i) ==
  /\ i \in DOMAIN instances
  /\ ~ instances[i].archived
  /\ Archive(i)
  /\ LET s == instances[i].slot
     IN \/ SetSlot(s, StatusAfterLoss(s))
        \/ s \in Fragile /\ UNCHANGED slotStatus

pauseSlot(s) ==
  /\ SlotExists(s)
  /\ SetSlot(s, "paused")
  /\ UNCHANGED instances

\* Faulty variant of RestoredStatus: a slot that lost its account is taken for one
\* that never held any.
RestoredForgetsLoss(s) ==
  IF currentInstance(s) # None
    THEN IF ReadinessComplete(currentInstance(s)) THEN "ready" ELSE "warming"
    ELSE "requested"

\* What a paused slot resumes to.
RestoredStatus(s) ==
  IF currentInstance(s) # None
    THEN IF ReadinessComplete(currentInstance(s)) THEN "ready" ELSE "warming"
    ELSE IF InstancesOf(s) = {} THEN "requested" ELSE "replacing"

resumeSlot(s) ==
  /\ slotStatus[s] = "paused"
  /\ SetSlot(s, RestoredStatus(s))
  /\ UNCHANGED instances

activateSlot(s) ==
  /\ slotStatus[s] = "ready"
  /\ SetSlot(s, "active")
  /\ UNCHANGED instances

\* The slot handlers that no Work Order takes part in.
SlotStep ==
  \/ \E s \in Slots :
       \/ createSlot(s) \/ addInstance(s) \/ markReady(s)
       \/ pauseSlot(s) \/ resumeSlot(s) \/ activateSlot(s)
  \/ \E i \in InstanceIds, item \in Items : recordReadiness(i, item)

AccountsNext ==
  \/ SlotStep
  \/ \E i \in InstanceIds : markInstanceLost(i)

AccountsSpec == AccountsInit /\ [][AccountsNext]_accountVars

-----------------------------------------------------------------------------
(* Properties *)

\* The instances the slot of instance i held before it.
Before(i) == {j \in DOMAIN instances : j < i /\ instances[j].slot = instances[i].slot}

\* A slot holds one instance at a time (accounts.ts:440): filling it again
\* takes a loss first, whatever was paused, resumed or interrupted between.
OneInstancePerSlot == \A s \in Slots : \A i, j \in UnarchivedOf(s) : i = j

\* The history of a slot is a chain, not a pile (accounts.ts:455): each
\* instance stands in for the one the slot held just before it, which is
\* archived, and the first stands in for none.
ReplacementChain ==
  \A i \in DOMAIN instances :
    /\ instances[i].replaces = Newest(Before(i))
    /\ \A j \in Before(i) : instances[j].archived

\* The status of a slot agrees with the accounts it held: requested means it
\* never held one, replacing that it lost its last one, and the others that
\* an account is in place (accounts.ts:571-628).  A pause may hide a loss or
\* a readiness, and resuming finds them again; a slot one of whose handlers
\* was cut short is out of step.
StatusMatchesInstances ==
  \A s \in Slots \ Fragile :
    /\ slotStatus[s] = "requested" => InstancesOf(s) = {}
    /\ slotStatus[s] = "replacing" => InstancesOf(s) # {} /\ UnarchivedOf(s) = {}
    /\ slotStatus[s] \in {"warming", "ready", "active"} => UnarchivedOf(s) # {}

\* A slot is ready or active only with an account whose whole checklist holds
\* evidence (accounts.ts:534-538): readiness does not survive the account
\* that earned it.
ReadyIsEarned ==
  \A s \in Slots \ Fragile : slotStatus[s] \in {"ready", "active"} =>
    /\ currentInstance(s) # None
    /\ instances[currentInstance(s)].evidence = Items

\* An archived instance is read-only (accounts.ts:566-568): no later handler
\* adds evidence to it, revives it or changes what it replaced.
KeepsArchived ==
  \A i \in DOMAIN instances :
    instances[i].archived => i \in DOMAIN instances' /\ instances'[i] = instances[i]

ArchivedIsFrozen == [][KeepsArchived]_accountVars
=============================================================================
