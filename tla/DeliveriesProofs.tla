-------------------------- MODULE DeliveriesProofs --------------------------
(***************************************************************************)
(* Theorems about Deliveries, for any bundles, deliveries, orders, rules   *)
(* and permalinks, however often a delivery is released and wherever a     *)
(* handler is cut short.                                                   *)
(*                                                                         *)
(* To Work Orders a delivery does one thing: it inserts an order that did  *)
(* not exist, which is what the lemmas of WorkOrdersProofs call a calm     *)
(* step.  So what is proved of WorkSpec holds with deliveries around it,   *)
(* but for the slots: a release may queue an order for a paused one.       *)
(***************************************************************************)
EXTENDS Deliveries, WorkOrdersProofs

TargetsTyped == targets \in [Keys -> {AbsentTarget} \cup TargetRow]

BundlesTyped ==
  /\ exports \in Seq(Pieces) /\ Len(exports) <= MaxExports
  /\ exported \subseteq Pieces
  /\ releases \subseteq DOMAIN exports
  /\ disclosed \in [Keys -> SUBSET Rules]

\* A delivery takes a release that was cut; and from its release to a person
\* until it fails it names the order it went out as.
TargetsBound ==
  \A k \in Keys : TargetExists(k) =>
    /\ targets[k].release \in releases
    /\ targets[k].status \in ReleasedStatuses \cup {"verified_posted"}
         => targets[k].order \in Orders

DeliveriesInv == WorkInv /\ TargetsTyped /\ BundlesTyped /\ TargetsBound

LEMMA DeliveryParts ==
  DeliveriesTypeOK <=> WorkOrdersTypeOK /\ TargetsTyped /\ BundlesTyped
BY DEF DeliveriesTypeOK, TargetsTyped, BundlesTyped

LEMMA RowOfTarget ==
  ASSUME TargetsTyped, NEW k \in Keys
  PROVE  /\ TargetExists(k) <=> targets[k] \in TargetRow
         /\ ~ TargetExists(k) <=> targets[k] = AbsentTarget
BY DEF TargetsTyped, TargetExists, AbsentTarget, TargetRow, DeliveryStatuses, ReleasedStatuses, Over

-----------------------------------------------------------------------------
(* What the handlers do to a delivery                                       *)

\* A write to one delivery.
LEMMA TargetWrite ==
  ASSUME TargetsTyped, NEW k \in Keys, NEW row \in TargetRow, setTarget(k, row)
  PROVE  /\ TargetsTyped'
         /\ targets'[k] = row
         /\ \A j \in Keys \ {k} : targets'[j] = targets[j]
BY DEF TargetsTyped, setTarget

\* What a delivery is of and for does not change.
Paired(k) ==
  /\ TargetExists(k) /\ TargetExists(k)'
  /\ targets'[k].release = targets[k].release
  /\ targets'[k].slot = targets[k].slot
  /\ targets'[k].instance = targets[k].instance

Opens(k) ==
  /\ ~ TargetExists(k) /\ TargetExists(k)'
  /\ targets'[k].status = "queued"
  /\ targets'[k].release \in releases
  /\ targets'[k].order = Null
  /\ targets'[k].attemptCount = 0

HandsOut(k) ==
  /\ releaseToOperator(k)
  /\ Paired(k)
  /\ targets[k].status \in {"queued", "failed"}
  /\ targets'[k].status = "released_to_operator"
  /\ targets'[k].order \in Orders
  /\ targets'[k].attemptCount = targets[k].attemptCount + 1

Moves(k) ==
  /\ Paired(k)
  /\ targets'[k].order = targets[k].order
  /\ targets'[k].attemptCount = targets[k].attemptCount
  /\ \/ /\ targets[k].status \notin Over
        /\ targets'[k].status = targets[k].status
     \/ /\ targets[k].status = "released_to_operator"
        /\ targets'[k].status = "posting"
     \/ /\ targets[k].status \in {"posting", "released_to_operator"}
        /\ targets'[k].status = "proof_submitted"
     \/ /\ targets[k].status = "proof_submitted"
        /\ targets'[k].status = "verified_posted"
        /\ targets[k].link # Null /\ RecordsAgree(k)
        /\ targets'[k].link = targets[k].link
     \/ /\ targets[k].status \notin Over
        /\ targets'[k].status = "failed"
     \/ /\ targets[k].status # "cancelled"
        /\ targets'[k].status = "cancelled"

DeliveryEffect(k) ==
  /\ TargetsTyped'
  /\ \A j \in Keys \ {k} : targets'[j] = targets[j]
  /\ \/ targets'[k] = targets[k]
     \/ Opens(k) \/ HandsOut(k) \/ Moves(k)

LEMMA TargetMove ==
  ASSUME TargetsTyped, NEW k \in Keys, TargetExists(k), NEW status \in DeliveryStatuses,
         setStatus(k, status)
  PROVE  /\ TargetsTyped'
         /\ Paired(k)
         /\ targets'[k].status = status
         /\ targets'[k].order = targets[k].order
         /\ targets'[k].link = targets[k].link
         /\ targets'[k].attemptCount = targets[k].attemptCount
         /\ \A j \in Keys \ {k} : targets'[j] = targets[j]
<1> DEFINE row == [targets[k] EXCEPT !.status = status]
<1>1. targets[k] \in TargetRow
  BY RowOfTarget
<1>2. /\ row \in TargetRow /\ row.status = status
      /\ row.release = targets[k].release /\ row.slot = targets[k].slot
      /\ row.instance = targets[k].instance /\ row.order = targets[k].order
      /\ row.link = targets[k].link /\ row.attemptCount = targets[k].attemptCount
  BY <1>1 DEF TargetRow
<1>3. setTarget(k, row)
  BY DEF setStatus, setTarget
<1> HIDE DEF row
<1>4. /\ TargetsTyped' /\ targets'[k] = row
      /\ \A j \in Keys \ {k} : targets'[j] = targets[j]
  BY <1>2, <1>3, TargetWrite
<1>5. status # "absent"
  BY DEF DeliveryStatuses, ReleasedStatuses, Over
<1>6. QED
  BY <1>2, <1>4, <1>5 DEF Paired, TargetExists

LEMMA CreateOpens ==
  ASSUME AccountsTypeOK, TargetsTyped, BundlesTyped, NEW k \in Keys, NEW e, NEW s \in Slots,
         createTarget(k, e, s)
  PROVE  DeliveryEffect(k)
<1> DEFINE row == [status |-> "queued", release |-> e, slot |-> s,
                   instance |-> currentInstance(s), order |-> Null, link |-> Null,
                   cancelling |-> FALSE, attemptCount |-> 0]
<1>1. currentInstance(s) \in InstanceIds
  BY Rows, CurrentIsRow DEF createTarget
<1>2. e \in 1 .. MaxExports
  <2>1. e \in 1 .. Len(exports) /\ Len(exports) \in Nat
    BY LenProperties DEF createTarget, BundlesTyped
  <2>2. QED
    BY <2>1, DeliveriesAssumption DEF BundlesTyped
<1>3. row \in TargetRow
  BY <1>1, <1>2, DeliveriesAssumption DEF TargetRow, DeliveryStatuses
<1>4. setTarget(k, row) /\ ~ TargetExists(k) /\ e \in releases
  BY DEF createTarget, KeyIsNew
<1>5. row.status = "queued" /\ row.release = e /\ row.order = Null /\ row.attemptCount = 0
  OBVIOUS
<1> HIDE DEF row
<1>6. QED
  BY <1>3, <1>4, <1>5, TargetWrite DEF DeliveryEffect, Opens, TargetExists

LEMMA ReleaseHandsOut ==
  ASSUME TargetsTyped, NEW k \in Keys, releaseToOperator(k)
  PROVE  DeliveryEffect(k)
<1>1. TargetExists(k) /\ targets[k] \in TargetRow
  BY RowOfTarget DEF releaseToOperator, TargetExists
<1>2. CASE UNCHANGED targets
  BY <1>2 DEF DeliveryEffect, TargetsTyped
<1>3. ASSUME NEW o \in Orders, setTarget(k, Released(k, o))
      PROVE  DeliveryEffect(k)
  <2> DEFINE row == Released(k, o)
  <2>1. targets[k].attemptCount + 1 \in 0 .. MaxReleases
    BY <1>1, DeliveriesAssumption DEF TargetRow, releaseToOperator
  <2>2. /\ row \in TargetRow
        /\ row.status = "released_to_operator" /\ row.order = o
        /\ row.attemptCount = targets[k].attemptCount + 1
        /\ row.release = targets[k].release /\ row.slot = targets[k].slot
        /\ row.instance = targets[k].instance
    BY <1>1, <2>1 DEF Released, TargetRow, DeliveryStatuses, ReleasedStatuses
  <2> HIDE DEF row
  <2>3. /\ TargetsTyped' /\ targets'[k] = row
        /\ \A j \in Keys \ {k} : targets'[j] = targets[j]
    BY <1>3, <2>2, TargetWrite DEF row
  <2>4. HandsOut(k)
    BY <1>1, <2>2, <2>3 DEF HandsOut, Paired, TargetExists, releaseToOperator
  <2>5. QED
    BY <2>3, <2>4 DEF DeliveryEffect
<1>4. QED
  BY <1>2, <1>3 DEF releaseToOperator, Unused

LEMMA SubmitMoves ==
  ASSUME TargetsTyped, NEW k \in Keys, NEW link \in Links, submitDeliveryProof(k, link)
  PROVE  DeliveryEffect(k)
<1> DEFINE row == [targets[k] EXCEPT !.status = "proof_submitted", !.link = link]
<1>1. TargetExists(k) /\ targets[k] \in TargetRow
  BY RowOfTarget DEF submitDeliveryProof, TargetExists
<1>2. /\ row \in TargetRow /\ row.status = "proof_submitted" /\ row.order = targets[k].order
      /\ row.attemptCount = targets[k].attemptCount
      /\ row.release = targets[k].release /\ row.slot = targets[k].slot
      /\ row.instance = targets[k].instance
  BY <1>1 DEF TargetRow, DeliveryStatuses, ReleasedStatuses
<1>3. setTarget(k, row)
  BY DEF submitDeliveryProof
<1> HIDE DEF row
<1>4. /\ TargetsTyped' /\ targets'[k] = row
      /\ \A j \in Keys \ {k} : targets'[j] = targets[j]
  BY <1>2, <1>3, TargetWrite
<1>5. Moves(k)
  BY <1>1, <1>2, <1>4 DEF Moves, Paired, TargetExists, submitDeliveryProof
<1>6. QED
  BY <1>4, <1>5 DEF DeliveryEffect

LEMMA CancelMoves ==
  ASSUME TargetsTyped, NEW k \in Keys, cancelDelivery(k)
  PROVE  DeliveryEffect(k)
<1>1. TargetExists(k) /\ targets[k] \in TargetRow
  BY RowOfTarget DEF cancelDelivery, TargetExists, CancelledInPlace, ReleasedStatuses
<1>2. CASE targets[k].status \in CancelledInPlace /\ setStatus(k, "cancelled")
  BY <1>1, <1>2, TargetMove DEF DeliveryEffect, Moves, CancelledInPlace, DeliveryStatuses, Over
<1>3. CASE /\ targets[k].status \in ReleasedStatuses
           /\ targets' = [targets EXCEPT ![k].cancelling = TRUE]
  <2> DEFINE row == [targets[k] EXCEPT !.cancelling = TRUE]
  <2>1. /\ row \in TargetRow /\ row.status = targets[k].status /\ row.order = targets[k].order
        /\ row.attemptCount = targets[k].attemptCount
        /\ row.release = targets[k].release /\ row.slot = targets[k].slot
        /\ row.instance = targets[k].instance
    BY <1>1 DEF TargetRow
  <2>2. setTarget(k, row)
    BY <1>3 DEF setTarget
  <2> HIDE DEF row
  <2>3. /\ TargetsTyped' /\ targets'[k] = row
        /\ \A j \in Keys \ {k} : targets'[j] = targets[j]
    BY <2>1, <2>2, TargetWrite
  <2>4. Moves(k)
    BY <1>1, <1>3, <2>1, <2>3 DEF Moves, Paired, TargetExists, ReleasedStatuses, Over
  <2>5. QED
    BY <2>3, <2>4 DEF DeliveryEffect
<1>4. QED
  BY <1>2, <1>3 DEF cancelDelivery

LEMMA DeliveryStepEffect ==
  ASSUME AccountsTypeOK, TargetsTyped, BundlesTyped, NEW k \in Keys, DeliveryStep(k)
  PROVE  DeliveryEffect(k)
<1>1. CASE \E rule \in Rules : acknowledgeDisclosure(k, rule)
  BY <1>1 DEF acknowledgeDisclosure, DeliveryEffect, TargetsTyped
<1>2. {"posting", "verified_posted", "failed", "cancelled"} \subseteq DeliveryStatuses
  BY DEF DeliveryStatuses, ReleasedStatuses, Over
<1>3. CASE markPosting(k)
  BY <1>2, <1>3, TargetMove DEF markPosting, TargetExists, DeliveryEffect, Moves
<1>4. CASE verifyPosted(k)
  BY <1>2, <1>4, TargetMove DEF verifyPosted, TargetExists, DeliveryEffect, Moves
<1>5. CASE failDelivery(k)
  BY <1>2, <1>5, TargetMove DEF failDelivery, CanFail, DeliveryEffect, Moves
<1>6. CASE acknowledgeCancellation(k)
  BY <1>2, <1>6, TargetMove DEF acknowledgeCancellation, DeliveryEffect, Moves
<1>7. QED
  BY <1>1, <1>3, <1>4, <1>5, <1>6, CreateOpens, ReleaseHandsOut, SubmitMoves, CancelMoves
     DEF DeliveryStep

-----------------------------------------------------------------------------
(* What the handlers do to Work Orders                                      *)

\* The request a delivery makes is one Work Orders know.
LEMMA PostIsOrder ==
  ASSUME TargetsTyped, BundlesTyped, TargetsBound, NEW k \in Keys, TargetExists(k)
  PROVE  postSpec(k) \in OrderSpec /\ postSpec(k).kind = "post"
<1>1. targets[k] \in TargetRow /\ targets[k].release \in DOMAIN exports
  BY RowOfTarget DEF TargetsBound, BundlesTyped
<1>2. exports[targets[k].release] \in Pieces
  BY <1>1, ElementOfSeq, LenProperties DEF BundlesTyped
<1>3. QED
  BY <1>1, <1>2, DeliveriesAssumption, WorkOrdersAssumption DEF postSpec, OrderSpec, Kinds, TargetRow

\* A release inserts one order that did not exist, and no other handler of a
\* delivery touches anything but the deliveries.
LEMMA ReleaseInserts ==
  ASSUME NEW k \in Keys, releaseToOperator(k)
  PROVE  /\ UNCHANGED <<accountVars, attempts, worldVars>>
         /\ \E o \in Unused, status \in {"draft", "awaiting_brand_approval", "queued"} :
              InsertOrder(o, postSpec(k), status)
BY DEF releaseToOperator

LEMMA OthersKeepWork ==
  ASSUME NEW k \in Keys, DeliveryStep(k), ~ releaseToOperator(k)
  PROVE  UNCHANGED workVars
BY DEF DeliveryStep, createTarget, acknowledgeDisclosure, markPosting, verifyPosted,
       failDelivery, cancelDelivery, acknowledgeCancellation, submitDeliveryProof

LEMMA ReleaseIsCalm ==
  ASSUME DeliveriesInv, NEW k \in Keys, releaseToOperator(k)
  PROVE  /\ CalmEffect
         /\ \A q \in Orders : StatusMoves(orders[q].status, orders'[q].status)
<1>1. OrdersTyped /\ AttemptsTyped /\ WorldTyped
  BY TypedParts DEF DeliveriesInv, WorkInv
<1>2. TargetExists(k)
  BY DEF releaseToOperator, TargetExists
<1>3. postSpec(k) \in OrderSpec
  BY <1>2, PostIsOrder DEF DeliveriesInv
<1>4. PICK o \in Unused, status \in {"draft", "awaiting_brand_approval", "queued"} :
        InsertOrder(o, postSpec(k), status)
  BY ReleaseInserts
<1>5. o \in Orders /\ ~ Exists(o) /\ status \in OrderStatuses
  BY DEF Unused, OrderStatuses
<1>6. /\ OrdersTyped'
      /\ orders'[o].status = status
      /\ \A q \in Orders \ {o} : orders'[q] = orders[q]
  <2> DEFINE spec == postSpec(k)
  <2>1. spec \in OrderSpec /\ InsertOrder(o, spec, status)
    BY <1>3, <1>4
  <2> HIDE DEF spec
  <2>2. /\ OrdersTyped'
        /\ orders'[o] = [spec |-> spec, status |-> status]
        /\ \A q \in Orders \ {o} : orders'[q] = orders[q]
    BY <1>1, <1>5, <2>1, InsertEffect
  <2>3. QED
    BY <2>2
<1>7. attempts' = attempts /\ AttemptsTyped' /\ WorldTyped' /\ clock.day <= clock'.day
  BY <1>1, ReleaseInserts DEF AttemptsTyped, WorldTyped, worldVars
<1>8. CalmEffect
  BY <1>5, <1>6, <1>7 DEF CalmEffect
<1>9. QED
  BY <1>1, <1>3, <1>4, <1>8, InsertsMoveStatuses

\* Every step of the composed system, seen by Work Orders and by the accounts.
LEMMA SeenByWork ==
  ASSUME DeliveriesInv, [DeliveriesNext]_allVars
  PROVE  /\ CalmEffect \/ \E o \in Orders : OrderStep(o) /\ OrderEffect(o)
         /\ \A q \in Orders : StatusMoves(orders[q].status, orders'[q].status)
         /\ [AccountsNext]_accountVars
<1>1. CASE [WorkNext]_workVars
  BY <1>1, TypedParts, StepEffect, EveryStepMovesStatuses, StepIsAccountsStep
     DEF DeliveriesInv, WorkInv, QuietEffect
<1>2. ASSUME NEW k \in Keys, releaseToOperator(k)
      PROVE  /\ CalmEffect
             /\ \A q \in Orders : StatusMoves(orders[q].status, orders'[q].status)
             /\ UNCHANGED accountVars
  BY <1>2, ReleaseIsCalm, ReleaseInserts
<1>3. ASSUME NEW k \in Keys, DeliveryStep(k), ~ releaseToOperator(k)
      PROVE  UNCHANGED workVars
  BY <1>3, OthersKeepWork
<1>4. ASSUME NEW p \in Pieces, exportPiece(p) \/ releasePiece(p)
      PROVE  UNCHANGED workVars
  BY <1>4 DEF exportPiece, releasePiece
<1>5. QED
  BY <1>1, <1>2, <1>3, <1>4 DEF DeliveriesNext, WorkStep, allVars

-----------------------------------------------------------------------------
(* The invariant                                                            *)

\* What one step does to the bundles and to every delivery.
LEMMA SeenByDeliveries ==
  ASSUME DeliveriesInv, [DeliveriesNext]_allVars
  PROVE  \/ UNCHANGED targets
         \/ \E k \in Keys : DeliveryEffect(k)
<1>1. ASSUME NEW k \in Keys, DeliveryStep(k) PROVE DeliveryEffect(k)
  BY <1>1, DeliveryStepEffect DEF DeliveriesInv, WorkInv, AccountsInv
<1>2. QED
  BY <1>1 DEF DeliveriesNext, WorkStep, exportPiece, releasePiece, allVars, deliveryVars

\* Bundles are appended to the shelf, and a release is never withdrawn.
LEMMA BundlesStep ==
  ASSUME DeliveriesInv, [DeliveriesNext]_allVars
  PROVE  /\ BundlesTyped'
         /\ releases \subseteq releases'
         /\ \A e \in DOMAIN exports : exports'[e] = exports[e]
<1>1. BundlesTyped /\ exports \in Seq(Pieces) /\ MaxExports \in Nat
  BY DeliveriesAssumption DEF DeliveriesInv, BundlesTyped
<1>2. DOMAIN exports = 1 .. Len(exports) /\ Len(exports) \in Nat
  BY <1>1, LenProperties
<1>3. CASE UNCHANGED <<exports, exported, releases, disclosed>>
  BY <1>1, <1>3 DEF BundlesTyped
<1>4. ASSUME NEW p \in Pieces, exportPiece(p)
      PROVE  /\ BundlesTyped'
             /\ releases \subseteq releases'
             /\ \A e \in DOMAIN exports : exports'[e] = exports[e]
  <2>1. /\ exports' = Append(exports, p) /\ Len(exports) < MaxExports
        /\ exported' \subseteq Pieces /\ UNCHANGED <<releases, disclosed>>
    BY <1>1, <1>4 DEF exportPiece, BundlesTyped
  <2>2. /\ exports' \in Seq(Pieces) /\ Len(exports') = Len(exports) + 1
        /\ \A e \in 1 .. Len(exports) : exports'[e] = exports[e]
    BY <1>1, <2>1, AppendProperties
  <2>3. DOMAIN exports \subseteq DOMAIN exports' /\ Len(exports') <= MaxExports
    BY <1>1, <1>2, <2>1, <2>2, LenProperties
  <2>4. QED
    BY <1>1, <1>2, <2>1, <2>2, <2>3 DEF BundlesTyped
<1>5. ASSUME NEW p \in Pieces, releasePiece(p)
      PROVE  /\ BundlesTyped'
             /\ releases \subseteq releases'
             /\ \A e \in DOMAIN exports : exports'[e] = exports[e]
  <2> DEFINE ids == {e \in DOMAIN exports : exports[e] = p}
  <2>1. ids \in SUBSET (1 .. Len(exports)) /\ latestExport(p) = Newest(ids)
    BY <1>2 DEF latestExport
  <2>2. latestExport(p) \in ids
    <3> HIDE DEF ids
    <3>1. QED
      BY <1>2, <1>5, <2>1, NewestOf DEF releasePiece
  <2>3. QED
    BY <1>1, <1>5, <2>2 DEF releasePiece, BundlesTyped
<1>6. ASSUME NEW k \in Keys, DeliveryStep(k)
      PROVE  /\ BundlesTyped'
             /\ releases \subseteq releases'
             /\ \A e \in DOMAIN exports : exports'[e] = exports[e]
  <2>1. CASE \E rule \in Rules : acknowledgeDisclosure(k, rule)
    BY <1>1, <2>1 DEF acknowledgeDisclosure, BundlesTyped
  <2>2. CASE ~ \E rule \in Rules : acknowledgeDisclosure(k, rule)
    BY <1>3, <1>6, <2>2
       DEF DeliveryStep, createTarget, releaseToOperator, markPosting, verifyPosted,
           failDelivery, cancelDelivery, acknowledgeCancellation, submitDeliveryProof
  <2>3. QED
    BY <2>1, <2>2
<1>7. QED
  BY <1>3, <1>4, <1>5, <1>6 DEF DeliveriesNext, WorkStep, allVars, deliveryVars

LEMMA BoundStep ==
  ASSUME DeliveriesInv, [DeliveriesNext]_allVars
  PROVE  TargetsTyped' /\ TargetsBound'
<1>1. TargetsTyped /\ TargetsBound /\ releases \subseteq releases'
  BY BundlesStep DEF DeliveriesInv
<1>2. CASE UNCHANGED targets
  BY <1>1, <1>2 DEF TargetsTyped, TargetsBound, TargetExists
<1>3. ASSUME NEW k \in Keys, DeliveryEffect(k)
      PROVE  TargetsTyped' /\ TargetsBound'
  <2>1. ASSUME NEW j \in Keys, TargetExists(j)'
        PROVE  /\ targets'[j].release \in releases'
               /\ targets'[j].status \in ReleasedStatuses \cup {"verified_posted"}
                    => targets'[j].order \in Orders
    <3>1. CASE targets'[j] = targets[j]
      BY <1>1, <2>1, <3>1 DEF TargetsBound, TargetExists
    <3>2. CASE j = k /\ Opens(k)
      BY <1>1, <3>2 DEF Opens, ReleasedStatuses
    <3>3. CASE j = k /\ HandsOut(k)
      BY <1>1, <3>3 DEF HandsOut, Paired, TargetsBound
    <3>4. CASE j = k /\ Moves(k)
      BY <1>1, <3>4 DEF Moves, Paired, TargetsBound, ReleasedStatuses, Over
    <3>5. QED
      BY <1>3, <3>1, <3>2, <3>3, <3>4 DEF DeliveryEffect
  <2>2. QED
    BY <1>3, <2>1 DEF TargetsBound, DeliveryEffect
<1>4. QED
  BY <1>2, <1>3, SeenByDeliveries

LEMMA DeliveriesStart == DeliveriesInit => DeliveriesInv
<1> SUFFICES ASSUME DeliveriesInit PROVE DeliveriesInv
  OBVIOUS
<1>1. WorkInv
  BY WorkStart DEF DeliveriesInit
<1>2. TargetsTyped
  BY DEF DeliveriesInit, TargetsTyped
<1>3. BundlesTyped
  BY DeliveriesAssumption, EmptySeq DEF DeliveriesInit, BundlesTyped
<1>4. TargetsBound
  BY DEF DeliveriesInit, TargetsBound, TargetExists, AbsentTarget
<1>5. QED
  BY <1>1, <1>2, <1>3, <1>4 DEF DeliveriesInv

LEMMA DeliveriesStep ==
  ASSUME DeliveriesInv, [DeliveriesNext]_allVars
  PROVE  DeliveriesInv'
<1>1. WorkInv'
  <2>1. AccountsInv'
    BY SeenByWork, AccountsStep DEF DeliveriesInv, WorkInv
  <2>2. OrdersTyped' /\ AttemptsTyped' /\ WorldTyped'
    BY SeenByWork DEF CalmEffect, OrderEffect
  <2>3. WorkOrdersTypeOK'
    BY <2>1, <2>2 DEF AccountsInv, WorkOrdersTypeOK, OrdersTyped, AttemptsTyped, WorldTyped
  <2>4. QED
    BY <2>1, <2>3 DEF WorkInv
<1>2. QED
  BY <1>1, BoundStep, BundlesStep DEF DeliveriesInv

LEMMA DeliveriesInvariant == DeliveriesSpec => []DeliveriesInv
BY DeliveriesStart, DeliveriesStep, PTL DEF DeliveriesSpec

\* The tables of releases and deliveries keep the shape the schema gives them
\* (db.ts:366-415), and those of orders and accounts theirs.
THEOREM DeliveriesTypeCorrect == DeliveriesSpec => []DeliveriesTypeOK
<1>1. DeliveriesInv => DeliveriesTypeOK
  BY DeliveryParts DEF DeliveriesInv, WorkInv
<1>2. QED
  BY <1>1, DeliveriesInvariant, PTL

-----------------------------------------------------------------------------
(* What Work Orders and Accounts promise, with deliveries around them       *)

\* The accounts still only ever do what Accounts says: a delivery reads the
\* account in place and changes none (deliveries.ts:360-372).
THEOREM DeliveriesDriveAccounts == DeliveriesSpec => ImplementsAccounts
<1>1. DeliveriesInit => AccountsInit
  BY DEF DeliveriesInit, WorkOrdersInit
<1>2. DeliveriesInv /\ [DeliveriesNext]_allVars => [AccountsNext]_accountVars
  BY SeenByWork
<1>3. QED
  BY <1>1, <1>2, DeliveriesInvariant, PTL DEF DeliveriesSpec, ImplementsAccounts, AccountsSpec

\* An order a delivery goes out as has one fate like any other: it is approved
\* before it is worked on and ends once.
THEOREM DeliveriesKeepFates == DeliveriesSpec => ImplementsFate
<1> DEFINE fates == [o \in Orders |-> fateOf(orders[o].status)]
<1>1. DeliveriesInit => Fate!FateInit
  BY FatesStart DEF DeliveriesInit
<1>2. DeliveriesInv /\ DeliveriesInv' /\ [DeliveriesNext]_allVars => [Fate!FateNext]_fates
  <2> SUFFICES ASSUME DeliveriesInv, DeliveriesInv', [DeliveriesNext]_allVars
               PROVE  Fate!FateNext
    OBVIOUS
  <2>1. OrdersTyped /\ OrdersTyped'
    BY TypedParts DEF DeliveriesInv, WorkInv, OrdersTyped, WorkOrdersTypeOK
  <2>2. QED
    BY <2>1, SeenByWork, FatesStep
<1>3. QED
  BY <1>1, <1>2, DeliveriesInvariant, PTL DEF DeliveriesSpec, ImplementsFate, Fate!FateSpec

\* The posts deliveries hand out count against the daily cap of their slot, and
\* each is completed only on an accepted proof: a delivery is no way around the
\* release gate (deliveries.ts:579-600).
THEOREM DeliveriesRespectTheGate ==
  DeliveriesSpec => [](CompletedOnProof /\ DailyCapHolds)
<1>1. DeliveriesInit => CompletedOnProof /\ CapInv
  <2>1. DeliveriesInit => WorkOrdersInit
    BY DEF DeliveriesInit
  <2>2. WorkOrdersInit => CompletedOnProof
    BY DEF WorkOrdersInit, CompletedOnProof, AbsentOrder
  <2>3. QED
    BY <2>1, <2>2, CapStart
<1>2. DeliveriesInv /\ CompletedOnProof /\ CapInv /\ [DeliveriesNext]_allVars
        => CompletedOnProof' /\ CapInv'
  BY SeenByWork, CompletionStep, CapStep DEF DeliveriesInv
<1>3. CapInv => DailyCapHolds
  BY WorkOrdersAssumption DEF CapInv, DailyCapHolds
<1>4. QED
  BY <1>1, <1>2, <1>3, DeliveriesInvariant, PTL DEF DeliveriesSpec

\* And its attempts stay in order: one proof and one review each, none left
\* behind with a proof that nobody judged, none rewritten (work-orders.ts:556,
\* 570, 597, 704).
THEOREM DeliveriesKeepAttempts ==
  DeliveriesSpec => [](OneProofPerAttempt /\ AttemptsAreSettled) /\ AttemptHistoryIsKept
<1>1. DeliveriesInit => AttemptsInv
  BY AttemptsStart DEF DeliveriesInit
<1>2. DeliveriesInv /\ AttemptsInv /\ [DeliveriesNext]_allVars => AttemptsInv'
  BY SeenByWork, AttemptsStep DEF DeliveriesInv
<1>3. DeliveriesInv /\ AttemptsInv => OneProofPerAttempt /\ AttemptsAreSettled
  BY OneProofFollows, SettledFollows DEF DeliveriesInv
<1>4. DeliveriesInv /\ [DeliveriesNext]_allVars =>
        \A o \in Orders :
          /\ Len(attempts[o]) <= Len(attempts'[o])
          /\ \A n \in DOMAIN attempts[o] :
               /\ attempts[o][n].day = attempts'[o][n].day
               /\ IsPrefix(attempts[o][n].proofs, attempts'[o][n].proofs)
               /\ IsPrefix(attempts[o][n].reviews, attempts'[o][n].reviews)
  BY SeenByWork, HistoryStep DEF DeliveriesInv, HistoryKept
<1>5. QED
  BY <1>1, <1>2, <1>3, <1>4, DeliveriesInvariant, PTL DEF DeliveriesSpec, AttemptHistoryIsKept

\* An account lost under a delivery queues its replacement like any other
\* (work-orders.ts:787-791).
THEOREM DeliveriesQueueReplacements == DeliveriesSpec => LossQueuesReplacement
<1>1. ASSUME DeliveriesInv, [DeliveriesNext]_allVars, UNCHANGED accountVars \/ [WorkNext]_workVars,
             NEW i \in DOMAIN instances,
             ~ instances[i].archived, instances'[i].archived,
             slotStatus[instances[i].slot] # "paused", instances[i].slot \notin Fragile
      PROVE  \E o \in Unused : orders'[o] = OrderRow(replaceSpec(instances[i].slot), "queued")
  BY <1>1, LossStep DEF DeliveriesInv, accountVars
<1>2. DeliveriesInv /\ [DeliveriesNext]_allVars => UNCHANGED accountVars \/ [WorkNext]_workVars
  BY ReleaseInserts, OthersKeepWork
     DEF DeliveriesNext, WorkStep, exportPiece, releasePiece, allVars
<1>3. DeliveriesInv /\ [DeliveriesNext]_allVars =>
        \A i \in DOMAIN instances :
          ~ instances[i].archived /\ instances'[i].archived
              /\ slotStatus[instances[i].slot] # "paused" /\ instances[i].slot \notin Fragile
            => \E o \in Unused : orders'[o] = OrderRow(replaceSpec(instances[i].slot), "queued")
  BY <1>1, <1>2
<1>4. QED
  BY <1>3, DeliveriesInvariant, PTL DEF DeliveriesSpec, LossQueuesReplacement

-----------------------------------------------------------------------------
(* The pairing of a delivery                                                *)

LEMMA PairingStep ==
  ASSUME DeliveriesInv, [DeliveriesNext]_allVars, NEW k \in Keys, TargetExists(k)
  PROVE  /\ Paired(k)
         /\ targets[k].status \in ReleasedStatuses \cup Over
              => targets'[k].order = targets[k].order
<1>1. CASE targets'[k] = targets[k]
  BY <1>1 DEF Paired, TargetExists
<1>2. ASSUME NEW j \in Keys, DeliveryEffect(j), targets'[k] # targets[k]
      PROVE  HandsOut(k) \/ Moves(k)
  BY <1>2 DEF DeliveryEffect, Opens
<1>3. CASE HandsOut(k) \/ Moves(k)
  BY <1>3 DEF HandsOut, Moves, ReleasedStatuses, Over
<1>4. QED
  BY <1>1, <1>2, <1>3, SeenByDeliveries

-----------------------------------------------------------------------------
(* Two records that agree.  A verification reads the order as it is then;   *)
(* it stays true because what is recorded of an order is only added to.     *)

OnTwoRecords(k) ==
  targets[k].status = "verified_posted" =>
    /\ targets[k].link \in Links
    /\ targets[k].order \in Orders
    /\ \E n \in DOMAIN attempts[targets[k].order] :
         \E body \in ToSet(attempts[targets[k].order][n].proofs) :
           targets[k].link \in Mentions[body]

LEMMA PrefixMembers ==
  ASSUME NEW S, NEW s \in Seq(S), NEW t \in Seq(S), IsPrefix(s, t)
  PROVE  ToSet(s) \subseteq ToSet(t)
<1>1. /\ Len(s) \in Nat /\ Len(t) \in Nat /\ Len(s) <= Len(t)
      /\ DOMAIN s = 1 .. Len(s) /\ DOMAIN t = 1 .. Len(t)
  BY LenProperties DEF IsPrefix
<1>2. ASSUME NEW i \in 1 .. Len(s) PROVE s[i] = t[i]
  <2>1. SubSeq(s, 1, Len(s))[i] = s[i] /\ SubSeq(t, 1, Len(s))[i] = t[i]
    BY <1>1
  <2>2. QED
    BY <2>1 DEF IsPrefix
<1>3. QED
  BY <1>1, <1>2 DEF ToSet

\* A proof with the permalink, once recorded of an order, is there for good.
LEMMA ProofsStay ==
  ASSUME AttemptsTyped, AttemptsTyped', NEW o \in Orders, HistoryKept(o),
         NEW n \in DOMAIN attempts[o], NEW body \in ToSet(attempts[o][n].proofs)
  PROVE  n \in DOMAIN attempts'[o] /\ body \in ToSet(attempts'[o][n].proofs)
<1>1. attempts[o] \in Seq(AttemptRow) /\ attempts'[o] \in Seq(AttemptRow)
  BY DEF AttemptsTyped
<1>2. n \in DOMAIN attempts'[o]
  BY <1>1, LenProperties DEF HistoryKept
<1>3. attempts[o][n] \in AttemptRow /\ attempts'[o][n] \in AttemptRow
  BY <1>1, <1>2, ElementOfSeq, LenProperties
<1>4. attempts[o][n].proofs \in Seq(Bodies) /\ attempts'[o][n].proofs \in Seq(Bodies)
  BY <1>3 DEF AttemptRow
<1>5. QED
  BY <1>2, <1>4, PrefixMembers DEF HistoryKept

\* What verifyPosted reads is the last proof of the attempt in play.
LEMMA VerificationReads ==
  ASSUME AttemptsTyped, NEW o \in Orders, HasProof(o)
  PROVE  /\ currentAttempt(o) \in DOMAIN attempts[o]
         /\ Last(proofOf(o)) \in ToSet(attempts[o][currentAttempt(o)].proofs)
<1>1. currentAttempt(o) \in DOMAIN attempts[o] /\ proofOf(o) \in Seq(Bodies)
  BY CurrentRow DEF HasProof, proofOf, AttemptRow
<1>2. Len(proofOf(o)) \in Nat /\ Len(proofOf(o)) # 0 /\ DOMAIN proofOf(o) = 1 .. Len(proofOf(o))
  BY <1>1, LenProperties, EmptySeq DEF HasProof
<1>3. QED
  BY <1>1, <1>2 DEF Last, ToSet, proofOf

LEMMA RecordsStep ==
  ASSUME DeliveriesInv, DeliveriesInv', [DeliveriesNext]_allVars,
         NEW k \in Keys, OnTwoRecords(k)
  PROVE  OnTwoRecords(k)'
<1>1. AttemptsTyped /\ AttemptsTyped' /\ TargetsTyped /\ TargetsTyped'
  BY TypedParts DEF DeliveriesInv, WorkInv, AttemptsTyped, WorkOrdersTypeOK, TargetsTyped
<1>2. \A o \in Orders : HistoryKept(o)
  BY SeenByWork, HistoryStep DEF DeliveriesInv
<1>3. CASE targets'[k] = targets[k]
  BY <1>1, <1>2, <1>3, ProofsStay DEF OnTwoRecords
<1>4. CASE targets'[k] # targets[k] /\ targets'[k].status = "verified_posted"
  <2>1. PICK j \in Keys : DeliveryEffect(j)
    BY <1>4, SeenByDeliveries
  <2>2. Moves(k)
    BY <1>4, <2>1 DEF DeliveryEffect, Opens, HandsOut
  <2>3. /\ targets[k].status = "proof_submitted"
        /\ targets[k].link # Null /\ RecordsAgree(k)
        /\ targets'[k].link = targets[k].link /\ targets'[k].order = targets[k].order
    BY <1>4, <2>2 DEF Moves, Over
  <2>4. targets[k].order \in Orders /\ targets[k].order # Null /\ targets[k].link \in Links
    BY <1>1, <2>3, RowOfTarget, DeliveriesAssumption
       DEF DeliveriesInv, TargetsBound, TargetExists, ReleasedStatuses, TargetRow
  <2> DEFINE o == targets[k].order
             n == currentAttempt(o)
             body == Last(proofOf(o))
  <2>5. /\ n \in DOMAIN attempts[o] /\ body \in ToSet(attempts[o][n].proofs)
        /\ targets[k].link \in Mentions[body]
    BY <1>1, <2>3, <2>4, VerificationReads DEF RecordsAgree
  <2> HIDE DEF n, body
  <2>6. n \in DOMAIN attempts'[o] /\ body \in ToSet(attempts'[o][n].proofs)
    BY <1>1, <1>2, <2>4, <2>5, ProofsStay
  <2>7. QED
    BY <2>3, <2>4, <2>5, <2>6 DEF OnTwoRecords
<1>5. QED
  BY <1>3, <1>4 DEF OnTwoRecords

\* Two records that agree, or nothing (deliveries.ts:653-656): whatever happens
\* to the order of a verified delivery afterwards, a retry included, the proof
\* with its permalink is on record.
THEOREM VerifiedRestsOnTwoRecords == DeliveriesSpec => []VerifiedOnTwoRecords
<1> DEFINE Agree == \A k \in Keys : OnTwoRecords(k)
<1>1. DeliveriesInit => Agree
  BY DEF DeliveriesInit, OnTwoRecords, AbsentTarget
<1>2. DeliveriesInv /\ DeliveriesInv' /\ Agree /\ [DeliveriesNext]_allVars => Agree'
  BY RecordsStep
<1>3. Agree => VerifiedOnTwoRecords
  BY DEF OnTwoRecords, VerifiedOnTwoRecords
<1> HIDE DEF Agree
<1>4. QED
  BY <1>1, <1>2, <1>3, DeliveriesInvariant, PTL DEF DeliveriesSpec

-----------------------------------------------------------------------------
(* The refinement of DeliveryOutcome                                        *)

LEMMA OutcomeOfStatus ==
  ASSUME TargetsTyped, NEW k \in Keys
  PROVE  /\ targets[k].status = "absent" => outcomeOf(k) = "absent"
         /\ targets[k].status = "verified_posted" => outcomeOf(k) = "verified_posted"
         /\ targets[k].status = "cancelled" => outcomeOf(k) = "cancelled"
         /\ targets[k].status \notin Over \cup {"absent"} => outcomeOf(k) = "open"
BY Zenon DEF outcomeOf, Over

\* What a step does to the outcome of the one delivery it is about.
LEMMA OutcomeStep ==
  ASSUME TargetsTyped, NEW k \in Keys, DeliveryEffect(k), outcomeOf(k)' # outcomeOf(k)
  PROVE  \/ outcomeOf(k) = "absent" /\ outcomeOf(k)' = "open"
         \/ outcomeOf(k) = "open" /\ outcomeOf(k)' = "verified_posted"
         \/ outcomeOf(k) \in {"open", "verified_posted"} /\ outcomeOf(k)' = "cancelled"
<1>1. /\ targets'[k].status = "absent" => outcomeOf(k)' = "absent"
      /\ targets'[k].status = "verified_posted" => outcomeOf(k)' = "verified_posted"
      /\ targets'[k].status = "cancelled" => outcomeOf(k)' = "cancelled"
      /\ targets'[k].status \notin Over \cup {"absent"} => outcomeOf(k)' = "open"
  BY Zenon DEF outcomeOf, Over
<1>2. CASE targets'[k] = targets[k]
  <2>1. outcomeOf(k)' = outcomeOf(k)
    BY <1>2, Zenon DEF outcomeOf
  <2>2. QED
    BY <2>1
<1>3. CASE Opens(k)
  BY <1>1, <1>3, OutcomeOfStatus DEF Opens, TargetExists, Over
<1>4. CASE HandsOut(k)
  BY <1>1, <1>4, OutcomeOfStatus DEF HandsOut, Over
<1>5. CASE Moves(k)
  BY <1>1, <1>5, OutcomeOfStatus DEF Moves, Paired, TargetExists, Over
<1>6. QED
  BY <1>2, <1>3, <1>4, <1>5 DEF DeliveryEffect

\* A delivery that is over is over (deliveries.ts:692-697, 736): whatever is
\* released again, failed or requested, it is verified once, and afterwards it
\* is only ever cancelled.
THEOREM DeliveriesHaveOneOutcome == DeliveriesSpec => ImplementsOutcome
<1> DEFINE outcomes == [k \in Keys |-> outcomeOf(k)]
<1>1. DeliveriesInit => Outcome!OutcomeInit
  <2> SUFFICES ASSUME DeliveriesInit PROVE outcomes = [k \in Keys |-> "absent"]
    BY DEF Outcome!OutcomeInit
  <2>1. TargetsTyped /\ \A k \in Keys : targets[k].status = "absent"
    BY DeliveriesStart DEF DeliveriesInv, DeliveriesInit, AbsentTarget
  <2>2. QED
    BY <2>1, OutcomeOfStatus
<1>2. DeliveriesInv /\ [DeliveriesNext]_allVars => [Outcome!OutcomeNext]_outcomes
  <2> SUFFICES ASSUME DeliveriesInv, [DeliveriesNext]_allVars, outcomes' # outcomes
               PROVE  Outcome!OutcomeNext
    OBVIOUS
  <2>1. ASSUME NEW k \in Keys, targets'[k] = targets[k]
        PROVE  outcomeOf(k)' = outcomeOf(k)
    BY <2>1, Zenon DEF outcomeOf
  <2>2. PICK k \in Keys : DeliveryEffect(k)
    BY <2>1, SeenByDeliveries
  <2>3. \A j \in Keys \ {k} : outcomeOf(j)' = outcomeOf(j)
    BY <2>1, <2>2 DEF DeliveryEffect
  <2>4. outcomeOf(k)' # outcomeOf(k)
    BY <2>3
  <2>5. outcomes' = [outcomes EXCEPT ![k] = outcomeOf(k)']
    BY <2>3
  <2>6. /\ outcomes[k] = outcomeOf(k)
        /\ \/ outcomeOf(k) = "absent" /\ outcomeOf(k)' = "open"
           \/ outcomeOf(k) = "open" /\ outcomeOf(k)' = "verified_posted"
           \/ outcomeOf(k) \in {"open", "verified_posted"} /\ outcomeOf(k)' = "cancelled"
    BY <2>2, <2>4, OutcomeStep DEF DeliveriesInv
  <2>7. QED
    BY <2>5, <2>6
       DEF Outcome!OutcomeNext, Outcome!Open, Outcome!Verify, Outcome!Cancel, Outcome!BecomeFrom
<1>3. QED
  BY <1>1, <1>2, DeliveriesInvariant, PTL DEF DeliveriesSpec, ImplementsOutcome, Outcome!OutcomeSpec

-----------------------------------------------------------------------------
(* The attempt count.  A request that is not one of those made by hand is   *)
(* made by the deliveries that share it, each release inserting one order   *)
(* and counting one attempt, or, cut short, only the order.                 *)

PostSpecs == {spec \in OrderSpec \ OrderSpecs : spec.kind = "post"}

\* The deliveries that make a request, the orders it was made as, and the
\* releases the deliveries count.
Sharing(spec) == {j \in Keys : TargetExists(j) /\ postSpec(j) = spec}

Made(spec) == {o \in Orders : Exists(o) /\ orders[o].spec = spec}

Releases(spec) == UNION {{j} \X (1 .. targets[j].attemptCount) : j \in Sharing(spec)}

Counted(spec) ==
  /\ IsFiniteSet(Releases(spec))
  /\ Cardinality(Made(spec)) >= Cardinality(Releases(spec))
  /\ Sharing(spec) \cap Fragile = {} => Cardinality(Made(spec)) = Cardinality(Releases(spec))

CountInv == \A spec \in PostSpecs : Counted(spec)

LEMMA ReleasesMembers ==
  ASSUME NEW spec, NEW x
  PROVE  x \in Releases(spec) <=>
           \E j \in Sharing(spec) : \E n \in 1 .. targets[j].attemptCount : x = <<j, n>>
BY DEF Releases

\* The orders Work Orders make of themselves are made by hand or replace a loss.
LEMMA NewOrders ==
  ASSUME WorkInv, [WorkNext]_workVars, NEW q \in Orders
  PROVE  /\ Exists(q) => Exists(q)' /\ orders'[q].spec = orders[q].spec
         /\ ~ Exists(q) => \/ ~ Exists(q)'
                           \/ orders'[q].spec \in OrderSpecs
                           \/ orders'[q].spec.kind = "replace"
<1>1. WorkOrdersTypeOK /\ OrdersTyped
  BY TypedParts DEF WorkInv
<1>2. CASE orders'[q] = orders[q]
  BY <1>2 DEF Exists
<1>3. ASSUME NEW o \in Orders, OrderStep(o), OrderEffect(o), ~ Exists(o)
      PROVE  orders'[o].spec \in OrderSpecs
  <2>1. PICK spec \in OrderSpecs : createOrder(o, spec)
    BY <1>3 DEF OrderStep, submitOrder, approveOrder, claimOrder, startOrder, releaseOrder,
                beginReview, requestChanges, retryOrder, completeOrder, failOrder, cancelOrder,
                submitProof, PlainMove, CanMove, MOVES, releaseFrom, cancelFrom, OrderStatuses,
                TerminalStatuses, Exists
  <2>2. orders'[o] = OrderRow(spec, "draft")
    BY <1>1, <2>1 DEF createOrder, InsertOrder, OrdersTyped
  <2>3. QED
    BY <2>2 DEF OrderRow
<1>4. ASSUME NEW o \in Orders, OrderStep(o), OrderEffect(o)
      PROVE  /\ Exists(q) => Exists(q)' /\ orders'[q].spec = orders[q].spec
             /\ ~ Exists(q) => \/ ~ Exists(q)'
                               \/ orders'[q].spec \in OrderSpecs
  <2>1. CASE q = o
    <3>1. /\ Exists(o) => Exists(o)' /\ orders'[o].spec = orders[o].spec
          /\ ~ Exists(o) => orders'[o].spec \in OrderSpecs
      BY <1>3, <1>4 DEF OrderEffect, Exists
    <3>2. QED
      BY <2>1, <3>1
  <2>2. CASE q # o
    BY <1>4, <2>2 DEF OrderEffect, Exists
  <2>3. QED
    BY <2>1, <2>2
<1>5. ASSUME NEW i \in InstanceIds, loseInstanceAndReplace(i)
      PROVE  \/ orders'[q] = orders[q]
             \/ ~ Exists(q) /\ orders'[q].spec.kind = "replace"
  <2>1. CASE UNCHANGED orders
    BY <2>1
  <2>2. CASE \E o \in Unused, s \in {instances[i].slot},
                status \in {"draft", "awaiting_brand_approval", "queued"} :
                  InsertOrder(o, replaceSpec(s), status)
    <3>1. PICK o \in Unused, s \in {instances[i].slot},
               status \in {"draft", "awaiting_brand_approval", "queued"} :
                 InsertOrder(o, replaceSpec(s), status)
      BY <2>2
    <3>2. q # o => orders'[q] = orders[q]
      BY <1>1, <3>1 DEF InsertOrder, OrdersTyped
    <3>3. orders'[o] = OrderRow(replaceSpec(s), status) /\ ~ Exists(o)
      BY <1>1, <3>1 DEF InsertOrder, OrdersTyped, Unused
    <3>4. OrderRow(replaceSpec(s), status).spec.kind = "replace"
      BY DEF OrderRow, replaceSpec
    <3>5. QED
      BY <3>2, <3>3, <3>4
  <2>3. QED
    BY <1>5, <2>1, <2>2 DEF loseInstanceAndReplace, spawnReplacementOrder, LossCutShort
<1>6. ASSUME ~ \E o \in Orders : OrderStep(o), ~ \E i \in InstanceIds : loseInstanceAndReplace(i)
      PROVE  orders' = orders
  BY <1>6 DEF WorkNext, workVars, orderVars, approvePiece, reopenPiece, Tick
<1>7. CASE \E o \in Orders : OrderStep(o)
  BY <1>1, <1>4, <1>7, OrderStepEffect
<1>8. CASE \E i \in InstanceIds : loseInstanceAndReplace(i)
  BY <1>2, <1>5, <1>8 DEF Exists
<1>9. QED
  BY <1>2, <1>6, <1>7, <1>8

LEMMA MadeStays ==
  ASSUME WorkInv, [WorkNext]_workVars, NEW spec \in PostSpecs
  PROVE  Made(spec)' = Made(spec)
<1>1. spec \notin OrderSpecs /\ spec.kind = "post"
  BY DEF PostSpecs
<1>2. ASSUME NEW q \in Orders
      PROVE  (Exists(q) /\ orders[q].spec = spec)' <=> Exists(q) /\ orders[q].spec = spec
  BY <1>1, NewOrders
<1>3. QED
  BY <1>2 DEF Made

LEMMA MadeIsFinite ==
  ASSUME NEW spec
  PROVE  IsFiniteSet(Made(spec)) /\ Cardinality(Made(spec)) \in Nat
<1>1. Made(spec) \subseteq Orders
  BY DEF Made
<1>2. QED
  BY <1>1, WorkOrdersAssumption, FS_Subset, FS_CardinalityType

\* A delivery keeps making the request it makes.
LEMMA SpecStays ==
  ASSUME DeliveriesInv, [DeliveriesNext]_allVars, NEW k \in Keys, TargetExists(k)
  PROVE  TargetExists(k)' /\ postSpec(k)' = postSpec(k)
<1>1. Paired(k) /\ targets[k].release \in DOMAIN exports
  BY PairingStep DEF DeliveriesInv, TargetsBound, BundlesTyped
<1>2. exports'[targets[k].release] = exports[targets[k].release]
  BY <1>1, BundlesStep
<1>3. QED
  BY <1>1, <1>2 DEF Paired, postSpec

\* A step other than a release counts nothing: a delivery that is created
\* has no attempts yet.
LEMMA ReleasesStay ==
  ASSUME DeliveriesInv, [DeliveriesNext]_allVars, NEW spec,
         \A k \in Keys : TargetExists(k) /\ postSpec(k) = spec
           => targets'[k].attemptCount = targets[k].attemptCount
  PROVE  Sharing(spec) \subseteq Sharing(spec)' /\ Releases(spec)' = Releases(spec)
<1>1. Sharing(spec) \subseteq Sharing(spec)'
  BY SpecStays DEF Sharing
<1>2. ASSUME NEW k \in Sharing(spec)', k \notin Sharing(spec)
      PROVE  1 .. targets'[k].attemptCount = {}
  <2>1. k \in Keys /\ ~ TargetExists(k) /\ TargetExists(k)'
    BY <1>2, SpecStays DEF Sharing
  <2>2. PICK j \in Keys : DeliveryEffect(j)
    BY <2>1, SeenByDeliveries DEF TargetExists
  <2>3. Opens(k)
    BY <2>1, <2>2 DEF DeliveryEffect, HandsOut, Moves, Paired, TargetExists
  <2>4. targets'[k].attemptCount = 0
    BY <2>3 DEF Opens
  <2>5. QED
    BY <2>4
<1>3. \A k \in Sharing(spec) : targets'[k].attemptCount = targets[k].attemptCount
  BY DEF Sharing
<1>4. ASSUME NEW x
      PROVE  x \in Releases(spec)' <=> x \in Releases(spec)
  <2>1. x \in Releases(spec)' <=>
          \E j \in Sharing(spec)' : \E n \in 1 .. targets'[j].attemptCount : x = <<j, n>>
    BY DEF Releases
  <2>2. QED
    BY <1>1, <1>2, <1>3, <2>1, ReleasesMembers
<1>5. QED
  BY <1>1, <1>4

\* A release inserts one order with the request of the delivery.
LEMMA ReleaseMakes ==
  ASSUME DeliveriesInv, NEW k \in Keys, releaseToOperator(k), NEW spec
  PROVE  /\ spec # postSpec(k) => Made(spec)' = Made(spec)
         /\ spec = postSpec(k) => Cardinality(Made(spec)') = Cardinality(Made(spec)) + 1
<1>1. OrdersTyped
  BY TypedParts DEF DeliveriesInv, WorkInv
<1>2. PICK o \in Unused, status \in {"draft", "awaiting_brand_approval", "queued"} :
        InsertOrder(o, postSpec(k), status)
  BY ReleaseInserts
<1> DEFINE post == postSpec(k)
<1>3. /\ o \in Orders /\ ~ Exists(o) /\ Exists(o)' /\ orders'[o].spec = post
      /\ \A q \in Orders \ {o} : orders'[q] = orders[q]
  <2>1. InsertOrder(o, post, status)
    BY <1>2
  <2> HIDE DEF post
  <2>2. QED
    BY <1>1, <1>2, <2>1 DEF InsertOrder, OrderRow, OrdersTyped, Unused, Exists
<1> HIDE DEF post
<1>4. ASSUME spec # post PROVE Made(spec)' = Made(spec)
  BY <1>3, <1>4 DEF Made, Exists
<1>5. ASSUME spec = post PROVE Cardinality(Made(spec)') = Cardinality(Made(spec)) + 1
  <2>1. Made(spec)' = Made(spec) \cup {o} /\ o \notin Made(spec)
    BY <1>3, <1>5 DEF Made, Exists
  <2>2. QED
    BY <2>1, MadeIsFinite, FS_AddElement
<1>6. /\ spec # post => Made(spec)' = Made(spec)
      /\ spec = post => Cardinality(Made(spec)') = Cardinality(Made(spec)) + 1
  BY <1>4, <1>5
<1>7. QED
  BY <1>6 DEF post

LEMMA CountStep ==
  ASSUME DeliveriesInv, [DeliveriesNext]_allVars, NEW spec \in PostSpecs, Counted(spec)
  PROVE  Counted(spec)'
<1>1. /\ Cardinality(Made(spec)) \in Nat
      /\ IsFiniteSet(Releases(spec)) /\ Cardinality(Releases(spec)) \in Nat
  BY MadeIsFinite, FS_CardinalityType DEF Counted
<1>2. CASE /\ Made(spec)' = Made(spec)
           /\ \A k \in Keys : TargetExists(k) /\ postSpec(k) = spec
                => targets'[k].attemptCount = targets[k].attemptCount
  <2>1. Sharing(spec) \subseteq Sharing(spec)' /\ Releases(spec)' = Releases(spec)
    BY <1>2, ReleasesStay
  <2>2. QED
    BY <1>2, <2>1 DEF Counted
<1>3. CASE UNCHANGED targets /\ [WorkNext]_workVars
  BY <1>2, <1>3, MadeStays DEF DeliveriesInv
<1>4. ASSUME NEW k \in Keys, DeliveryStep(k), ~ releaseToOperator(k) PROVE Counted(spec)'
  <2>1. DeliveryEffect(k) /\ Made(spec)' = Made(spec)
    <3>1. UNCHANGED workVars
      BY <1>4, OthersKeepWork
    <3>2. QED
      BY <1>4, <3>1, MadeStays, DeliveryStepEffect DEF DeliveriesInv, WorkInv, AccountsInv
  <2>2. \A j \in Keys : TargetExists(j) => targets'[j].attemptCount = targets[j].attemptCount
    BY <1>4, <2>1 DEF DeliveryEffect, Opens, HandsOut, Moves
  <2>3. QED
    BY <1>2, <2>1, <2>2
<1>5. ASSUME NEW k \in Keys, releaseToOperator(k) PROVE Counted(spec)'
  <2>1. TargetExists(k) /\ targets[k] \in TargetRow /\ DeliveryEffect(k)
    BY <1>5, RowOfTarget, ReleaseHandsOut DEF DeliveriesInv, releaseToOperator, TargetExists
  <2>2. CASE postSpec(k) # spec
    <3>1. Made(spec)' = Made(spec)
      BY <1>5, <2>2, ReleaseMakes
    <3>2. \A j \in Keys : j # k => targets'[j] = targets[j]
      BY <2>1 DEF DeliveryEffect
    <3>3. QED
      BY <1>2, <2>2, <3>1, <3>2
  <2>3. CASE postSpec(k) = spec
    <3>1. Cardinality(Made(spec)') = Cardinality(Made(spec)) + 1
      BY <1>5, <2>3, ReleaseMakes
    <3>2. k \in Sharing(spec)
      BY <2>1, <2>3 DEF Sharing
    <3>3. CASE k \in Fragile /\ UNCHANGED targets
      <4>1. Sharing(spec) \subseteq Sharing(spec)' /\ Releases(spec)' = Releases(spec)
        BY <3>3, ReleasesStay
      <4>2. QED
        BY <1>1, <3>1, <3>2, <3>3, <4>1 DEF Counted
    <3>4. CASE \E o \in Orders : setTarget(k, Released(k, o))
      <4> DEFINE count == targets[k].attemptCount
      <4>1. count \in Nat /\ targets'[k].attemptCount = count + 1
        <5>1. count \in Nat
          BY <2>1, DeliveriesAssumption DEF TargetRow
        <5>2. \A o : Released(k, o).attemptCount = count + 1
          BY <2>1 DEF Released, TargetRow
        <5>3. \A o : setTarget(k, Released(k, o)) => targets'[k] = Released(k, o)
          BY DEF DeliveriesInv, TargetsTyped, setTarget
        <5>4. QED
          BY <3>4, <5>1, <5>2, <5>3
      <4>2. Sharing(spec)' = Sharing(spec)
        <5>1. \A j \in Keys : TargetExists(j)' => TargetExists(j)
          BY <2>1 DEF DeliveryEffect, Opens, HandsOut, Moves, Paired, TargetExists
        <5>2. QED
          BY <5>1, SpecStays DEF Sharing
      <4>3. \A j \in Sharing(spec) : j # k => targets'[j] = targets[j]
        BY <2>1 DEF DeliveryEffect, Sharing
      <4>4. /\ Releases(spec)' = Releases(spec) \cup {<<k, count + 1>>}
            /\ <<k, count + 1>> \notin Releases(spec)
        <5>1. \A x : x \in Releases(spec)' <=>
                \E j \in Sharing(spec)' : \E n \in 1 .. targets'[j].attemptCount : x = <<j, n>>
          BY DEF Releases
        <5>2. 1 .. count + 1 = (1 .. count) \cup {count + 1} /\ count + 1 \notin 1 .. count
          BY <4>1
        <5>3. \A x : x \in Releases(spec)' <=> x \in Releases(spec) \/ x = <<k, count + 1>>
          <6>1. ASSUME NEW x, x \in Releases(spec)'
                PROVE  x \in Releases(spec) \/ x = <<k, count + 1>>
            BY <3>2, <4>1, <4>2, <4>3, <5>1, <5>2, <6>1, ReleasesMembers
          <6>2. ASSUME NEW x, x \in Releases(spec) \/ x = <<k, count + 1>>
                PROVE  x \in Releases(spec)'
            BY <3>2, <4>1, <4>2, <4>3, <5>1, <5>2, <6>2, ReleasesMembers
          <6>3. QED
            BY <6>1, <6>2
        <5>4. QED
          BY <3>2, <5>2, <5>3, ReleasesMembers
      <4>5. /\ IsFiniteSet(Releases(spec)')
            /\ Cardinality(Releases(spec)') = Cardinality(Releases(spec)) + 1
        <5> DEFINE x == <<k, count + 1>>
        <5>1. Releases(spec)' = Releases(spec) \cup {x} /\ x \notin Releases(spec)
          BY <4>4
        <5> HIDE DEF x
        <5>2. QED
          BY <1>1, <5>1, FS_AddElement
      <4>6. QED
        BY <1>1, <3>1, <4>2, <4>5 DEF Counted
    <3>5. QED
      BY <1>5, <3>3, <3>4 DEF releaseToOperator, Unused
  <2>4. QED
    BY <2>2, <2>3
<1>6. ASSUME NEW p \in Pieces, exportPiece(p) \/ releasePiece(p)
      PROVE  UNCHANGED targets /\ [WorkNext]_workVars
  BY <1>6 DEF exportPiece, releasePiece
<1>7. QED
  BY <1>3, <1>4, <1>5, <1>6 DEF DeliveriesNext, WorkStep, allVars, deliveryVars

\* attempt_count counts the orders a delivery was handed out as
\* (deliveries.ts:561), for any number of deliveries that share a bundle and an
\* account, releases, failures and releases cut short.
THEOREM AttemptsAreCounted == DeliveriesSpec => []AttemptCountCountsOrders
<1>1. DeliveriesInit => CountInv
  <2> SUFFICES ASSUME DeliveriesInit, NEW spec \in PostSpecs PROVE Counted(spec)
    BY DEF CountInv
  <2>1. Sharing(spec) = {} /\ Made(spec) = {}
    BY DEF DeliveriesInit, WorkOrdersInit, AbsentTarget, AbsentOrder, TargetExists, Exists,
           Sharing, Made
  <2>2. Releases(spec) = {}
    BY <2>1 DEF Releases
  <2>3. QED
    BY <2>1, <2>2, FS_EmptySet DEF Counted
<1>2. DeliveriesInv /\ CountInv /\ [DeliveriesNext]_allVars => CountInv'
  BY CountStep DEF CountInv
<1>3. DeliveriesInv /\ CountInv => AttemptCountCountsOrders
  <2> SUFFICES ASSUME DeliveriesInv, CountInv, NEW k \in Keys, TargetExists(k),
                      postSpec(k) \notin OrderSpecs
               PROVE  IF Sharing(postSpec(k)) \cap Fragile = {}
                        THEN Cardinality(Made(postSpec(k))) = Cardinality(Releases(postSpec(k)))
                        ELSE Cardinality(Made(postSpec(k))) >= Cardinality(Releases(postSpec(k)))
    BY Zenon DEF AttemptCountCountsOrders, Sharing, Made, Releases
  <2>1. postSpec(k) \in PostSpecs
    BY PostIsOrder DEF DeliveriesInv, PostSpecs
  <2>2. Counted(postSpec(k))
    BY <2>1 DEF CountInv
  <2>3. QED
    BY <2>2 DEF Counted
<1>4. QED
  BY <1>1, <1>2, <1>3, DeliveriesInvariant, PTL DEF DeliveriesSpec

-----------------------------------------------------------------------------
(* The order of a delivery.  A release names an order no row named before;  *)
(* what an order is for never changes, nor what its delivery is of and for. *)

OrdersOwned ==
  \A k \in Keys : TargetExists(k) /\ targets[k].order # Null =>
    /\ targets[k].order \in Orders
    /\ Exists(targets[k].order)
    /\ orders[targets[k].order].spec = postSpec(k)
    /\ \A j \in Keys \ {k} : TargetExists(j) => targets[j].order # targets[k].order

\* No step changes what an order is for.
LEMMA OrdersStay ==
  ASSUME DeliveriesInv, [DeliveriesNext]_allVars, NEW q \in Orders, Exists(q)
  PROVE  Exists(q)' /\ orders'[q].spec = orders[q].spec
<1>1. OrdersTyped
  BY TypedParts DEF DeliveriesInv, WorkInv
<1>2. CASE [WorkNext]_workVars
  BY <1>2, NewOrders DEF DeliveriesInv
<1>3. CASE UNCHANGED workVars
  BY <1>2, <1>3
<1>4. ASSUME NEW k \in Keys, releaseToOperator(k)
      PROVE  Exists(q)' /\ orders'[q].spec = orders[q].spec
  <2>1. PICK o \in Unused, spec \in {postSpec(k)},
             status \in {"draft", "awaiting_brand_approval", "queued"} :
               InsertOrder(o, spec, status)
    BY <1>4, ReleaseInserts
  <2>2. orders'[q] = orders[q]
    BY <1>1, <2>1 DEF InsertOrder, OrdersTyped, Unused
  <2>3. QED
    BY <2>2 DEF Exists
<1>5. QED
  BY <1>2, <1>3, <1>4, OthersKeepWork
     DEF DeliveriesNext, WorkStep, exportPiece, releasePiece, allVars

\* A release that is recorded names an order that did not exist, made for
\* this delivery.
LEMMA HandedOutAnew ==
  ASSUME DeliveriesInv, NEW k \in Keys, releaseToOperator(k), targets' # targets
  PROVE  \E o \in Orders :
           /\ ~ Exists(o) /\ Exists(o)'
           /\ orders'[o].spec = postSpec(k)
           /\ targets'[k].order = o
<1>1. OrdersTyped /\ targets[k] \in TargetRow
  BY TypedParts, RowOfTarget DEF DeliveriesInv, WorkInv, releaseToOperator, TargetExists
<1>2. PICK o \in Unused, spec \in {postSpec(k)} :
        InsertOrder(o, spec, "queued") /\ setTarget(k, Released(k, o))
  BY DEF releaseToOperator
<1>3. /\ o \in Orders /\ ~ Exists(o) /\ Exists(o)'
      /\ orders'[o].spec = spec
  BY <1>1, <1>2 DEF InsertOrder, OrderRow, OrdersTyped, Unused, Exists
<1>4. targets'[k].order = o
  <2>1. Released(k, o).order = o
    BY <1>1 DEF Released, TargetRow
  <2>2. targets'[k] = Released(k, o)
    BY <1>2 DEF DeliveriesInv, TargetsTyped, setTarget
  <2>3. QED
    BY <2>1, <2>2
<1>5. QED
  BY <1>2, <1>3, <1>4

\* An order a delivery names in the new state is the one it named, or one
\* that did not exist.
LEMMA NamedOrders ==
  ASSUME DeliveriesInv, [DeliveriesNext]_allVars, targets' # targets
  PROVE  \E k \in Keys :
           /\ \A j \in Keys \ {k} : targets'[j] = targets[j]
           /\ \/ TargetExists(k) /\ targets'[k].order = targets[k].order
              \/ targets'[k].order = Null
              \/ /\ TargetExists(k)
                 /\ \E o \in Orders :
                      /\ ~ Exists(o) /\ Exists(o)'
                      /\ orders'[o].spec = postSpec(k)
                      /\ targets'[k].order = o
<1>1. PICK k \in Keys : DeliveryEffect(k)
  BY SeenByDeliveries
<1>2. CASE targets'[k] = targets[k]
  <2>1. targets' = targets
    BY <1>1, <1>2 DEF DeliveriesInv, DeliveryEffect, TargetsTyped
  <2>2. QED
    BY <2>1
<1>3. CASE Opens(k) \/ Moves(k)
  BY <1>1, <1>3 DEF DeliveryEffect, Opens, Moves, Paired
<1>4. CASE HandsOut(k)
  BY <1>1, <1>4, HandedOutAnew DEF DeliveryEffect, HandsOut, Paired
<1>5. QED
  BY <1>1, <1>2, <1>3, <1>4 DEF DeliveryEffect

LEMMA OwnedStep ==
  ASSUME DeliveriesInv, OrdersOwned, [DeliveriesNext]_allVars
  PROVE  OrdersOwned'
<1>1. ASSUME NEW k \in Keys, TargetExists(k), targets[k].order # Null,
             targets'[k].order = targets[k].order
      PROVE  /\ targets'[k].order \in Orders
             /\ orders'[targets'[k].order].status # "absent"
             /\ orders'[targets'[k].order].spec = postSpec(k)'
  <2>1. /\ targets[k].order \in Orders /\ Exists(targets[k].order)
        /\ orders[targets[k].order].spec = postSpec(k)
    BY <1>1 DEF OrdersOwned
  <2>2. QED
    BY <1>1, <2>1, OrdersStay, SpecStays DEF Exists
<1>2. CASE targets' = targets
  <2>1. \A k \in Keys : TargetExists(k)' <=> TargetExists(k)
    BY <1>2 DEF TargetExists
  <2>2. ASSUME NEW k \in Keys, TargetExists(k), targets[k].order # Null
        PROVE  \A j \in Keys \ {k} : TargetExists(j) => targets[j].order # targets[k].order
    BY <2>2 DEF OrdersOwned
  <2>3. QED
    BY <1>1, <1>2, <2>1, <2>2 DEF OrdersOwned, Exists
<1>3. CASE targets' # targets
  <2>1. PICK k \in Keys :
          /\ \A j \in Keys \ {k} : targets'[j] = targets[j]
          /\ \/ TargetExists(k) /\ targets'[k].order = targets[k].order
             \/ targets'[k].order = Null
             \/ /\ TargetExists(k)
                /\ \E o \in Orders :
                     /\ ~ Exists(o) /\ Exists(o)'
                     /\ orders'[o].spec = postSpec(k)
                     /\ targets'[k].order = o
    BY <1>3, NamedOrders
  <2>2. \A j \in Keys \ {k} : TargetExists(j)' <=> TargetExists(j)
    BY <2>1 DEF TargetExists
  <2>3. ASSUME NEW j \in Keys, TargetExists(j)', targets'[j].order # Null
        PROVE  /\ targets'[j].order \in Orders
               /\ orders'[targets'[j].order].status # "absent"
               /\ orders'[targets'[j].order].spec = postSpec(j)'
    <3>1. CASE TargetExists(j) /\ targets'[j].order = targets[j].order
      BY <1>1, <2>3, <3>1 DEF Exists
    <3>2. CASE ~ (TargetExists(j) /\ targets'[j].order = targets[j].order)
      <4>1. j = k /\ TargetExists(k)
        BY <2>1, <2>2, <2>3, <3>2
      <4>2. PICK o \in Orders : Exists(o)' /\ orders'[o].spec = postSpec(k) /\ targets'[k].order = o
        BY <2>1, <2>3, <3>2, <4>1
      <4>3. postSpec(k)' = postSpec(k)
        BY <4>1, SpecStays
      <4>4. QED
        BY <4>1, <4>2, <4>3 DEF Exists
    <3>3. QED
      BY <3>1, <3>2
  <2>4. ASSUME NEW i \in Keys, NEW j \in Keys, i # j, TargetExists(i)', TargetExists(j)',
               targets'[i].order # Null
        PROVE  targets'[j].order # targets'[i].order
    <3>1. ASSUME NEW a \in Keys \ {k}, TargetExists(k)', TargetExists(a)',
                 targets'[a].order # Null
          PROVE  targets'[k].order # targets'[a].order
      <4>1. /\ TargetExists(a) /\ targets[a].order # Null
            /\ targets[a].order \in Orders /\ Exists(targets[a].order)
        BY <2>1, <2>2, <3>1 DEF OrdersOwned
      <4>2. CASE TargetExists(k) /\ targets'[k].order = targets[k].order
        BY <2>1, <3>1, <4>1, <4>2 DEF OrdersOwned
      <4>3. QED
        BY <2>1, <3>1, <4>1, <4>2
    <3>2. CASE i # k /\ j # k
      BY <2>1, <2>2, <2>4, <3>2 DEF OrdersOwned
    <3>3. QED
      BY <2>4, <3>1, <3>2
  <2>5. QED
    BY <2>3, <2>4 DEF OrdersOwned, Exists
<1>4. QED
  BY <1>2, <1>3

\* A delivery keeps its release, its slot and the account it was paired with
\* (deliveries.ts:376-380): a reused key, a second release and a loss change
\* none of them.
LEMMA PairingStays ==
  DeliveriesSpec => [][\A k \in Keys : TargetExists(k) => Paired(k)]_allVars
<1>1. DeliveriesInv /\ [DeliveriesNext]_allVars => \A k \in Keys : TargetExists(k) => Paired(k)
  BY PairingStep
<1>2. QED
  BY <1>1, DeliveriesInvariant, PTL DEF DeliveriesSpec

\* A delivery keeps the order it was handed out as while it is with a person
\* and once it is over (deliveries.ts:557-563), and the order it names was made
\* for its own bundle, slot and account and is no other delivery's: for any
\* number of deliveries, reused keys, releases cut short and losses.
THEOREM OrdersAreTheirOwn == DeliveriesSpec => OrderIsItsOwn
<1>1. DeliveriesInit => OrdersOwned
  BY DEF DeliveriesInit, OrdersOwned, TargetExists, AbsentTarget
<1>2. DeliveriesInv /\ OrdersOwned /\ [DeliveriesNext]_allVars => OrdersOwned'
  BY OwnedStep
<1>3. DeliveriesInv /\ OrdersOwned /\ [DeliveriesNext]_allVars =>
        \A k \in Keys : TargetExists(k) =>
          /\ targets[k].status \in ReleasedStatuses \cup Over
               => targets'[k].order = targets[k].order
          /\ targets'[k].order # Null =>
               /\ orders'[targets'[k].order].spec = postSpec(k)
               /\ \A j \in Keys \ {k} :
                    TargetExists(j)' => targets'[j].order # targets'[k].order
  <2> SUFFICES ASSUME DeliveriesInv, OrdersOwned, [DeliveriesNext]_allVars,
                      NEW k \in Keys, TargetExists(k)
               PROVE  /\ targets[k].status \in ReleasedStatuses \cup Over
                           => targets'[k].order = targets[k].order
                      /\ targets'[k].order # Null =>
                           /\ orders'[targets'[k].order].spec = postSpec(k)
                           /\ \A j \in Keys \ {k} :
                                TargetExists(j)' => targets'[j].order # targets'[k].order
    OBVIOUS
  <2>1. OrdersOwned'
    BY OwnedStep
  <2>2. TargetExists(k)' /\ postSpec(k)' = postSpec(k)
    BY SpecStays
  <2>3. targets[k].status \in ReleasedStatuses \cup Over => targets'[k].order = targets[k].order
    BY PairingStep
  <2>4. QED
    BY <2>1, <2>2, <2>3 DEF OrdersOwned
<1>4. QED
  BY <1>1, <1>2, <1>3, DeliveriesInvariant, PTL DEF DeliveriesSpec, OrderIsItsOwn
=============================================================================
