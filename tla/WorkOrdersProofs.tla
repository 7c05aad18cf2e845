-------------------------- MODULE WorkOrdersProofs --------------------------
(***************************************************************************)
(* Theorems about WorkOrders, for any slots, orders, requests, caps and    *)
(* windows, and wherever the process dies.                                 *)
(*                                                                         *)
(* A step of WorkSpec is a step of AccountsSpec or leaves the accounts     *)
(* alone, once the orders are known to name real readiness items; so the   *)
(* theorems about Accounts hold of the composed system too.  The rest is   *)
(* said of steps, not of WorkSpec, so that it can be used where deliveries *)
(* take steps of their own.                                                *)
(***************************************************************************)
EXTENDS WorkOrders, AccountsProofs

WorkInv == AccountsInv /\ WorkOrdersTypeOK

OpenStatuses == OrderStatuses \ TerminalStatuses

OrdersTyped ==
  orders \in [Orders -> {AbsentOrder} \cup [spec : OrderSpec, status : OrderStatuses]]

AttemptsTyped == attempts \in [Orders -> Seq(AttemptRow)]

-----------------------------------------------------------------------------
(* What the handlers do to the two tables *)

\* Every move leaves a status in which something is still to be done.
LEMMA MovesOfTable ==
  ASSUME NEW m \in DOMAIN MOVES
  PROVE  MOVES[m].from \subseteq OpenStatuses /\ MOVES[m].to \in OrderStatuses
BY DEF MOVES, OpenStatuses, OrderStatuses, TerminalStatuses, retryTo, releaseFrom, cancelFrom

\* A move touches the status of its order and nothing else.
LEMMA MoveEffect ==
  ASSUME OrdersTyped, NEW o \in Orders, NEW m \in DOMAIN MOVES,
         CanMove(o, m), transition(o, m)
  PROVE  /\ OrdersTyped'
         /\ orders[o].status \in OpenStatuses
         /\ orders'[o].status = MOVES[m].to
         /\ \A q \in Orders : orders'[q].spec = orders[q].spec
         /\ \A q \in Orders \ {o} : orders'[q] = orders[q]
<1>1. orders[o].status \in OpenStatuses /\ MOVES[m].to \in OrderStatuses
  BY MovesOfTable DEF CanMove
<1>2. orders[o] \in [spec : OrderSpec, status : OrderStatuses]
  BY <1>1 DEF OrdersTyped, AbsentOrder, OpenStatuses, OrderStatuses, TerminalStatuses
<1>3. orders' = [orders EXCEPT ![o] = [orders[o] EXCEPT !.status = MOVES[m].to]]
  BY DEF transition
<1>4. [orders[o] EXCEPT !.status = MOVES[m].to] \in [spec : OrderSpec, status : OrderStatuses]
  BY <1>1, <1>2
<1>5. OrdersTyped'
  BY <1>3, <1>4 DEF OrdersTyped
<1>6. QED
  BY <1>1, <1>2, <1>3, <1>5 DEF OrdersTyped

\* A new order touches the row it fills and nothing else.
LEMMA InsertEffect ==
  ASSUME OrdersTyped, NEW o \in Orders, NEW spec \in OrderSpec, NEW status \in OrderStatuses,
         InsertOrder(o, spec, status)
  PROVE  /\ OrdersTyped'
         /\ orders'[o] = [spec |-> spec, status |-> status]
         /\ \A q \in Orders \ {o} : orders'[q] = orders[q]
BY DEF OrdersTyped, InsertOrder, OrderRow

\* A claim opens one attempt of its order.
LEMMA OpenEffect ==
  ASSUME AttemptsTyped, NEW o \in Orders, NEW row \in AttemptRow,
         attempts' = [attempts EXCEPT ![o] = Append(@, row)]
  PROVE  /\ AttemptsTyped'
         /\ Len(attempts'[o]) = Len(attempts[o]) + 1
         /\ attempts'[o][Len(attempts[o]) + 1] = row
         /\ \A n \in DOMAIN attempts[o] : attempts'[o][n] = attempts[o][n]
         /\ \A q \in Orders \ {o} : attempts'[q] = attempts[q]
<1>1. attempts[o] \in Seq(AttemptRow)
  BY DEF AttemptsTyped
<1>2. attempts'[o] = Append(attempts[o], row)
  BY DEF AttemptsTyped
<1>3. QED
  BY <1>1, <1>2, AppendProperties, LenProperties DEF AttemptsTyped

\* A proof or a review revises the attempt in play of its order.
LEMMA ReviseEffect ==
  ASSUME AttemptsTyped, NEW o \in Orders, currentAttempt(o) # 0, NEW row \in AttemptRow,
         attempts' = [attempts EXCEPT ![o] = [attempts[o] EXCEPT ![currentAttempt(o)] = row]]
  PROVE  /\ AttemptsTyped'
         /\ currentAttempt(o)' = currentAttempt(o)
         /\ attempts'[o][currentAttempt(o)] = row
         /\ \A n \in DOMAIN attempts[o] \ {currentAttempt(o)} : attempts'[o][n] = attempts[o][n]
         /\ \A q \in Orders \ {o} : attempts'[q] = attempts[q]
<1>1. attempts[o] \in Seq(AttemptRow) /\ currentAttempt(o) \in 1 .. Len(attempts[o])
  BY LenProperties DEF AttemptsTyped, currentAttempt
<1>2. attempts'[o] = [attempts[o] EXCEPT ![currentAttempt(o)] = row]
  BY DEF AttemptsTyped
<1>3. QED
  BY <1>1, <1>2, ExceptSeq, LenProperties DEF AttemptsTyped, currentAttempt

\* The rows of an attempt, revised: only the attempt in play changes, and it
\* keeps the day it was handed out on.
Revised(o) ==
  /\ AttemptsTyped'
  /\ currentAttempt(o)' = currentAttempt(o)
  /\ \A q \in Orders \ {o} : attempts'[q] = attempts[q]
  /\ \A n \in DOMAIN attempts[o] :
       /\ attempts'[o][n].day = attempts[o][n].day
       /\ n # currentAttempt(o) => attempts'[o][n] = attempts[o][n]

LEMMA CurrentRow ==
  ASSUME AttemptsTyped, NEW o \in Orders, currentAttempt(o) # 0
  PROVE  /\ currentAttempt(o) \in DOMAIN attempts[o]
         /\ attempts[o][currentAttempt(o)] \in AttemptRow
<1>1. attempts[o] \in Seq(AttemptRow)
  BY DEF AttemptsTyped
<1>2. currentAttempt(o) \in 1 .. Len(attempts[o]) /\ DOMAIN attempts[o] = 1 .. Len(attempts[o])
  BY <1>1, LenProperties DEF currentAttempt
<1>3. QED
  BY <1>1, <1>2, ElementOfSeq

LEMMA ProofEffect ==
  ASSUME AttemptsTyped, NEW o \in Orders, currentAttempt(o) # 0, NEW body \in Bodies,
         InsertProof(o, body)
  PROVE  /\ Revised(o)
         /\ proofOf(o)' = Append(proofOf(o), body)
         /\ reviewsOf(o)' = reviewsOf(o)
         /\ proofOf(o) \in Seq(Bodies)
<1> DEFINE old == attempts[o][currentAttempt(o)]
           row == [old EXCEPT !.proofs = Append(@, body)]
<1>1. old \in AttemptRow
  BY CurrentRow
<1>2. /\ row \in AttemptRow
      /\ row.day = old.day /\ row.reviews = old.reviews
      /\ row.proofs = Append(old.proofs, body)
  BY <1>1, AppendProperties DEF AttemptRow
<1>3. attempts' = [attempts EXCEPT ![o] = [attempts[o] EXCEPT ![currentAttempt(o)] = row]]
  BY DEF InsertProof
<1>4. old.proofs \in Seq(Bodies)
  BY <1>1 DEF AttemptRow
<1> HIDE DEF row
<1>5. /\ AttemptsTyped'
      /\ currentAttempt(o)' = currentAttempt(o)
      /\ attempts'[o][currentAttempt(o)] = row
      /\ \A n \in DOMAIN attempts[o] \ {currentAttempt(o)} : attempts'[o][n] = attempts[o][n]
      /\ \A q \in Orders \ {o} : attempts'[q] = attempts[q]
  BY <1>2, <1>3, ReviseEffect
<1>6. Revised(o)
  BY <1>2, <1>5 DEF Revised
<1>7. QED
  BY <1>2, <1>4, <1>5, <1>6 DEF proofOf, reviewsOf

LEMMA ReviewEffect ==
  ASSUME AttemptsTyped, NEW o \in Orders, currentAttempt(o) # 0,
         NEW decision \in {"accepted", "changes_requested", "failed"},
         recordReview(o, decision)
  PROVE  /\ Revised(o)
         /\ proofOf(o)' = proofOf(o)
         /\ reviewsOf(o)' = Append(reviewsOf(o), decision)
         /\ reviewsOf(o) \in Seq({"accepted", "changes_requested", "failed"})
<1> DEFINE old == attempts[o][currentAttempt(o)]
           row == [old EXCEPT !.reviews = Append(@, decision)]
<1>1. old \in AttemptRow
  BY CurrentRow
<1>2. /\ row \in AttemptRow
      /\ row.day = old.day /\ row.proofs = old.proofs
      /\ row.reviews = Append(old.reviews, decision)
  BY <1>1, AppendProperties DEF AttemptRow
<1>3. attempts' = [attempts EXCEPT ![o] = [attempts[o] EXCEPT ![currentAttempt(o)] = row]]
  BY DEF recordReview
<1>4. old.reviews \in Seq({"accepted", "changes_requested", "failed"})
  BY <1>1 DEF AttemptRow
<1> HIDE DEF row
<1>5. /\ AttemptsTyped'
      /\ currentAttempt(o)' = currentAttempt(o)
      /\ attempts'[o][currentAttempt(o)] = row
      /\ \A n \in DOMAIN attempts[o] \ {currentAttempt(o)} : attempts'[o][n] = attempts[o][n]
      /\ \A q \in Orders \ {o} : attempts'[q] = attempts[q]
  BY <1>2, <1>3, ReviseEffect
<1>6. Revised(o)
  BY <1>2, <1>5 DEF Revised
<1>7. QED
  BY <1>2, <1>4, <1>5, <1>6 DEF proofOf, reviewsOf

\* The clock a claim stamps with, or leaves as it is.
LEMMA StampEffect ==
  ASSUME WorkOrdersTypeOK, NEW day, StampedOn(day)
  PROVE  /\ day \in Nat
         /\ (clock \in [day : Nat, minute : 0 .. MinutesPerDay - 1])'
         /\ clock.day <= clock'.day
         /\ \/ day = clock.day
            \/ day = clock.day + 1 /\ clock'.day = day
BY WorkOrdersAssumption DEF WorkOrdersTypeOK, StampedOn, AtMidnight

-----------------------------------------------------------------------------
(* The refinement of Accounts *)

\* Losing an account through Work Orders is losing it, wherever it is cut.
LEMMA LossIsLoss ==
  ASSUME NEW i \in InstanceIds, loseInstanceAndReplace(i)
  PROVE  markInstanceLost(i)
BY DEF loseInstanceAndReplace, markInstanceLost, LossCutShort, StatusAfterLoss

\* What a completion earns is what recordReadiness would write.
LEMMA CompletionEarns ==
  ASSUME WorkOrdersTypeOK, NEW o \in Orders, completeOrder(o)
  PROVE  [AccountsNext]_accountVars
<1> DEFINE spec == orders[o].spec
           i == EarnsFor(spec)
<1>1. slotStatus' = slotStatus /\ orders[o].status # "absent"
  BY DEF completeOrder, CanMove, MOVES
<1>2. spec.item \in Items \cup {Null}
  BY <1>1 DEF WorkOrdersTypeOK, AbsentOrder, OrderSpec
<1>3. CASE instances' = instances
  BY <1>1, <1>3 DEF accountVars
<1>4. CASE earnReadiness(spec) /\ instances' # instances
  <2>1. spec.item # Null /\ CanEarn(i, spec.item) /\ Earn(i, spec.item)
    BY <1>4 DEF earnReadiness
  <2>2. i \in InstanceIds /\ spec.item \in Items
    BY <1>2, <2>1, Rows DEF WorkOrdersTypeOK, CanEarn
  <2>3. recordReadiness(i, spec.item)
    BY <1>1, <2>1 DEF recordReadiness
  <2>4. QED
    BY <2>2, <2>3 DEF AccountsNext, SlotStep
<1>5. QED
  BY <1>3, <1>4 DEF completeOrder

\* Every other operation on an order leaves the accounts as they are.
LEMMA OthersKeepAccounts ==
  ASSUME NEW o \in Orders, OrderStep(o), ~ completeOrder(o)
  PROVE  UNCHANGED accountVars
BY DEF OrderStep, createOrder, submitOrder, approveOrder, claimOrder, startOrder, releaseOrder,
       beginReview, requestChanges, retryOrder, failOrder, cancelOrder, submitProof,
       PlainMove, accountVars

LEMMA StepIsAccountsStep ==
  ASSUME WorkOrdersTypeOK, [WorkNext]_workVars
  PROVE  [AccountsNext]_accountVars
<1>1. CASE SlotStep
  BY <1>1 DEF AccountsNext
<1>2. ASSUME NEW i \in InstanceIds, loseInstanceAndReplace(i) PROVE AccountsNext
  BY <1>2, LossIsLoss DEF AccountsNext
<1>3. ASSUME NEW o \in Orders, OrderStep(o) PROVE [AccountsNext]_accountVars
  BY <1>3, CompletionEarns, OthersKeepAccounts
<1>4. ASSUME NEW p \in Pieces, approvePiece(p) \/ reopenPiece(p) PROVE UNCHANGED accountVars
  BY <1>4 DEF approvePiece, reopenPiece
<1>5. CASE Tick
  BY <1>5 DEF Tick
<1>6. CASE UNCHANGED workVars
  BY <1>6 DEF workVars, accountVars
<1>7. QED
  BY <1>1, <1>2, <1>3, <1>4, <1>5, <1>6 DEF WorkNext

-----------------------------------------------------------------------------
(* What an operation on an order may do *)

WorldTyped ==
  /\ clock \in [day : Nat, minute : 0 .. MinutesPerDay - 1]
  /\ approvedPieces \subseteq Pieces

\* An order is completed only with a proof on the attempt in play and its last
\* review accepting it.
EarnsCompletion(o) ==
  orders[o].status = "completed" =>
    HasProof(o) /\ reviewsOf(o) # <<>> /\ Last(reviewsOf(o)) = "accepted"

\* The attempts of an order, as far as the gate counts them.
DaysKept(o) ==
  /\ clock' = clock
  /\ Len(attempts'[o]) = Len(attempts[o])
  /\ \A n \in DOMAIN attempts[o] : attempts'[o][n].day = attempts[o][n].day

OrderEffect(o) ==
  /\ OrdersTyped' /\ AttemptsTyped' /\ WorldTyped'
  /\ \A q \in Orders \ {o} : orders'[q] = orders[q] /\ attempts'[q] = attempts[q]
  /\ orders[o].status \in OpenStatuses \cup {"absent"}
  /\ Exists(o) => orders'[o].spec = orders[o].spec
  /\ ~ Exists(o) => orders'[o].status # "queued"
  /\ orders'[o].status # "absent"
  /\ EarnsCompletion(o)'
  /\ DaysKept(o) \/ claimOrder(o)

LEMMA TypedParts ==
  WorkOrdersTypeOK <=> AccountsTypeOK /\ OrdersTyped /\ AttemptsTyped /\ WorldTyped
BY DEF WorkOrdersTypeOK, OrdersTyped, AttemptsTyped, WorldTyped

\* A revision keeps the days, and so does leaving the attempts alone.
LEMMA RevisedDays ==
  ASSUME AttemptsTyped, NEW o \in Orders, Revised(o), clock' = clock
  PROVE  DaysKept(o)
BY DEF Revised, DaysKept, currentAttempt

\* A move that does not complete its order, whatever it writes beside.
LEMMA MoveIsEffect ==
  ASSUME WorkOrdersTypeOK, NEW o \in Orders, NEW m \in DOMAIN MOVES \ {"complete"},
         CanMove(o, m), transition(o, m) \/ UNCHANGED orders,
         UNCHANGED attempts \/ Revised(o), UNCHANGED worldVars
  PROVE  OrderEffect(o)
<1>1. OrdersTyped /\ AttemptsTyped /\ WorldTyped
  BY TypedParts
<1>2. /\ OrdersTyped'
      /\ orders[o].status \in OpenStatuses
      /\ orders'[o].status \notin {"completed", "absent"}
      /\ orders'[o].spec = orders[o].spec
      /\ \A q \in Orders \ {o} : orders'[q] = orders[q]
  <2>1. CASE transition(o, m)
    <3>1. MOVES[m].to \notin {"completed", "absent"}
      BY DEF MOVES, retryTo
    <3>2. QED
      BY <1>1, <2>1, <3>1, MoveEffect
  <2>2. CASE UNCHANGED orders
    BY <1>1, <2>2, MovesOfTable DEF CanMove, OrdersTyped, OpenStatuses, OrderStatuses, TerminalStatuses
  <2>3. QED
    BY <2>1, <2>2
<1>3. /\ AttemptsTyped' /\ WorldTyped' /\ DaysKept(o)
      /\ \A q \in Orders \ {o} : attempts'[q] = attempts[q]
  <2>1. CASE UNCHANGED attempts
    BY <1>1, <2>1 DEF AttemptsTyped, WorldTyped, worldVars, DaysKept
  <2>2. CASE Revised(o)
    BY <1>1, <2>2, RevisedDays DEF Revised, WorldTyped, worldVars
  <2>3. QED
    BY <2>1, <2>2
<1>4. Exists(o)
  BY <1>2 DEF Exists, OpenStatuses, OrderStatuses, TerminalStatuses
<1>5. QED
  BY <1>2, <1>3, <1>4 DEF OrderEffect, EarnsCompletion

LEMMA PlainMoveIsEffect ==
  ASSUME WorkOrdersTypeOK, NEW o \in Orders, NEW m \in DOMAIN MOVES \ {"complete"},
         PlainMove(o, m)
  PROVE  OrderEffect(o)
BY MoveIsEffect DEF PlainMove

LEMMA CreateIsEffect ==
  ASSUME WorkOrdersTypeOK, NEW o \in Orders, NEW spec \in OrderSpecs, createOrder(o, spec)
  PROVE  OrderEffect(o)
<1>1. OrdersTyped /\ AttemptsTyped /\ WorldTyped
  BY TypedParts
<1>2. spec \in OrderSpec /\ "draft" \in OrderStatuses /\ InsertOrder(o, spec, "draft")
  BY WorkOrdersAssumption DEF createOrder, OrderStatuses
<1>3. /\ OrdersTyped' /\ orders'[o].status = "draft"
      /\ \A q \in Orders \ {o} : orders'[q] = orders[q]
  BY <1>1, <1>2 DEF OrdersTyped, InsertOrder, OrderRow
<1>4. UNCHANGED <<attempts, clock, approvedPieces>> /\ orders[o].status = "absent"
  BY DEF createOrder, worldVars, Exists
<1>5. QED
  BY <1>1, <1>3, <1>4 DEF OrderEffect, EarnsCompletion, DaysKept, Exists, AttemptsTyped, WorldTyped

LEMMA ClaimIsEffect ==
  ASSUME WorkOrdersTypeOK, NEW o \in Orders, claimOrder(o)
  PROVE  OrderEffect(o)
<1>1. OrdersTyped /\ AttemptsTyped /\ WorldTyped
  BY TypedParts
<1>2. PICK day : /\ StampedOn(day)
                 /\ attempts' = [attempts EXCEPT ![o] =
                      Append(@, [day |-> day, proofs |-> <<>>, reviews |-> <<>>])]
  BY DEF claimOrder
<1>3. /\ AttemptsTyped' /\ WorldTyped'
      /\ \A q \in Orders \ {o} : attempts'[q] = attempts[q]
  <2>1. [day |-> day, proofs |-> <<>>, reviews |-> <<>>] \in AttemptRow
    BY <1>2, StampEffect DEF AttemptRow
  <2>2. WorldTyped'
    BY <1>1, <1>2, StampEffect DEF WorldTyped, claimOrder
  <2>3. QED
    BY <1>1, <1>2, <2>1, <2>2, OpenEffect
<1>4. /\ OrdersTyped'
      /\ orders[o].status \in OpenStatuses
      /\ orders'[o].status \notin {"completed", "absent"}
      /\ orders'[o].spec = orders[o].spec
      /\ \A q \in Orders \ {o} : orders'[q] = orders[q]
  <2>1. CanMove(o, "claim") /\ "claim" \in DOMAIN MOVES /\ MOVES["claim"].to \notin {"completed", "absent"}
    BY DEF claimOrder, MOVES
  <2>2. CASE transition(o, "claim")
    BY <1>1, <2>1, <2>2, MoveEffect
  <2>3. CASE UNCHANGED orders
    BY <1>1, <2>1, <2>3, MovesOfTable DEF CanMove, OrdersTyped, OpenStatuses, OrderStatuses, TerminalStatuses
  <2>4. QED
    BY <2>2, <2>3 DEF claimOrder
<1>5. Exists(o)
  BY <1>4 DEF Exists, OpenStatuses, OrderStatuses, TerminalStatuses
<1>6. QED
  BY <1>3, <1>4, <1>5 DEF OrderEffect, EarnsCompletion

LEMMA CompleteIsEffect ==
  ASSUME WorkOrdersTypeOK, NEW o \in Orders, completeOrder(o)
  PROVE  OrderEffect(o)
<1>1. OrdersTyped /\ AttemptsTyped /\ WorldTyped
  BY TypedParts
<1>2. /\ CanMove(o, "complete") /\ "complete" \in DOMAIN MOVES
      /\ HasProof(o) /\ currentAttempt(o) # 0
      /\ recordReview(o, "accepted")
      /\ transition(o, "complete") \/ UNCHANGED orders
      /\ UNCHANGED worldVars
  BY DEF completeOrder, HasProof, MOVES
<1>3. /\ OrdersTyped'
      /\ orders[o].status \in OpenStatuses
      /\ orders'[o].status # "absent"
      /\ orders'[o].spec = orders[o].spec
      /\ \A q \in Orders \ {o} : orders'[q] = orders[q]
  <2>1. CASE transition(o, "complete")
    <3>1. MOVES["complete"].to # "absent"
      BY DEF MOVES
    <3>2. QED
      BY <1>1, <1>2, <2>1, <3>1, MoveEffect
  <2>2. CASE UNCHANGED orders
    BY <1>1, <1>2, <2>2, MovesOfTable
       DEF CanMove, OrdersTyped, OpenStatuses, OrderStatuses, TerminalStatuses
  <2>3. QED
    BY <1>2, <2>1, <2>2
<1>4. /\ Revised(o)
      /\ proofOf(o)' = proofOf(o)
      /\ reviewsOf(o)' = Append(reviewsOf(o), "accepted")
      /\ reviewsOf(o) \in Seq({"accepted", "changes_requested", "failed"})
  BY <1>1, <1>2, ReviewEffect
<1>5. EarnsCompletion(o)'
  <2>1. HasProof(o)'
    BY <1>2, <1>4 DEF HasProof, Revised
  <2>2. reviewsOf(o)' # <<>> /\ Last(reviewsOf(o)') = "accepted"
    BY <1>4, AppendProperties DEF Last
  <2>3. QED
    BY <2>1, <2>2 DEF EarnsCompletion
<1>6. WorldTyped' /\ DaysKept(o)
  BY <1>1, <1>2, <1>4, RevisedDays DEF WorldTyped, worldVars
<1>7. Exists(o)
  BY <1>3 DEF Exists, OpenStatuses, OrderStatuses, TerminalStatuses
<1>8. QED
  BY <1>3, <1>4, <1>5, <1>6, <1>7 DEF OrderEffect, Revised

LEMMA OrderStepEffect ==
  ASSUME WorkOrdersTypeOK, NEW o \in Orders, OrderStep(o)
  PROVE  OrderEffect(o)
<1>1. {"submit", "approve", "start", "release", "begin_review", "retry", "cancel",
       "submit_proof", "request_changes", "fail"} \subseteq DOMAIN MOVES \ {"complete"}
  BY DEF MOVES
<1>2. AttemptsTyped
  BY TypedParts
<1>3. CASE \/ submitOrder(o) \/ approveOrder(o) \/ startOrder(o) \/ releaseOrder(o)
           \/ beginReview(o) \/ retryOrder(o) \/ cancelOrder(o)
  BY <1>1, <1>3, PlainMoveIsEffect
     DEF submitOrder, approveOrder, startOrder, releaseOrder, beginReview, retryOrder, cancelOrder
<1>4. CASE \E body \in Bodies : submitProof(o, body)
  BY <1>1, <1>2, <1>4, ProofEffect, MoveIsEffect DEF submitProof
<1>5. CASE requestChanges(o)
  BY <1>1, <1>2, <1>5, ReviewEffect, MoveIsEffect DEF requestChanges
<1>6. CASE failOrder(o)
  BY <1>1, <1>2, <1>6, ReviewEffect, MoveIsEffect DEF failOrder
<1>7. QED
  BY <1>3, <1>4, <1>5, <1>6, CreateIsEffect, ClaimIsEffect, CompleteIsEffect DEF OrderStep

-----------------------------------------------------------------------------
(* What any other step may do to the orders *)

CalmEffect ==
  /\ OrdersTyped' /\ AttemptsTyped' /\ WorldTyped'
  /\ attempts' = attempts
  /\ clock.day <= clock'.day
  /\ \A q \in Orders :
       orders'[q] = orders[q] \/ (~ Exists(q) /\ orders'[q].status # "completed")

\* And what it queues of itself is for a slot that is not halted.
QuietEffect ==
  /\ CalmEffect
  /\ \A q \in Orders :
       orders'[q] = orders[q] \/ (~ Exists(q) /\ slotStatus[orders'[q].spec.slot] \notin Halted)

LEMMA LossIsQuiet ==
  ASSUME WorkOrdersTypeOK, NEW i \in InstanceIds, loseInstanceAndReplace(i)
  PROVE  QuietEffect
<1>1. AccountsTypeOK /\ OrdersTyped /\ AttemptsTyped /\ WorldTyped
  BY TypedParts
<1>2. PICK s \in Slots : s = instances[i].slot
  BY <1>1, Rows DEF loseInstanceAndReplace, InstanceRow
<1>3. replaceSpec(s) \in OrderSpec
  BY DEF replaceSpec, OrderSpec, Kinds
<1>4. \/ UNCHANGED orders
      \/ /\ slotStatus[s] \notin Halted
         /\ \E o \in Unused, status \in {"draft", "awaiting_brand_approval", "queued"} :
              InsertOrder(o, replaceSpec(s), status)
  BY <1>2 DEF loseInstanceAndReplace, LossCutShort, spawnReplacementOrder
<1>5. UNCHANGED <<attempts, clock, approvedPieces>>
  BY DEF loseInstanceAndReplace, worldVars
<1>6. AttemptsTyped' /\ WorldTyped' /\ clock.day \in Nat
  BY <1>1, <1>5 DEF AttemptsTyped, WorldTyped
<1>7. CASE UNCHANGED orders
  <2>1. OrdersTyped' /\ clock.day <= clock'.day
    BY <1>1, <1>5, <1>6, <1>7 DEF OrdersTyped
  <2>2. CalmEffect
    BY <1>5, <1>6, <1>7, <2>1 DEF CalmEffect
  <2>3. QED
    BY <1>7, <2>2 DEF QuietEffect
<1>8. CASE /\ slotStatus[s] \notin Halted
           /\ \E o \in Unused, status \in {"draft", "awaiting_brand_approval", "queued"} :
                InsertOrder(o, replaceSpec(s), status)
  <2>1. PICK o \in Orders, status \in {"draft", "awaiting_brand_approval", "queued"} :
          ~ Exists(o) /\ InsertOrder(o, replaceSpec(s), status)
    BY <1>8 DEF Unused
  <2>2. status \in OrderStatuses
    BY DEF OrderStatuses
  <2>3. /\ OrdersTyped'
        /\ orders'[o].status = status /\ orders'[o].spec.slot = s
        /\ \A q \in Orders \ {o} : orders'[q] = orders[q]
    BY <1>1, <1>3, <2>1, <2>2 DEF OrdersTyped, InsertOrder, OrderRow, replaceSpec
  <2>4. QED
    <3>1. clock.day <= clock'.day
      BY <1>5, <1>6
    <3>2. CalmEffect
      BY <1>5, <1>6, <2>1, <2>3, <3>1 DEF CalmEffect
    <3>3. QED
      BY <1>8, <2>1, <2>3, <3>2 DEF QuietEffect
<1>9. QED
  BY <1>4, <1>7, <1>8

LEMMA WorldIsQuiet ==
  ASSUME WorkOrdersTypeOK, UNCHANGED orderVars,
         \/ UNCHANGED worldVars
         \/ Tick
         \/ \E p \in Pieces : approvePiece(p) \/ reopenPiece(p)
  PROVE  QuietEffect
<1>1. OrdersTyped /\ AttemptsTyped /\ WorldTyped
  BY TypedParts
<1>2. /\ UNCHANGED <<orders, attempts>>
      /\ OrdersTyped' /\ AttemptsTyped'
  BY <1>1 DEF orderVars, OrdersTyped, AttemptsTyped
<1>3. WorldTyped' /\ clock.day <= clock'.day
  BY <1>1, WorkOrdersAssumption DEF WorldTyped, worldVars, Tick, AtMidnight, approvePiece, reopenPiece
<1>4. QED
  <2>1. CalmEffect
    BY <1>2, <1>3 DEF CalmEffect
  <2>2. QED
    BY <1>2, <2>1 DEF QuietEffect

LEMMA StepEffect ==
  ASSUME WorkOrdersTypeOK, [WorkNext]_workVars
  PROVE  QuietEffect \/ \E o \in Orders : OrderStep(o) /\ OrderEffect(o)
<1>1. CASE UNCHANGED workVars \/ (SlotStep /\ UNCHANGED <<orderVars, worldVars>>)
  BY <1>1, WorldIsQuiet DEF workVars
<1>2. CASE Tick \/ \E p \in Pieces : approvePiece(p) \/ reopenPiece(p)
  BY <1>2, WorldIsQuiet DEF Tick, approvePiece, reopenPiece
<1>3. CASE \E i \in InstanceIds : loseInstanceAndReplace(i)
  BY <1>3, LossIsQuiet
<1>4. CASE \E o \in Orders : OrderStep(o)
  BY <1>4, OrderStepEffect
<1>5. QED
  BY <1>1, <1>2, <1>3, <1>4 DEF WorkNext

-----------------------------------------------------------------------------
(* Types and the refinement *)

LEMMA WorkStart == WorkOrdersInit => WorkInv
<1> SUFFICES ASSUME WorkOrdersInit PROVE WorkInv
  OBVIOUS
<1>1. AccountsInv
  BY AccountsStart DEF WorkOrdersInit
<1>2. OrdersTyped /\ AttemptsTyped /\ WorldTyped
  BY WorkOrdersAssumption, EmptySeq DEF WorkOrdersInit, OrdersTyped, AttemptsTyped, WorldTyped
<1>3. QED
  BY <1>1, <1>2, TypedParts DEF WorkInv, AccountsInv

LEMMA WorkStepKeeps ==
  ASSUME WorkInv, [WorkNext]_workVars
  PROVE  WorkInv'
<1>1. WorkOrdersTypeOK /\ AccountsInv
  BY DEF WorkInv
<1>2. AccountsInv'
  BY <1>1, StepIsAccountsStep, AccountsStep
<1>3. OrdersTyped' /\ AttemptsTyped' /\ WorldTyped'
  BY <1>1, StepEffect DEF QuietEffect, CalmEffect, OrderEffect
<1>4. WorkOrdersTypeOK'
  BY <1>2, <1>3 DEF AccountsInv, WorkOrdersTypeOK, OrdersTyped, AttemptsTyped, WorldTyped
<1>5. QED
  BY <1>2, <1>4 DEF WorkInv

LEMMA WorkInvariant == WorkSpec => []WorkInv
BY WorkStart, WorkStepKeeps, PTL DEF WorkSpec

\* The tables of the orders keep the shape the schema gives them, and the
\* accounts theirs.
THEOREM WorkTypeCorrect == WorkSpec => []WorkOrdersTypeOK
<1>1. WorkInv => WorkOrdersTypeOK
  BY DEF WorkInv
<1>2. QED
  BY <1>1, WorkInvariant, PTL

\* Through Work Orders the accounts only ever do what Accounts says
\* (work-orders.ts:658-676, 794-806), so what is proved of AccountsSpec holds of
\* the composed system.
THEOREM OrdersDriveAccounts == WorkSpec => ImplementsAccounts
<1>1. WorkOrdersInit => AccountsInit
  BY DEF WorkOrdersInit
<1>2. WorkInv /\ [WorkNext]_workVars => [AccountsNext]_accountVars
  BY StepIsAccountsStep DEF WorkInv
<1>3. QED
  BY <1>1, <1>2, WorkInvariant, PTL DEF WorkSpec, ImplementsAccounts, AccountsSpec

\* For one: no run of the Work Orders puts two accounts into a slot, and none
\* revives or changes an archived one.
THEOREM AccountsStaySound ==
  WorkSpec => []OneInstancePerSlot /\ []ReplacementChain /\ ArchivedIsFrozen
BY OrdersDriveAccounts, SlotsHoldOneInstance, HistoryIsAChain, ArchivedStaysFrozen, PTL
   DEF ImplementsAccounts

-----------------------------------------------------------------------------
(* Completion *)

LEMMA CompletedParts == CompletedOnProof <=> \A o \in Orders : EarnsCompletion(o)
BY DEF CompletedOnProof, EarnsCompletion

LEMMA CompletionStep ==
  ASSUME WorkInv, CompletedOnProof, CalmEffect \/ \E o \in Orders : OrderEffect(o)
  PROVE  CompletedOnProof'
<1>1. WorkOrdersTypeOK /\ \A q \in Orders : EarnsCompletion(q)
  BY CompletedParts DEF WorkInv
<1>2. ASSUME NEW q \in Orders, orders'[q] = orders[q], attempts'[q] = attempts[q]
      PROVE  EarnsCompletion(q)'
  BY <1>1, <1>2 DEF EarnsCompletion, HasProof, reviewsOf, proofOf, currentAttempt
<1>3. CASE CalmEffect
  <2>1. ASSUME NEW q \in Orders PROVE EarnsCompletion(q)'
    <3>1. attempts'[q] = attempts[q]
      BY <1>3 DEF CalmEffect
    <3>2. CASE orders'[q] = orders[q]
      BY <1>2, <3>1, <3>2
    <3>3. CASE orders'[q].status # "completed"
      BY <3>3 DEF EarnsCompletion
    <3>4. QED
      BY <1>3, <3>2, <3>3 DEF CalmEffect
  <2>2. QED
    BY <2>1 DEF CompletedOnProof, EarnsCompletion
<1>4. ASSUME NEW o \in Orders, OrderEffect(o) PROVE CompletedOnProof'
  <2>1. ASSUME NEW q \in Orders PROVE EarnsCompletion(q)'
    <3>1. CASE q = o
      BY <1>4, <3>1 DEF OrderEffect
    <3>2. CASE q # o
      BY <1>2, <1>4, <3>2 DEF OrderEffect
    <3>3. QED
      BY <3>1, <3>2
  <2>2. QED
    BY <2>1 DEF CompletedOnProof, EarnsCompletion
<1>5. QED
  BY <1>3, <1>4

\* There is no path to completed that does not go through a recorded and
\* accepted proof on the attempt being completed (work-orders.ts:628-632).
THEOREM CompletionRestsOnProof == WorkSpec => []CompletedOnProof
<1>1. WorkOrdersInit => CompletedOnProof
  BY DEF WorkOrdersInit, CompletedOnProof, AbsentOrder
<1>2. WorkInv /\ CompletedOnProof /\ [WorkNext]_workVars => CompletedOnProof'
  BY StepEffect, CompletionStep DEF WorkInv, QuietEffect
<1>3. QED
  BY <1>1, <1>2, WorkInvariant, PTL DEF WorkSpec

-----------------------------------------------------------------------------
(* The kill switch *)

LEMMA PausedStep ==
  ASSUME WorkInv, [WorkNext]_workVars, NEW o \in Orders, NEW s \in Slots,
         slotStatus[s] = "paused", orders'[o].status # "absent", orders'[o].spec.slot = s
  PROVE  /\ Len(attempts'[o]) = Len(attempts[o])
         /\ orders'[o].status = "queued" => Exists(o)
<1>1. WorkOrdersTypeOK /\ s # Null
  BY WorkOrdersAssumption DEF WorkInv
<1>2. CASE QuietEffect
  BY <1>2 DEF QuietEffect, CalmEffect, Halted, Exists
<1>3. ASSUME NEW q \in Orders, OrderEffect(q), q # o
      PROVE  orders'[o] = orders[o] /\ attempts'[o] = attempts[o]
  BY <1>3 DEF OrderEffect
<1>4. CASE OrderEffect(o)
  <2>1. CASE DaysKept(o)
    BY <1>4, <2>1 DEF OrderEffect, DaysKept
  <2>2. CASE claimOrder(o)
    <3>1. Exists(o) /\ releaseGate(orders[o].spec)
      BY <2>2 DEF claimOrder, CanMove, MOVES, Exists
    <3>2. orders[o].spec.slot = s
      BY <1>4, <3>1 DEF OrderEffect
    <3>3. QED
      BY <1>1, <3>1, <3>2 DEF releaseGate, refuseIfHalted, Halted
  <2>3. QED
    BY <1>4, <2>1, <2>2 DEF OrderEffect
<1>5. QED
  BY <1>1, <1>2, <1>3, <1>4, StepEffect DEF Exists

\* While a slot is paused nothing of it is handed out and nothing is queued on
\* its behalf (accounts.ts:606, release-gate.ts:139, work-orders.ts:815).
THEOREM PauseStopsTheSlot == WorkSpec => PausedSlotHandsOutNothing
<1>1. WorkInv /\ [WorkNext]_workVars =>
        \A o \in Orders, s \in Slots :
          slotStatus[s] = "paused" /\ orders'[o].status # "absent" /\ orders'[o].spec.slot = s
            => /\ Len(attempts'[o]) = Len(attempts[o])
               /\ orders'[o].status = "queued" => Exists(o)
  BY PausedStep
<1>2. QED
  BY <1>1, WorkInvariant, PTL DEF WorkSpec, PausedSlotHandsOutNothing

-----------------------------------------------------------------------------
(* The daily cap.  No attempt is stamped with a day to come, so a claim that *)
(* straddles midnight is the first of its day; and a cap the gate found not  *)
(* yet reached has room for one.                                             *)

CapInv ==
  /\ \A o \in Orders : ~ Exists(o) => attempts[o] = <<>>
  /\ \A o \in Orders : \A n \in DOMAIN attempts[o] : attempts[o][n].day <= clock.day
  /\ \A s \in Slots, action \in Actions : DailyCaps[s][action] # Null =>
       \A day \in Nat : Cardinality(releasedOn(s, action, day)) <= DailyCaps[s][action]

LEMMA ReleasedIsFinite ==
  ASSUME NEW s, NEW action, NEW day
  PROVE  /\ IsFiniteSet(releasedOn(s, action, day))
         /\ Cardinality(releasedOn(s, action, day)) \in Nat
<1>1. releasedOn(s, action, day) \subseteq Orders
  BY DEF releasedOn
<1>2. QED
  BY <1>1, WorkOrdersAssumption, FS_Subset, FS_CardinalityType

LEMMA DayTyped ==
  ASSUME AttemptsTyped, NEW q \in Orders, NEW n \in DOMAIN attempts[q]
  PROVE  attempts[q][n].day \in Nat
<1>1. attempts[q] \in Seq(AttemptRow)
  BY DEF AttemptsTyped
<1>2. n \in 1 .. Len(attempts[q])
  BY <1>1, LenProperties
<1>3. attempts[q][n] \in AttemptRow
  BY <1>1, <1>2, ElementOfSeq
<1>4. QED
  BY <1>3 DEF AttemptRow

\* The count grows by the claimed order at most, and only on the stamped day.
LEMMA ClaimCounts ==
  ASSUME WorkInv, CapInv, NEW o \in Orders, OrderEffect(o), claimOrder(o)
  PROVE  CapInv'
<1>1. WorkOrdersTypeOK /\ OrdersTyped /\ AttemptsTyped /\ clock.day \in Nat
  BY TypedParts DEF WorkInv, WorldTyped
<1>2. PICK stamp : /\ StampedOn(stamp)
                   /\ attempts' = [attempts EXCEPT ![o] =
                        Append(@, [day |-> stamp, proofs |-> <<>>, reviews |-> <<>>])]
  BY DEF claimOrder
<1>3. /\ stamp \in Nat /\ clock.day <= clock'.day /\ clock'.day \in Nat
      /\ \/ stamp = clock.day
         \/ stamp = clock.day + 1 /\ clock'.day = stamp
  BY <1>1, <1>2, StampEffect
<1>4. /\ Exists(o) /\ releaseGate(orders[o].spec)
      /\ orders'[o].spec = orders[o].spec
      /\ \A q \in Orders \ {o} : orders'[q] = orders[q] /\ attempts'[q] = attempts[q]
  BY DEF claimOrder, CanMove, MOVES, Exists, OrderEffect
<1>5. /\ Len(attempts'[o]) = Len(attempts[o]) + 1
      /\ DOMAIN attempts[o] = 1 .. Len(attempts[o])
      /\ DOMAIN attempts'[o] = 1 .. Len(attempts[o]) + 1
      /\ attempts'[o][Len(attempts[o]) + 1].day = stamp
      /\ \A n \in DOMAIN attempts[o] : attempts'[o][n] = attempts[o][n]
  <2> DEFINE row == [day |-> stamp, proofs |-> <<>>, reviews |-> <<>>]
  <2>1. row \in AttemptRow
    BY <1>3 DEF AttemptRow
  <2>2. /\ AttemptsTyped'
        /\ Len(attempts'[o]) = Len(attempts[o]) + 1
        /\ attempts'[o][Len(attempts[o]) + 1] = row
        /\ \A n \in DOMAIN attempts[o] : attempts'[o][n] = attempts[o][n]
    <3> HIDE DEF row
    <3>1. attempts' = [attempts EXCEPT ![o] = Append(@, row)]
      BY <1>2 DEF row
    <3>2. QED
      BY <1>1, <2>1, <3>1, OpenEffect
  <2>3. attempts[o] \in Seq(AttemptRow) /\ attempts'[o] \in Seq(AttemptRow)
    BY <1>1, <2>2 DEF AttemptsTyped
  <2>4. QED
    BY <2>2, <2>3, LenProperties
<1>6. \A q \in Orders : \A n \in DOMAIN attempts'[q] : attempts'[q][n].day <= clock'.day
  <2>1. ASSUME NEW q \in Orders \ {o}, NEW n \in DOMAIN attempts'[q]
        PROVE  attempts'[q][n].day <= clock'.day
    <3>1. attempts'[q] = attempts[q] /\ attempts[q][n].day <= clock.day
      BY <1>4, <2>1 DEF CapInv
    <3>2. attempts[q][n].day \in Nat
      BY <1>1, <2>1, <3>1, DayTyped
    <3>3. QED
      BY <1>1, <1>3, <3>1, <3>2
  <2>2. ASSUME NEW n \in DOMAIN attempts'[o] PROVE attempts'[o][n].day <= clock'.day
    <3>1. CASE n = Len(attempts[o]) + 1
      BY <1>1, <1>3, <1>5, <3>1
    <3>2. CASE n \in DOMAIN attempts[o]
      <4>1. attempts'[o][n] = attempts[o][n] /\ attempts[o][n].day <= clock.day
        BY <1>5, <3>2 DEF CapInv
      <4>2. attempts[o][n].day \in Nat
        BY <1>1, <3>2, DayTyped
      <4>3. QED
        BY <1>1, <1>3, <4>1, <4>2
    <3>3. Len(attempts[o]) \in Nat
      BY <1>1, LenProperties DEF AttemptsTyped
    <3>4. QED
      BY <1>5, <2>2, <3>1, <3>2, <3>3
  <2>3. QED
    BY <2>1, <2>2
<1>7. ASSUME NEW s \in Slots, NEW action \in Actions, DailyCaps[s][action] # Null, NEW day \in Nat
      PROVE  Cardinality(releasedOn(s, action, day)') <= DailyCaps[s][action]
  <2> DEFINE before == releasedOn(s, action, day)
             after == releasedOn(s, action, day)'
             cap == DailyCaps[s][action]
  <2>1. Cardinality(before) <= cap /\ cap \in Nat /\ Cardinality(before) \in Nat
    BY <1>7, ReleasedIsFinite, WorkOrdersAssumption DEF CapInv
  <2>2. after \subseteq before \cup {o}
    BY <1>4 DEF releasedOn, Exists
  <2>3. CASE o \notin after \/ o \in before
    <3>1. after \subseteq before
      BY <2>2, <2>3
    <3>2. Cardinality(after) <= Cardinality(before) /\ Cardinality(after) \in Nat
      BY <3>1, ReleasedIsFinite, FS_Subset, FS_CardinalityType
    <3>3. QED
      BY <2>1, <3>2
  <2>4. CASE o \in after /\ o \notin before
    <3>1. orders[o].spec.slot = s /\ orders[o].spec.capped = action
      BY <1>4, <2>4 DEF releasedOn
    <3>2. day = stamp
      <4>1. PICK n \in DOMAIN attempts'[o] : attempts'[o][n].day = day
        BY <2>4 DEF releasedOn
      <4>2. n \notin DOMAIN attempts[o]
        BY <1>4, <1>5, <2>4, <3>1, <4>1 DEF releasedOn
      <4>3. Len(attempts[o]) \in Nat
        BY <1>1, LenProperties DEF AttemptsTyped
      <4>4. n = Len(attempts[o]) + 1
        BY <1>5, <4>1, <4>2, <4>3
      <4>5. QED
        BY <1>5, <4>1, <4>4
    <3>3. Cardinality(releasedOn(s, action, clock.day)) < cap
      <4>1. s # Null /\ action # Null
        BY WorkOrdersAssumption
      <4>2. ~ CapSpent(s, action)
        BY <1>4, <3>1, <4>1 DEF releaseGate
      <4>3. Cardinality(releasedOn(s, action, clock.day)) \in Nat
        BY ReleasedIsFinite
      <4>4. QED
        BY <1>7, <2>1, <4>1, <4>2, <4>3 DEF CapSpent
    <3>4. CASE day = clock.day
      <4>1. /\ IsFiniteSet(before)
            /\ Cardinality(before \cup {o}) = Cardinality(before) + 1
            /\ IsFiniteSet(before \cup {o})
        BY <2>4, ReleasedIsFinite, FS_AddElement
      <4>2. Cardinality(after) <= Cardinality(before \cup {o}) /\ Cardinality(after) \in Nat
        BY <2>2, <4>1, FS_Subset, FS_CardinalityType
      <4>3. QED
        BY <2>1, <3>3, <3>4, <4>1, <4>2
    <3>5. CASE day = clock.day + 1
      <4>1. before = {}
        <5>1. ASSUME NEW q \in Orders, NEW n \in DOMAIN attempts[q]
              PROVE  attempts[q][n].day # day
          <6>1. attempts[q][n].day <= clock.day
            BY DEF CapInv
          <6>2. attempts[q][n].day \in Nat
            BY <1>1, <5>1, DayTyped
          <6>3. QED
            BY <1>1, <3>5, <6>1, <6>2
        <5>2. QED
          BY <5>1 DEF releasedOn
      <4>2. after \subseteq {o} /\ IsFiniteSet({o}) /\ Cardinality({o}) = 1
        BY <2>2, <4>1, FS_Singleton
      <4>3. Cardinality(after) <= 1 /\ Cardinality(after) \in Nat
        BY <4>2, FS_Subset, FS_CardinalityType
      <4>4. Cardinality(releasedOn(s, action, clock.day)) \in Nat
        BY ReleasedIsFinite
      <4>5. QED
        BY <2>1, <3>3, <4>3, <4>4
    <3>6. QED
      BY <1>3, <3>2, <3>4, <3>5
  <2>5. QED
    BY <2>3, <2>4
<1>8. \A q \in Orders : ~ Exists(q)' => attempts'[q] = <<>>
  <2>1. Exists(o)'
    BY DEF OrderEffect, Exists
  <2>2. QED
    BY <1>4, <2>1 DEF CapInv, Exists
<1>9. QED
  BY <1>6, <1>7, <1>8 DEF CapInv

\* A step that opens no attempt leaves every count where it was, or lower.
LEMMA CountsStay ==
  ASSUME WorkInv, CapInv, clock.day <= clock'.day, clock'.day \in Nat,
         \A q \in Orders :
           /\ Len(attempts'[q]) = Len(attempts[q])
           /\ attempts'[q] \in Seq(AttemptRow)
           /\ \A n \in DOMAIN attempts[q] : attempts'[q][n].day = attempts[q][n].day
           /\ Exists(q) => Exists(q)' /\ orders'[q].spec = orders[q].spec
  PROVE  CapInv'
<1>1. AttemptsTyped /\ clock.day \in Nat
  BY TypedParts DEF WorkInv, WorldTyped
<1>2. \A q \in Orders : DOMAIN attempts'[q] = DOMAIN attempts[q]
  BY <1>1, LenProperties DEF AttemptsTyped
<1>3. \A q \in Orders : ~ Exists(q) => attempts'[q] = <<>>
  <2>1. ASSUME NEW q \in Orders, ~ Exists(q) PROVE attempts'[q] = <<>>
    <3>1. Len(attempts'[q]) = 0
      BY <2>1, EmptySeq DEF CapInv
    <3>2. QED
      BY <3>1, EmptySeq
  <2>2. QED
    BY <2>1
<1>4. \A q \in Orders : ~ Exists(q)' => attempts'[q] = <<>>
  BY <1>3
<1>5. \A q \in Orders : \A n \in DOMAIN attempts'[q] : attempts'[q][n].day <= clock'.day
  <2>1. ASSUME NEW q \in Orders, NEW n \in DOMAIN attempts[q]
        PROVE  attempts'[q][n].day <= clock'.day
    <3>1. attempts'[q][n].day = attempts[q][n].day /\ attempts[q][n].day <= clock.day
      BY <2>1 DEF CapInv
    <3>2. attempts[q][n].day \in Nat
      BY <1>1, <2>1, DayTyped
    <3>3. QED
      BY <1>1, <3>1, <3>2
  <2>2. QED
    BY <1>2, <2>1
<1>6. ASSUME NEW s \in Slots, NEW action \in Actions, DailyCaps[s][action] # Null, NEW day \in Nat
      PROVE  Cardinality(releasedOn(s, action, day)') <= DailyCaps[s][action]
  <2> DEFINE before == releasedOn(s, action, day)
             after == releasedOn(s, action, day)'
  <2>1. Cardinality(before) <= DailyCaps[s][action] /\ DailyCaps[s][action] \in Nat
    BY <1>6, WorkOrdersAssumption DEF CapInv
  <2>2. after \subseteq before
    <3>1. ASSUME NEW q \in after PROVE q \in before
      <4>1. PICK n \in DOMAIN attempts'[q] : attempts'[q][n].day = day
        BY <3>1 DEF releasedOn
      <4>2. q \in Orders /\ attempts'[q] # <<>>
        BY <3>1, <4>1 DEF releasedOn
      <4>3. Exists(q) /\ orders'[q].spec = orders[q].spec
        BY <1>3, <4>2
      <4>4. n \in DOMAIN attempts[q] /\ attempts[q][n].day = day
        BY <1>2, <4>1, <4>2
      <4>5. QED
        BY <3>1, <4>2, <4>3, <4>4 DEF releasedOn
    <3>2. QED
      BY <3>1
  <2>3. /\ Cardinality(after) <= Cardinality(before)
        /\ Cardinality(after) \in Nat /\ Cardinality(before) \in Nat
    BY <2>2, ReleasedIsFinite, FS_Subset, FS_CardinalityType
  <2>4. QED
    BY <2>1, <2>3
<1>7. QED
  BY <1>4, <1>5, <1>6 DEF CapInv

LEMMA CapStep ==
  ASSUME WorkInv, CapInv, CalmEffect \/ \E o \in Orders : OrderEffect(o)
  PROVE  CapInv'
<1>1. WorkOrdersTypeOK /\ AttemptsTyped /\ WorldTyped
  BY TypedParts DEF WorkInv
<1>2. CASE CalmEffect
  <2>1. clock.day <= clock'.day /\ clock'.day \in Nat
    BY <1>2 DEF CalmEffect, WorldTyped
  <2>2. \A q \in Orders :
          /\ Len(attempts'[q]) = Len(attempts[q])
          /\ attempts'[q] \in Seq(AttemptRow)
          /\ \A n \in DOMAIN attempts[q] : attempts'[q][n].day = attempts[q][n].day
          /\ Exists(q) => Exists(q)' /\ orders'[q].spec = orders[q].spec
    BY <1>2 DEF CalmEffect, AttemptsTyped, Exists
  <2>3. QED
    BY <2>1, <2>2, CountsStay
<1>3. ASSUME NEW o \in Orders, OrderEffect(o) PROVE CapInv'
  <2>1. CASE DaysKept(o)
    <3>1. clock.day <= clock'.day /\ clock'.day \in Nat
      BY <1>1, <2>1 DEF DaysKept, WorldTyped
    <3>2. \A q \in Orders :
            /\ Len(attempts'[q]) = Len(attempts[q])
            /\ attempts'[q] \in Seq(AttemptRow)
            /\ \A n \in DOMAIN attempts[q] : attempts'[q][n].day = attempts[q][n].day
            /\ Exists(q) => Exists(q)' /\ orders'[q].spec = orders[q].spec
      BY <1>3, <2>1 DEF OrderEffect, DaysKept, AttemptsTyped, Exists
    <3>3. QED
      BY <3>1, <3>2, CountsStay
  <2>2. CASE claimOrder(o)
    BY <1>3, <2>2, ClaimCounts
  <2>3. QED
    BY <1>3, <2>1, <2>2 DEF OrderEffect
<1>4. QED
  BY <1>2, <1>3

LEMMA CapStart == WorkOrdersInit => CapInv
<1>1. SUFFICES ASSUME WorkOrdersInit PROVE CapInv
  OBVIOUS
<1>2. \A o \in Orders : attempts[o] = <<>> /\ ~ Exists(o)
  <2>1. \A o \in Orders : attempts[o] = <<>> /\ orders[o] = AbsentOrder
    BY <1>1 DEF WorkOrdersInit
  <2>2. QED
    BY <2>1 DEF Exists, AbsentOrder
<1>3. \A o \in Orders : DOMAIN attempts[o] = {}
  BY <1>2
<1>4. ASSUME NEW s \in Slots, NEW action \in Actions, DailyCaps[s][action] # Null, NEW day \in Nat
      PROVE  Cardinality(releasedOn(s, action, day)) <= DailyCaps[s][action]
  <2>1. releasedOn(s, action, day) = {}
    BY <1>2 DEF releasedOn
  <2>2. DailyCaps[s][action] \in Nat
    BY <1>4, WorkOrdersAssumption
  <2>3. QED
    BY <2>1, <2>2, FS_EmptySet
<1>5. QED
  BY <1>2, <1>3, <1>4 DEF CapInv

\* On no day are more orders of a slot handed out for a capped action than its
\* daily cap (release-gate.ts:104-126), for any number of orders, whatever is
\* released, retried, cut short or claimed across midnight.
THEOREM CapsHold == WorkSpec => []DailyCapHolds
<1>1. WorkOrdersInit => CapInv
  BY CapStart
<1>2. WorkInv /\ CapInv /\ [WorkNext]_workVars => CapInv'
  BY StepEffect, CapStep DEF WorkInv, QuietEffect
<1>3. CapInv => DailyCapHolds
  BY WorkOrdersAssumption DEF CapInv, DailyCapHolds
<1>4. QED
  BY <1>1, <1>2, <1>3, WorkInvariant, PTL DEF WorkSpec

-----------------------------------------------------------------------------
(* The refinement of OrderFate *)

\* The fates a fate may lead to, in one step.
LEMMA FatesOfStatuses ==
  ASSUME NEW status \in OrderStatuses \cup {"absent"}
  PROVE  /\ fateOf(status) \in {"absent", "draft", "open", "completed", "dropped"}
         /\ status = "absent" <=> fateOf(status) = "absent"
         /\ status \in {"draft", "awaiting_brand_approval"} <=> fateOf(status) = "draft"
         /\ status = "completed" <=> fateOf(status) = "completed"
         /\ status \in {"cancelled", "failed"} <=> fateOf(status) = "dropped"
BY Zenon DEF fateOf, OrderStatuses, TerminalStatuses

\* What happens to the status of an order in one step of the system.
StatusMoves(from, to) ==
  \/ to = from
  \/ from = "absent" /\ to \in {"draft", "awaiting_brand_approval", "queued"}
  \/ \E m \in DOMAIN MOVES : from \in MOVES[m].from /\ to = MOVES[m].to

LEMMA MovesMoveStatuses ==
  ASSUME OrdersTyped, NEW o \in Orders, NEW m \in DOMAIN MOVES,
         CanMove(o, m), transition(o, m) \/ UNCHANGED orders
  PROVE  \A q \in Orders : StatusMoves(orders[q].status, orders'[q].status)
<1>1. CASE transition(o, m)
  BY <1>1, MoveEffect DEF CanMove, StatusMoves
<1>2. CASE UNCHANGED orders
  BY <1>2 DEF StatusMoves
<1>3. QED
  BY <1>1, <1>2

LEMMA InsertsMoveStatuses ==
  ASSUME OrdersTyped, NEW o \in Unused, NEW spec,
         NEW status \in {"draft", "awaiting_brand_approval", "queued"},
         InsertOrder(o, spec, status)
  PROVE  \A q \in Orders : StatusMoves(orders[q].status, orders'[q].status)
<1>1. /\ o \in Orders /\ orders[o].status = "absent"
      /\ orders'[o].status = status
      /\ \A q \in Orders \ {o} : orders'[q] = orders[q]
  BY DEF Unused, Exists, InsertOrder, OrderRow, OrdersTyped
<1>2. QED
  BY <1>1 DEF StatusMoves

LEMMA EveryStepMovesStatuses ==
  ASSUME OrdersTyped, [WorkNext]_workVars
  PROVE  \A q \in Orders : StatusMoves(orders[q].status, orders'[q].status)
PROOF
<1> DEFINE Goal == \A q \in Orders : StatusMoves(orders[q].status, orders'[q].status)
<1>1. ASSUME orders' = orders PROVE Goal
  BY <1>1 DEF StatusMoves
<1> HIDE DEF Goal
<1>2. ASSUME NEW o \in Orders, OrderStep(o)
      PROVE  Goal
  <2>1. CASE \E spec \in OrderSpecs : createOrder(o, spec)
    <3>1. PICK spec \in OrderSpecs : createOrder(o, spec)
      BY <2>1
    <3>2. o \in Unused /\ InsertOrder(o, spec, "draft")
      BY <3>1 DEF createOrder, Unused
    <3>3. QED
      BY <3>2, InsertsMoveStatuses DEF Goal
  <2>2. CASE ~ \E spec \in OrderSpecs : createOrder(o, spec)
    <3>1. \E m \in DOMAIN MOVES :
            CanMove(o, m) /\ (transition(o, m) \/ UNCHANGED orders)
      <4>1. {"submit", "approve", "claim", "start", "release", "begin_review",
             "request_changes", "retry", "complete", "fail", "cancel", "submit_proof"}
              \subseteq DOMAIN MOVES
        BY DEF MOVES
      <4>2. QED
        BY <1>2, <2>2, <4>1
           DEF OrderStep, submitOrder, approveOrder, claimOrder, startOrder, releaseOrder,
               beginReview, requestChanges, retryOrder, completeOrder, failOrder,
               cancelOrder, submitProof, PlainMove
    <3>2. QED
      BY <3>1, MovesMoveStatuses DEF Goal
  <2>3. QED
    BY <2>1, <2>2
<1>3. ASSUME NEW i \in InstanceIds, loseInstanceAndReplace(i)
      PROVE  Goal
  <2>1. CASE UNCHANGED orders
    BY <1>1, <2>1
  <2>2. CASE \E o \in Unused, spec \in {replaceSpec(s) : s \in {instances[i].slot}},
                status \in {"draft", "awaiting_brand_approval", "queued"} :
                  InsertOrder(o, spec, status)
    BY <2>2, InsertsMoveStatuses DEF Goal
  <2>3. QED
    BY <1>3, <2>1, <2>2 DEF loseInstanceAndReplace, spawnReplacementOrder, LossCutShort
<1>4. ASSUME \/ SlotStep /\ UNCHANGED <<orderVars, worldVars>>
             \/ \E p \in Pieces : approvePiece(p) \/ reopenPiece(p)
             \/ Tick
             \/ UNCHANGED workVars
      PROVE  orders' = orders
  BY <1>4 DEF approvePiece, reopenPiece, Tick, orderVars, workVars
<1>5. Goal
  BY <1>1, <1>2, <1>3, <1>4 DEF WorkNext
<1>6. QED
  BY <1>5 DEF Goal

LEMMA StatusMovesAreFates ==
  ASSUME NEW from \in OrderStatuses \cup {"absent"}, NEW to \in OrderStatuses \cup {"absent"},
         StatusMoves(from, to), fateOf(to) # fateOf(from)
  PROVE  \/ fateOf(from) = "absent" /\ fateOf(to) \in {"draft", "open"}
         \/ fateOf(from) = "draft" /\ fateOf(to) \in {"open", "dropped"}
         \/ fateOf(from) = "open" /\ fateOf(to) \in {"completed", "dropped"}
PROOF
<1>1. \/ from = "absent" /\ to \in {"draft", "awaiting_brand_approval", "queued"}
      \/ from \in {"draft", "awaiting_brand_approval"}
           /\ to \in {"draft", "awaiting_brand_approval", "queued", "cancelled"}
      \/ from \notin {"absent", "draft", "awaiting_brand_approval"} \cup TerminalStatuses
           /\ to \notin {"absent", "draft", "awaiting_brand_approval"}
  BY DEF StatusMoves, MOVES, retryTo, releaseFrom, cancelFrom, OrderStatuses, TerminalStatuses
<1>2. QED
  BY <1>1, FatesOfStatuses DEF OrderStatuses, TerminalStatuses

LEMMA FatesStart == WorkOrdersInit => Fate!FateInit
<1> DEFINE fates == [o \in Orders |-> fateOf(orders[o].status)]
<1> SUFFICES ASSUME WorkOrdersInit PROVE fates = [o \in Orders |-> "absent"]
  BY DEF Fate!FateInit
<1>1. \A o \in Orders : fateOf(orders[o].status) = "absent"
  BY FatesOfStatuses DEF WorkOrdersInit, AbsentOrder
<1>2. QED
  BY <1>1

\* A step that moves the statuses so only moves the fates as OrderFate allows.
LEMMA FatesStep ==
  ASSUME OrdersTyped, OrdersTyped',
         \A o \in Orders : StatusMoves(orders[o].status, orders'[o].status)
  PROVE  Fate!FateNext
<1> DEFINE fates == [o \in Orders |-> fateOf(orders[o].status)]
<1>1. \A o \in Orders : /\ orders[o].status \in OrderStatuses \cup {"absent"}
                        /\ orders'[o].status \in OrderStatuses \cup {"absent"}
  BY DEF OrdersTyped, AbsentOrder
<1>2. fates' \in [Orders -> Fate!Fates]
  BY <1>1, FatesOfStatuses DEF Fate!Fates
<1>3. ASSUME NEW o \in Orders, fateOf(orders'[o].status) # fateOf(orders[o].status)
      PROVE  fateOf(orders'[o].status) \in Fate!MayBecome(fateOf(orders[o].status))
  <2>1. \/ fateOf(orders[o].status) = "absent"
             /\ fateOf(orders'[o].status) \in {"draft", "open"}
        \/ fateOf(orders[o].status) = "draft"
             /\ fateOf(orders'[o].status) \in {"open", "dropped"}
        \/ fateOf(orders[o].status) = "open"
             /\ fateOf(orders'[o].status) \in {"completed", "dropped"}
    BY <1>1, <1>3, StatusMovesAreFates
  <2>2. QED
    BY <2>1, Zenon DEF Fate!MayBecome
<1>4. QED
  BY <1>2, <1>3 DEF Fate!FateNext

\* Work Orders keep what OrderFate promises of them (work-orders.ts:401-428):
\* nothing is worked on before its approval, and an order ends once.
THEOREM OrdersHaveOneFate == WorkSpec => ImplementsFate
PROOF
<1> DEFINE fates == [o \in Orders |-> fateOf(orders[o].status)]
<1>1. WorkOrdersInit => Fate!FateInit
  BY FatesStart
<1>2. WorkInv /\ WorkInv' /\ [WorkNext]_workVars => [Fate!FateNext]_fates
  <2> SUFFICES ASSUME WorkInv, WorkInv', [WorkNext]_workVars
               PROVE  Fate!FateNext
    OBVIOUS
  <2>1. OrdersTyped /\ OrdersTyped'
    BY TypedParts DEF WorkInv, OrdersTyped, WorkOrdersTypeOK
  <2>2. QED
    BY <2>1, EveryStepMovesStatuses, FatesStep
<1>3. QED
  BY <1>1, <1>2, WorkInvariant, PTL DEF WorkSpec, ImplementsFate, Fate!FateSpec
-----------------------------------------------------------------------------
(* The attempts of an order.  What the attempt in play holds follows from    *)
(* the status of its order, unless a handler on it was cut short; and an     *)
(* order is queued for another attempt only when this one is settled.        *)

Untouched(row) == row.proofs = <<>> /\ row.reviews = <<>>

Settled(row) ==
  Untouched(row) \/ (Len(row.proofs) = 1 /\ row.reviews = <<"changes_requested">>)

InPlay(status, row) ==
  /\ status \in {"claimed", "in_progress"} => Untouched(row)
  /\ status \in {"proof_submitted", "under_review"} =>
       Len(row.proofs) = 1 /\ row.reviews = <<>>
  /\ status \in {"queued", "changes_requested"} => Settled(row)
  /\ Len(row.proofs) <= 1 /\ Len(row.reviews) <= 1

NotYetQueued == {"absent", "draft", "awaiting_brand_approval"}

AttemptsInOrder(o) ==
  /\ orders[o].status \in NotYetQueued => attempts[o] = <<>>
  /\ \A n \in DOMAIN attempts[o] :
       IF n < currentAttempt(o)
         THEN Settled(attempts[o][n])
         ELSE InPlay(orders[o].status, attempts[o][n])

AttemptsInv == \A o \in Orders \ Fragile : AttemptsInOrder(o)

LEMMA LengthsOfRows ==
  ASSUME NEW row, Settled(row)
  PROVE  Len(row.proofs) <= 1 /\ Len(row.reviews) <= 1
<1>1. Len(<<>>) = 0 /\ Len(<<"changes_requested">>) = 1
  OBVIOUS
<1>2. Len(row.proofs) \in {0, 1} /\ Len(row.reviews) \in {0, 1}
  BY <1>1, Zenon DEF Settled, Untouched
<1>3. \A x \in {0, 1} : x <= 1
  OBVIOUS
<1>4. QED
  BY <1>2, <1>3, Zenon

\* The attempts of a typed table, by number.
LEMMA AttemptNumbers ==
  ASSUME AttemptsTyped, NEW o \in Orders
  PROVE  /\ currentAttempt(o) \in Nat
         /\ DOMAIN attempts[o] = 1 .. currentAttempt(o)
         /\ \A n \in DOMAIN attempts[o] : attempts[o][n] \in AttemptRow
<1>1. attempts[o] \in Seq(AttemptRow)
  BY DEF AttemptsTyped
<1>2. QED
  BY <1>1, LenProperties, ElementOfSeq DEF currentAttempt

\* A step that leaves the attempts alone and moves the status accordingly.
LEMMA StatusKeepsOrder ==
  ASSUME NEW o \in Orders, AttemptsInOrder(o), attempts'[o] = attempts[o],
         orders'[o].status \in NotYetQueued => orders[o].status \in NotYetQueued,
         \A row : InPlay(orders[o].status, row) => InPlay(orders'[o].status, row)
  PROVE  AttemptsInOrder(o)'
BY DEF AttemptsInOrder, currentAttempt

\* A step that revises the attempt in play and moves the status accordingly.
LEMMA RevisionKeepsOrder ==
  ASSUME AttemptsTyped, NEW o \in Orders, AttemptsInOrder(o), currentAttempt(o) # 0, Revised(o),
         orders'[o].status \notin NotYetQueued,
         InPlay(orders'[o].status, attempts'[o][currentAttempt(o)])
  PROVE  AttemptsInOrder(o)'
<1>1. /\ DOMAIN attempts'[o] = DOMAIN attempts[o]
      /\ currentAttempt(o)' = currentAttempt(o)
      /\ DOMAIN attempts[o] = 1 .. currentAttempt(o) /\ currentAttempt(o) \in Nat
  <2>1. attempts'[o] \in Seq(AttemptRow)
    BY DEF Revised, AttemptsTyped
  <2>2. DOMAIN attempts'[o] = 1 .. currentAttempt(o)'
    BY <2>1, LenProperties DEF currentAttempt
  <2>3. QED
    BY <2>2, AttemptNumbers DEF Revised
<1>2. ASSUME NEW n \in DOMAIN attempts'[o]
      PROVE  IF n < currentAttempt(o)' THEN Settled(attempts'[o][n])
             ELSE InPlay(orders'[o].status, attempts'[o][n])
  <2>1. CASE n < currentAttempt(o)
    BY <1>1, <1>2, <2>1 DEF Revised, AttemptsInOrder
  <2>2. CASE n = currentAttempt(o)
    BY <1>1, <2>2
  <2>3. QED
    BY <1>1, <2>1, <2>2
<1>3. QED
  BY <1>2 DEF AttemptsInOrder

\* What the attempt in play holds when a handler finds the order there.
LEMMA PlayOf ==
  ASSUME AttemptsTyped, NEW o \in Orders, AttemptsInOrder(o), currentAttempt(o) # 0
  PROVE  InPlay(orders[o].status, attempts[o][currentAttempt(o)])
BY CurrentRow, AttemptNumbers DEF AttemptsInOrder

\* The moves that write nothing beside the status.
LEMMA PlainMoveKeepsOrder ==
  ASSUME OrdersTyped, NEW o \in Orders, AttemptsInOrder(o),
         NEW m \in {"submit", "approve", "start", "release", "begin_review", "retry", "cancel"},
         CanMove(o, m), transition(o, m), UNCHANGED attempts
  PROVE  AttemptsInOrder(o)'
<1>1. orders[o].status \in MOVES[m].from /\ orders'[o].status = MOVES[m].to /\ m \in DOMAIN MOVES
  <2>1. m \in DOMAIN MOVES
    BY DEF MOVES
  <2>2. QED
    BY <2>1, MoveEffect DEF CanMove
<1>2. CASE m \in {"submit", "approve"}
  <2>1. attempts[o] = <<>>
    BY <1>1, <1>2 DEF MOVES, AttemptsInOrder, NotYetQueued
  <2>2. attempts'[o] = <<>>
    BY <2>1
  <2>3. QED
    BY <2>2 DEF AttemptsInOrder
<1>3. CASE m = "cancel"
  BY <1>1, <1>3, StatusKeepsOrder DEF MOVES, InPlay, NotYetQueued
<1>4. CASE m \in {"start", "begin_review", "retry"}
  BY <1>1, <1>4, StatusKeepsOrder DEF MOVES, InPlay, NotYetQueued, retryTo
<1>5. CASE m = "release"
  BY <1>1, <1>5, StatusKeepsOrder DEF MOVES, InPlay, NotYetQueued, releaseFrom, Settled
<1>6. QED
  BY <1>2, <1>3, <1>4, <1>5

LEMMA ClaimKeepsOrder ==
  ASSUME OrdersTyped, AttemptsTyped, NEW o \in Orders \ Fragile, AttemptsInOrder(o), claimOrder(o)
  PROVE  AttemptsInOrder(o)'
<1>1. orders[o].status = "queued" /\ orders'[o].status = "claimed"
  <2>1. CanMove(o, "claim") /\ transition(o, "claim") /\ "claim" \in DOMAIN MOVES
    BY DEF claimOrder, MOVES
  <2>2. QED
    BY <2>1, MoveEffect DEF CanMove, MOVES
<1>2. PICK day \in {clock.day, clock.day + 1} :
        attempts' = [attempts EXCEPT ![o] =
          Append(@, [day |-> day, proofs |-> <<>>, reviews |-> <<>>])]
  BY DEF claimOrder
<1> DEFINE opened == [day |-> day, proofs |-> <<>>, reviews |-> <<>>]
<1>3. /\ attempts[o] \in Seq(AttemptRow)
      /\ attempts'[o] = Append(attempts[o], opened)
  BY <1>2 DEF AttemptsTyped
<1>4. Untouched(opened)
  BY DEF Untouched
<1> HIDE DEF opened
<1>5. /\ currentAttempt(o)' = currentAttempt(o) + 1
      /\ currentAttempt(o) \in Nat
      /\ DOMAIN attempts'[o] = 1 .. currentAttempt(o) + 1
      /\ DOMAIN attempts[o] = 1 .. currentAttempt(o)
      /\ \A n \in 1 .. currentAttempt(o) : attempts'[o][n] = attempts[o][n]
      /\ attempts'[o][currentAttempt(o) + 1] = opened
  BY <1>3 DEF currentAttempt
<1>6. ASSUME NEW n \in DOMAIN attempts'[o]
      PROVE  IF n < currentAttempt(o)' THEN Settled(attempts'[o][n])
             ELSE InPlay("claimed", attempts'[o][n])
  <2>1. CASE n < currentAttempt(o)
    BY <1>5, <2>1 DEF AttemptsInOrder
  <2>2. CASE n = currentAttempt(o)
    <3>1. InPlay("queued", attempts[o][n])
      BY <1>1, <1>5, <1>6, <2>2 DEF AttemptsInOrder
    <3>2. QED
      BY <1>5, <1>6, <2>2, <3>1 DEF InPlay
  <2>3. CASE n = currentAttempt(o) + 1
    BY <1>4, <1>5, <2>3 DEF InPlay, Untouched
  <2>4. QED
    BY <1>5, <1>6, <2>1, <2>2, <2>3
<1>7. QED
  BY <1>1, <1>6 DEF AttemptsInOrder, NotYetQueued

LEMMA AppendToNone ==
  ASSUME NEW S, NEW s \in Seq(S), NEW e \in S, s = <<>>
  PROVE  Append(s, e) = <<e>> /\ Len(Append(s, e)) = 1
BY AppendProperties

LEMMA ProofKeepsOrder ==
  ASSUME OrdersTyped, AttemptsTyped, NEW o \in Orders \ Fragile, AttemptsInOrder(o),
         NEW body \in Bodies, submitProof(o, body)
  PROVE  AttemptsInOrder(o)'
<1>1. /\ CanMove(o, "submit_proof") /\ transition(o, "submit_proof") /\ "submit_proof" \in DOMAIN MOVES
      /\ currentAttempt(o) # 0 /\ InsertProof(o, body)
  BY DEF submitProof, CutShort, MOVES
<1>2. orders[o].status = "in_progress" /\ orders'[o].status = "proof_submitted"
  BY <1>1, MoveEffect DEF CanMove, MOVES
<1>3. /\ Revised(o)
      /\ proofOf(o)' = Append(proofOf(o), body) /\ reviewsOf(o)' = reviewsOf(o)
      /\ proofOf(o) \in Seq(Bodies)
  BY <1>1, ProofEffect
<1>4. proofOf(o) = <<>> /\ reviewsOf(o) = <<>>
  BY <1>1, <1>2, PlayOf DEF InPlay, Untouched, proofOf, reviewsOf
<1>5. Len(proofOf(o)') = 1 /\ reviewsOf(o)' = <<>>
  BY <1>3, <1>4, AppendToNone
<1>6. InPlay("proof_submitted", attempts'[o][currentAttempt(o)])
  BY <1>3, <1>5 DEF InPlay, proofOf, reviewsOf, Revised
<1>7. QED
  BY <1>1, <1>2, <1>3, <1>6, RevisionKeepsOrder DEF NotYetQueued

\* A first review leaves its decision as the only one.
LEMMA ReviewKeepsOrder ==
  ASSUME OrdersTyped, AttemptsTyped, NEW o \in Orders \ Fragile, AttemptsInOrder(o),
         NEW decision \in {"accepted", "changes_requested", "failed"},
         NEW m \in {"complete", "request_changes", "fail"},
         m = "request_changes" => decision = "changes_requested",
         CanMove(o, m), transition(o, m), currentAttempt(o) # 0, recordReview(o, decision),
         reviewsOf(o) = <<>>, m = "fail" \/ orders[o].status = "under_review"
  PROVE  AttemptsInOrder(o)'
<1>1. m \in DOMAIN MOVES
  BY DEF MOVES
<1>2. orders[o].status \in MOVES[m].from /\ orders'[o].status = MOVES[m].to
  BY <1>1, MoveEffect DEF CanMove
<1>3. /\ Revised(o)
      /\ proofOf(o)' = proofOf(o)
      /\ reviewsOf(o)' = Append(reviewsOf(o), decision)
      /\ reviewsOf(o) \in Seq({"accepted", "changes_requested", "failed"})
  BY ReviewEffect
<1>4. reviewsOf(o)' = <<decision>> /\ Len(reviewsOf(o)') = 1
  BY <1>3, AppendToNone
<1>5. InPlay(orders[o].status, attempts[o][currentAttempt(o)])
  BY PlayOf
<1>6. /\ Len(proofOf(o)) <= 1
      /\ orders[o].status = "under_review" => Len(proofOf(o)) = 1
  BY <1>5 DEF InPlay, proofOf
<1>7. \/ orders'[o].status \in {"completed", "failed"}
      \/ /\ orders'[o].status = "changes_requested" /\ decision = "changes_requested"
         /\ Len(proofOf(o)) = 1
  BY <1>2, <1>6 DEF MOVES
<1>8. InPlay(orders'[o].status, attempts'[o][currentAttempt(o)])
  BY <1>3, <1>4, <1>6, <1>7 DEF InPlay, Settled, proofOf, reviewsOf, Revised
<1>9. QED
  BY <1>3, <1>7, <1>8, RevisionKeepsOrder DEF NotYetQueued

LEMMA JudgementsKeepOrder ==
  ASSUME OrdersTyped, AttemptsTyped, NEW o \in Orders \ Fragile, AttemptsInOrder(o),
         requestChanges(o) \/ completeOrder(o) \/ failOrder(o)
  PROVE  AttemptsInOrder(o)'
<1>1. ASSUME orders[o].status = "under_review", currentAttempt(o) # 0
      PROVE  reviewsOf(o) = <<>>
  BY <1>1, PlayOf DEF InPlay, reviewsOf
<1>2. CASE requestChanges(o)
  <2>1. /\ CanMove(o, "request_changes") /\ transition(o, "request_changes")
        /\ currentAttempt(o) # 0 /\ recordReview(o, "changes_requested")
        /\ orders[o].status = "under_review"
    BY <1>2 DEF requestChanges, CutShort, CanMove, MOVES
  <2>2. QED
    BY <1>1, <2>1, ReviewKeepsOrder
<1>3. CASE completeOrder(o)
  <2>1. /\ CanMove(o, "complete") /\ transition(o, "complete")
        /\ currentAttempt(o) # 0 /\ recordReview(o, "accepted")
        /\ orders[o].status = "under_review"
    BY <1>3 DEF completeOrder, HasProof, CanMove, MOVES
  <2>2. QED
    BY <1>1, <2>1, ReviewKeepsOrder
<1>4. CASE failOrder(o)
  <2>1. CanMove(o, "fail") /\ transition(o, "fail") /\ "fail" \in DOMAIN MOVES
    BY <1>4 DEF failOrder, MOVES
  <2>2. CASE currentAttempt(o) # 0 /\ reviewsOf(o) = <<>> /\ recordReview(o, "failed")
    BY <2>1, <2>2, ReviewKeepsOrder
  <2>3. CASE UNCHANGED attempts
    <3>1. orders'[o].status = "failed"
      BY <2>1, MoveEffect DEF MOVES
    <3>2. \A row : InPlay(orders[o].status, row) => InPlay("failed", row)
      BY DEF InPlay
    <3>3. QED
      BY <2>3, <3>1, <3>2, StatusKeepsOrder DEF NotYetQueued
  <2>4. QED
    BY <1>4, <2>2, <2>3 DEF failOrder
<1>5. QED
  BY <1>2, <1>3, <1>4

LEMMA AttemptsStep ==
  ASSUME WorkInv, AttemptsInv, CalmEffect \/ \E q \in Orders : OrderStep(q) /\ OrderEffect(q),
         \A q \in Orders : StatusMoves(orders[q].status, orders'[q].status)
  PROVE  AttemptsInv'
<1> SUFFICES ASSUME NEW o \in Orders \ Fragile PROVE AttemptsInOrder(o)'
  BY DEF AttemptsInv
<1>1. OrdersTyped /\ AttemptsTyped /\ AttemptsInOrder(o)
  BY TypedParts DEF WorkInv, AttemptsInv
<1>2. CASE orders'[o] = orders[o] /\ attempts'[o] = attempts[o]
  BY <1>1, <1>2, StatusKeepsOrder
<1>3. CASE ~ Exists(o) /\ attempts'[o] = attempts[o]
  <2>1. attempts'[o] = <<>>
    BY <1>1, <1>3 DEF Exists, AttemptsInOrder, NotYetQueued
  <2>2. QED
    BY <2>1 DEF AttemptsInOrder
<1>4. CASE OrderStep(o)
  <2>1. CASE \E spec \in OrderSpecs : createOrder(o, spec)
    BY <1>3, <2>1 DEF createOrder
  <2>2. CASE \/ submitOrder(o) \/ approveOrder(o) \/ startOrder(o) \/ releaseOrder(o)
             \/ beginReview(o) \/ retryOrder(o) \/ cancelOrder(o)
    BY <1>1, <2>2, PlainMoveKeepsOrder
       DEF submitOrder, approveOrder, startOrder, releaseOrder, beginReview, retryOrder,
           cancelOrder, PlainMove
  <2>3. CASE requestChanges(o) \/ completeOrder(o) \/ failOrder(o)
    BY <1>1, <2>3, JudgementsKeepOrder
  <2>4. QED
    BY <1>1, <1>4, <2>1, <2>2, <2>3, ClaimKeepsOrder, ProofKeepsOrder DEF OrderStep
<1>5. CASE CalmEffect
  BY <1>2, <1>3, <1>5 DEF CalmEffect
<1>6. ASSUME NEW q \in Orders, OrderEffect(q), q # o
      PROVE  orders'[o] = orders[o] /\ attempts'[o] = attempts[o]
  BY <1>6 DEF OrderEffect
<1>7. QED
  BY <1>2, <1>4, <1>5, <1>6

LEMMA AttemptsStart == WorkOrdersInit => AttemptsInv
<1> SUFFICES ASSUME WorkOrdersInit, NEW o \in Orders PROVE AttemptsInOrder(o)
  BY DEF AttemptsInv
<1>1. attempts[o] = <<>>
  BY DEF WorkOrdersInit
<1>2. QED
  BY <1>1 DEF AttemptsInOrder

LEMMA AttemptsInvariant == WorkSpec => []AttemptsInv
<1>1. WorkOrdersInit => AttemptsInv
  BY AttemptsStart
<1>2. WorkInv /\ AttemptsInv /\ [WorkNext]_workVars => AttemptsInv'
  <2> SUFFICES ASSUME WorkInv, AttemptsInv, [WorkNext]_workVars PROVE AttemptsInv'
    OBVIOUS
  <2>1. OrdersTyped /\ WorkOrdersTypeOK
    BY TypedParts DEF WorkInv
  <2>2. QED
    BY <2>1, AttemptsStep, StepEffect, EveryStepMovesStatuses DEF QuietEffect
<1>3. QED
  BY <1>1, <1>2, WorkInvariant, PTL DEF WorkSpec

LEMMA OneProofFollows == WorkInv /\ AttemptsInv => OneProofPerAttempt
<1> SUFFICES ASSUME WorkInv, AttemptsInv, NEW o \in Orders \ Fragile,
                    NEW n \in DOMAIN attempts[o]
             PROVE  Len(attempts[o][n].proofs) <= 1 /\ Len(attempts[o][n].reviews) <= 1
  BY DEF OneProofPerAttempt
<1>1. CASE Settled(attempts[o][n])
  BY <1>1, LengthsOfRows
<1>2. CASE InPlay(orders[o].status, attempts[o][n])
  BY <1>2 DEF InPlay
<1>3. QED
  BY <1>1, <1>2 DEF AttemptsInv, AttemptsInOrder

\* One proof and one review per attempt, however often an order is released,
\* sent back and retried (work-orders.ts:570, 597).
THEOREM OneProofEach == WorkSpec => []OneProofPerAttempt
BY OneProofFollows, WorkInvariant, AttemptsInvariant, PTL

LEMMA SettledFollows == WorkInv /\ AttemptsInv => AttemptsAreSettled
<1> SUFFICES ASSUME WorkInv, AttemptsInv, NEW o \in Orders \ Fragile,
                    NEW n \in 1 .. currentAttempt(o) - 1
             PROVE  \/ attempts[o][n].proofs = <<>> /\ attempts[o][n].reviews = <<>>
                    \/ /\ attempts[o][n].proofs # <<>>
                       /\ attempts[o][n].reviews = <<"changes_requested">>
  BY DEF AttemptsAreSettled
<1>1. n \in DOMAIN attempts[o] /\ n < currentAttempt(o)
  BY TypedParts, AttemptNumbers DEF WorkInv
<1>2. Settled(attempts[o][n])
  BY <1>1 DEF AttemptsInv, AttemptsInOrder
<1>3. Len(<<>>) # 1
  OBVIOUS
<1>4. QED
  BY <1>2, <1>3, Zenon DEF Settled, Untouched

\* An attempt is left behind untouched or sent back, never with a proof that
\* nobody judged (work-orders.ts:556, 704).
THEOREM AttemptsSettle == WorkSpec => []AttemptsAreSettled
BY SettledFollows, WorkInvariant, AttemptsInvariant, PTL
-----------------------------------------------------------------------------
(* What is recorded of an attempt is only ever added to                     *)

HistoryKept(o) ==
  /\ Len(attempts[o]) <= Len(attempts'[o])
  /\ \A n \in DOMAIN attempts[o] :
       /\ attempts[o][n].day = attempts'[o][n].day
       /\ IsPrefix(attempts[o][n].proofs, attempts'[o][n].proofs)
       /\ IsPrefix(attempts[o][n].reviews, attempts'[o][n].reviews)

LEMMA PrefixOfItself ==
  ASSUME NEW S, NEW s \in Seq(S)
  PROVE  IsPrefix(s, s)
BY LenProperties DEF IsPrefix

LEMMA PrefixOfAppend ==
  ASSUME NEW S, NEW s \in Seq(S), NEW e \in S
  PROVE  IsPrefix(s, Append(s, e))
<1>1. /\ Append(s, e) \in Seq(S) /\ Len(Append(s, e)) = Len(s) + 1 /\ Len(s) \in Nat
      /\ \A i \in 1 .. Len(s) : Append(s, e)[i] = s[i]
  BY AppendProperties, LenProperties
<1>2. SubSeq(s, 1, Len(s)) = SubSeq(Append(s, e), 1, Len(s))
  BY <1>1
<1>3. QED
  BY <1>1, <1>2 DEF IsPrefix

LEMMA RowsKeepThemselves ==
  ASSUME AttemptsTyped, NEW o \in Orders, NEW n \in DOMAIN attempts[o]
  PROVE  /\ IsPrefix(attempts[o][n].proofs, attempts[o][n].proofs)
         /\ IsPrefix(attempts[o][n].reviews, attempts[o][n].reviews)
<1>1. attempts[o][n] \in AttemptRow
  BY AttemptNumbers
<1>2. QED
  BY <1>1, PrefixOfItself DEF AttemptRow

LEMMA SameHistory ==
  ASSUME AttemptsTyped, NEW o \in Orders, attempts'[o] = attempts[o]
  PROVE  HistoryKept(o)
<1>1. Len(attempts[o]) \in Nat
  BY AttemptNumbers DEF currentAttempt
<1>2. QED
  BY <1>1, RowsKeepThemselves DEF HistoryKept

\* A proof or a review is added to the attempt in play.
LEMMA RevisedHistory ==
  ASSUME AttemptsTyped, NEW o \in Orders, currentAttempt(o) # 0, Revised(o),
         IsPrefix(proofOf(o), proofOf(o)'), IsPrefix(reviewsOf(o), reviewsOf(o)')
  PROVE  HistoryKept(o)
<1>1. currentAttempt(o)' = currentAttempt(o) /\ currentAttempt(o) \in Nat
  BY AttemptNumbers DEF Revised
<1>2. ASSUME NEW n \in DOMAIN attempts[o]
      PROVE  /\ attempts[o][n].day = attempts'[o][n].day
             /\ IsPrefix(attempts[o][n].proofs, attempts'[o][n].proofs)
             /\ IsPrefix(attempts[o][n].reviews, attempts'[o][n].reviews)
  <2>1. CASE n = currentAttempt(o)
    BY <1>1, <1>2, <2>1 DEF Revised, proofOf, reviewsOf
  <2>2. CASE n # currentAttempt(o)
    BY <1>2, <2>2, RowsKeepThemselves DEF Revised
  <2>3. QED
    BY <2>1, <2>2
<1>3. QED
  BY <1>1, <1>2 DEF HistoryKept, currentAttempt

LEMMA ReviewKeepsHistory ==
  ASSUME AttemptsTyped, NEW o \in Orders, currentAttempt(o) # 0,
         NEW decision \in {"accepted", "changes_requested", "failed"}, recordReview(o, decision)
  PROVE  HistoryKept(o)
<1>1. /\ Revised(o)
      /\ proofOf(o)' = proofOf(o)
      /\ reviewsOf(o)' = Append(reviewsOf(o), decision)
      /\ reviewsOf(o) \in Seq({"accepted", "changes_requested", "failed"})
  BY ReviewEffect
<1>2. IsPrefix(reviewsOf(o), reviewsOf(o)')
  BY <1>1, PrefixOfAppend
<1>3. IsPrefix(proofOf(o), proofOf(o)')
  BY <1>1, CurrentRow, RowsKeepThemselves DEF proofOf
<1>4. QED
  BY <1>1, <1>2, <1>3, RevisedHistory

LEMMA ProofKeepsHistory ==
  ASSUME AttemptsTyped, NEW o \in Orders, currentAttempt(o) # 0, NEW body \in Bodies,
         InsertProof(o, body)
  PROVE  HistoryKept(o)
<1>1. /\ Revised(o)
      /\ proofOf(o)' = Append(proofOf(o), body)
      /\ reviewsOf(o)' = reviewsOf(o)
      /\ proofOf(o) \in Seq(Bodies)
  BY ProofEffect
<1>2. IsPrefix(proofOf(o), proofOf(o)')
  BY <1>1, PrefixOfAppend
<1>3. IsPrefix(reviewsOf(o), reviewsOf(o)')
  BY <1>1, CurrentRow, RowsKeepThemselves DEF reviewsOf
<1>4. QED
  BY <1>1, <1>2, <1>3, RevisedHistory

LEMMA ClaimKeepsHistory ==
  ASSUME AttemptsTyped, NEW o \in Orders,
         NEW day \in Nat,
         attempts' = [attempts EXCEPT ![o] =
           Append(@, [day |-> day, proofs |-> <<>>, reviews |-> <<>>])]
  PROVE  HistoryKept(o)
<1> DEFINE row == [day |-> day, proofs |-> <<>>, reviews |-> <<>>]
<1>1. row \in AttemptRow
  BY DEF AttemptRow
<1> HIDE DEF row
<1>2. attempts' = [attempts EXCEPT ![o] = Append(@, row)]
  BY DEF row
<1>3. /\ Len(attempts'[o]) = Len(attempts[o]) + 1
      /\ \A n \in DOMAIN attempts[o] : attempts'[o][n] = attempts[o][n]
  BY <1>1, <1>2, OpenEffect
<1>4. Len(attempts[o]) \in Nat
  BY AttemptNumbers DEF currentAttempt
<1>5. QED
  BY <1>3, <1>4, RowsKeepThemselves DEF HistoryKept

LEMMA OrderStepKeepsHistory ==
  ASSUME WorkOrdersTypeOK, NEW o \in Orders, OrderStep(o)
  PROVE  HistoryKept(o)
<1>1. AttemptsTyped /\ WorldTyped
  BY TypedParts
<1>2. CASE UNCHANGED attempts
  BY <1>1, <1>2, SameHistory
<1>3. CASE claimOrder(o)
  <2>1. PICK day : /\ StampedOn(day)
                   /\ attempts' = [attempts EXCEPT ![o] =
                        Append(@, [day |-> day, proofs |-> <<>>, reviews |-> <<>>])]
    BY <1>3 DEF claimOrder
  <2>2. QED
    BY <1>1, <2>1, StampEffect, ClaimKeepsHistory
<1>4. CASE \E body \in Bodies : submitProof(o, body)
  BY <1>1, <1>4, ProofKeepsHistory DEF submitProof
<1>5. CASE requestChanges(o) \/ completeOrder(o) \/ failOrder(o)
  BY <1>1, <1>2, <1>5, ReviewKeepsHistory DEF requestChanges, completeOrder, HasProof, failOrder
<1>6. QED
  BY <1>2, <1>3, <1>4, <1>5
     DEF OrderStep, createOrder, submitOrder, approveOrder, startOrder, releaseOrder,
         beginReview, retryOrder, cancelOrder, PlainMove

LEMMA HistoryStep ==
  ASSUME WorkInv, CalmEffect \/ \E q \in Orders : OrderStep(q) /\ OrderEffect(q)
  PROVE  \A o \in Orders : HistoryKept(o)
<1>1. WorkOrdersTypeOK /\ AttemptsTyped
  BY TypedParts DEF WorkInv
<1>2. SUFFICES ASSUME NEW o \in Orders PROVE HistoryKept(o)
  OBVIOUS
<1>3. CASE attempts'[o] = attempts[o]
  BY <1>1, <1>3, SameHistory
<1>4. CASE OrderStep(o)
  BY <1>1, <1>4, OrderStepKeepsHistory
<1>5. QED
  BY <1>3, <1>4 DEF CalmEffect, OrderEffect

\* A retry never rewrites the rejected try: no step takes back an attempt, the
\* day it was handed out on, a proof or a review, as the triggers on the three
\* tables demand (db.ts:321-349).
THEOREM HistoryIsAppendOnly == WorkSpec => AttemptHistoryIsKept
<1>1. WorkInv /\ [WorkNext]_workVars =>
        \A o \in Orders :
          /\ Len(attempts[o]) <= Len(attempts'[o])
          /\ \A n \in DOMAIN attempts[o] :
               /\ attempts[o][n].day = attempts'[o][n].day
               /\ IsPrefix(attempts[o][n].proofs, attempts'[o][n].proofs)
               /\ IsPrefix(attempts[o][n].reviews, attempts'[o][n].reviews)
  BY StepEffect, HistoryStep DEF WorkInv, QuietEffect, HistoryKept
<1>2. QED
  BY <1>1, WorkInvariant, PTL DEF WorkSpec, AttemptHistoryIsKept
-----------------------------------------------------------------------------
(* Losing an account queues its replacement                                 *)

\* No operation but a loss archives an account.
LEMMA SlotStepArchivesNone ==
  ASSUME AccountsTypeOK, SlotStep, NEW i \in DOMAIN instances
  PROVE  instances'[i].archived = instances[i].archived
<1>1. instances \in Seq(InstanceRow) /\ DOMAIN instances = 1 .. Len(instances)
  BY Rows DEF AccountsTypeOK
<1>2. CASE instances' = instances
  BY <1>2
<1>3. ASSUME NEW s \in Slots, addInstance(s)
      PROVE  instances'[i] = instances[i]
  <2>1. PICK row : instances' = Append(instances, row)
    BY <1>3 DEF addInstance
  <2>2. QED
    BY <1>1, <2>1
<1>4. ASSUME NEW s \in Slots, markReady(s)
      PROVE  instances'[i].archived = instances[i].archived
  <2>1. instances[i] \in InstanceRow
    BY Rows
  <2>2. QED
    BY <1>4, <2>1 DEF markReady, InstanceRow
<1>5. ASSUME NEW j \in InstanceIds, NEW item \in Items, recordReadiness(j, item)
      PROVE  instances'[i].archived = instances[i].archived
  <2>1. instances[i] \in InstanceRow
    BY Rows
  <2>2. QED
    BY <1>5, <2>1 DEF recordReadiness, Earn, InstanceRow
<1>6. QED
  BY <1>2, <1>3, <1>4, <1>5 DEF SlotStep, createSlot, pauseSlot, resumeSlot, activateSlot

LEMMA OrderStepArchivesNone ==
  ASSUME AccountsTypeOK, NEW o \in Orders, OrderStep(o), NEW i \in DOMAIN instances
  PROVE  instances'[i].archived = instances[i].archived
<1>1. CASE instances' = instances
  BY <1>1
<1>2. CASE completeOrder(o) /\ instances' # instances
  <2>1. earnReadiness(orders[o].spec)
    BY <1>2 DEF completeOrder
  <2>2. PICK j, item : Earn(j, item)
    BY <1>2, <2>1 DEF earnReadiness
  <2>3. instances[i] \in InstanceRow
    BY Rows
  <2>4. QED
    BY <2>2, <2>3 DEF Earn, InstanceRow
<1>3. QED
  BY <1>1, <1>2, OthersKeepAccounts DEF accountVars

LEMMA LossStep ==
  ASSUME WorkInv, [WorkNext]_workVars, NEW i \in DOMAIN instances,
         ~ instances[i].archived, instances'[i].archived,
         slotStatus[instances[i].slot] # "paused", instances[i].slot \notin Fragile
  PROVE  \E o \in Unused : orders'[o] = OrderRow(replaceSpec(instances[i].slot), "queued")
<1>1. AccountsTypeOK /\ OrdersTyped
  BY TypedParts DEF WorkInv
<1>2. instances[i] \in InstanceRow
  BY <1>1, Rows
<1>3. ~ (SlotStep \/ \E o \in Orders : OrderStep(o))
  BY <1>1, SlotStepArchivesNone, OrderStepArchivesNone
<1>4. instances' # instances
  OBVIOUS
<1>5. PICK j \in InstanceIds : loseInstanceAndReplace(j)
  BY <1>3, <1>4 DEF WorkNext, workVars, accountVars, approvePiece, reopenPiece, Tick
<1>6. j = i
  BY <1>1, <1>5 DEF loseInstanceAndReplace, Archive, AccountsTypeOK
<1>7. slotStatus[instances[i].slot] \notin Halted
  BY <1>1, <1>2 DEF AccountsTypeOK, SlotStatuses, Halted, InstanceRow
<1>8. \E o \in Unused : InsertOrder(o, replaceSpec(instances[i].slot), "queued")
  BY <1>5, <1>6, <1>7 DEF loseInstanceAndReplace, LossCutShort, spawnReplacementOrder
<1>9. QED
  BY <1>1, <1>8 DEF InsertOrder, Unused, OrdersTyped

\* A running slot that loses its account has one more queued replace order in
\* the very same step (work-orders.ts:787-791), whichever account it is and
\* whatever else is under way.
THEOREM LossQueuesWork == WorkSpec => LossQueuesReplacement
<1>1. WorkInv /\ [WorkNext]_workVars =>
        \A i \in DOMAIN instances :
          ~ instances[i].archived /\ instances'[i].archived
              /\ slotStatus[instances[i].slot] # "paused" /\ instances[i].slot \notin Fragile
            => \E o \in Unused : orders'[o] = OrderRow(replaceSpec(instances[i].slot), "queued")
  BY LossStep
<1>2. QED
  BY <1>1, WorkInvariant, PTL DEF WorkSpec, LossQueuesReplacement
=============================================================================
