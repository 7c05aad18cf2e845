----------------------------- MODULE WorkOrders -----------------------------
(***************************************************************************)
(* Work Orders (server/work-orders.ts) and the release gate they are       *)
(* claimed through (server/release-gate.ts), composed with the slots and   *)
(* instances of Accounts: a claim reads the slot, a completion earns       *)
(* readiness for an instance, a loss queues its replacement.               *)
(*                                                                         *)
(* As in Accounts a handler is one action, and on a Fragile order or slot  *)
(* also the prefixes of its statements after which the process may die.    *)
(***************************************************************************)
EXTENDS Accounts, SequencesExt

CONSTANTS
  Orders,         \* the work_orders rows that may be created
  PieceIds,       \* the piece ids a request may name
  Pieces,         \* the pieces that exist
  Actions,        \* capped actions: "post", "comment", ...
  Bodies,         \* what a person may submit as proof
  Null,           \* a column left NULL
  OrderSpecs,     \* the requests createOrder is called with
  DailyCaps,      \* account_slots.daily_caps: slot -> action -> perDay, or Null
  Windows,        \* account_slots.allowed_windows: slot -> set of <<start, end>>
  MinutesPerDay,  \* the length of a day, in the model's minutes
  MaxDays,        \* bound on the calendar
  MaxAttempts     \* bound on the attempts of one order

Kinds == {"provision", "warmup", "post", "comment", "measure", "replace"}

OrderSpec ==
  [kind : Kinds, slot : Slots \cup {Null}, instance : {None} \cup InstanceIds,
   piece : PieceIds \cup {Null}, item : Items \cup {Null}, capped : Actions \cup {Null}]

ASSUME WorkOrdersAssumption ==
  /\ Pieces \subseteq PieceIds
  /\ Null \notin Slots \cup PieceIds \cup Items \cup Actions \cup Bodies
  /\ IsFiniteSet(Orders)
  /\ OrderSpecs \subseteq OrderSpec
  /\ DailyCaps \in [Slots -> [Actions -> Nat \cup {Null}]]
  /\ MinutesPerDay \in Nat \ {0}
  /\ Windows \in [Slots -> SUBSET ((0 .. MinutesPerDay - 1) \X (0 .. MinutesPerDay - 1))]
  /\ MaxDays \in Nat
  /\ MaxAttempts \in Nat

VARIABLES
  orders,         \* work_orders
  attempts,       \* per order, its attempts with their proofs and reviews
  clock,          \* the local wall clock
  approvedPieces  \* the pieces at or past approval (APPROVED_STATUSES)

orderVars == <<orders, attempts>>
worldVars == <<clock, approvedPieces>>
workVars == <<accountVars, orderVars, worldVars>>

-----------------------------------------------------------------------------
(* The status machine *)

TerminalStatuses == {"completed", "cancelled", "failed"}

OrderStatuses == TerminalStatuses \cup
  {"draft", "awaiting_brand_approval", "queued", "claimed", "in_progress",
   "proof_submitted", "under_review", "changes_requested"}

\* Faulty variant of retryTo: a retry goes straight back to the person.
retryToClaimed == "claimed"

retryTo == "queued"

\* Faulty variant of releaseFrom: a proof can be released with its order.
releaseFromProof == {"claimed", "in_progress", "proof_submitted"}

releaseFrom == {"claimed", "in_progress"}

\* Faulty variant of cancelFrom: an order that is over can be cancelled.
cancelFromAny == OrderStatuses

cancelFrom == OrderStatuses \ TerminalStatuses

MOVES ==
  [submit |-> [from |-> {"draft"}, to |-> "awaiting_brand_approval"],
   approve |-> [from |-> {"awaiting_brand_approval"}, to |-> "queued"],
   claim |-> [from |-> {"queued"}, to |-> "claimed"],
   start |-> [from |-> {"claimed"}, to |-> "in_progress"],
   submit_proof |-> [from |-> {"in_progress"}, to |-> "proof_submitted"],
   begin_review |-> [from |-> {"proof_submitted"}, to |-> "under_review"],
   complete |-> [from |-> {"under_review"}, to |-> "completed"],
   request_changes |-> [from |-> {"under_review"}, to |-> "changes_requested"],
   retry |-> [from |-> {"changes_requested"}, to |-> retryTo],
   release |-> [from |-> releaseFrom, to |-> "queued"],
   fail |-> [from |-> {"in_progress", "under_review"}, to |-> "failed"],
   cancel |-> [from |-> cancelFrom, to |-> "cancelled"]]

-----------------------------------------------------------------------------
(* The tables *)

OrderRow(spec, status) == [spec |-> spec, status |-> status]

AbsentOrder == [spec |-> Null, status |-> "absent"]

AttemptRow ==
  [day : Nat, proofs : Seq(Bodies),
   reviews : Seq({"accepted", "changes_requested", "failed"})]

WorkOrdersTypeOK ==
  /\ AccountsTypeOK
  /\ orders \in [Orders -> {AbsentOrder} \cup [spec : OrderSpec, status : OrderStatuses]]
  /\ attempts \in [Orders -> Seq(AttemptRow)]
  /\ clock \in [day : Nat, minute : 0 .. MinutesPerDay - 1]
  /\ approvedPieces \subseteq Pieces

WorkOrdersInit ==
  /\ AccountsInit
  /\ orders = [o \in Orders |-> AbsentOrder]
  /\ attempts = [o \in Orders |-> <<>>]
  /\ clock = [day |-> 1, minute |-> 0]
  /\ approvedPieces = {}

Exists(o) == orders[o].status # "absent"

Unused == {o \in Orders : ~ Exists(o)}

\* attemptNo of the attempt in play, the last one opened; 0 when none is.
currentAttempt(o) == Len(attempts[o])

proofOf(o) == attempts[o][currentAttempt(o)].proofs

CanMove(o, move) == orders[o].status \in MOVES[move].from

transition(o, move) == orders' = [orders EXCEPT ![o].status = MOVES[move].to]

-----------------------------------------------------------------------------
(* The release gate *)

\* Windows that end before they start are dropped; no window is no limit.
windowsOf(s) == {w \in Windows[s] : w[1] < w[2]}

insideWindow(s) ==
  \/ windowsOf(s) = {}
  \/ \E w \in windowsOf(s) : w[1] <= clock.minute /\ clock.minute < w[2]

\* Orders of the slot that were handed out for this action on this day.
releasedOn(s, action, day) ==
  {o \in Orders : /\ Exists(o)
                  /\ orders[o].spec.slot = s
                  /\ orders[o].spec.capped = action
                  /\ \E n \in DOMAIN attempts[o] : attempts[o][n].day = day}

CapSpent(s, action) ==
  /\ action # Null
  /\ DailyCaps[s][action] # Null
  /\ Cardinality(releasedOn(s, action, clock.day)) >= DailyCaps[s][action]

needsInstance(kind) == kind \notin {"provision", "replace"}

\* Faulty variant of releaseGate: the kill switch is not looked at.
releaseGateNoSwitch(spec) ==
  spec.slot # Null =>
    /\ needsInstance(spec.kind) => currentInstance(spec.slot) # None
    /\ insideWindow(spec.slot)
    /\ ~ CapSpent(spec.slot, spec.capped)

releaseGate(spec) ==
  spec.slot # Null =>
    /\ refuseIfHalted(spec.slot)
    /\ needsInstance(spec.kind) => currentInstance(spec.slot) # None
    /\ insideWindow(spec.slot)
    /\ ~ CapSpent(spec.slot, spec.capped)

-----------------------------------------------------------------------------
(* Creating and moving orders *)

\* What createOrder accepts: rows it names exist, and an item has an owner.
CreateAccepts(spec) ==
  /\ spec.slot # Null => SlotExists(spec.slot)
  /\ spec.instance # None => spec.instance \in DOMAIN instances
  /\ spec.piece # Null => spec.piece \in Pieces
  /\ spec.item # Null => spec.instance # None \/ spec.slot # Null

InsertOrder(o, spec, status) ==
  orders' = [orders EXCEPT ![o] = OrderRow(spec, status)]

createOrder(o, spec) ==
  /\ ~ Exists(o)
  /\ CreateAccepts(spec)
  /\ InsertOrder(o, spec, "draft")
  /\ UNCHANGED <<accountVars, attempts, worldVars>>

\* The moves that write the status and nothing else.
PlainMove(o, move) ==
  /\ CanMove(o, move)
  /\ transition(o, move)
  /\ UNCHANGED <<accountVars, attempts, worldVars>>

submitOrder(o) == PlainMove(o, "submit")
startOrder(o) == PlainMove(o, "start")
releaseOrder(o) == PlainMove(o, "release")
beginReview(o) == PlainMove(o, "begin_review")
retryOrder(o) == PlainMove(o, "retry")
cancelOrder(o) == PlainMove(o, "cancel")

PieceIsApproved(spec) == spec.piece # Null => spec.piece \in approvedPieces

approveOrder(o) ==
  /\ PlainMove(o, "approve")
  /\ PieceIsApproved(orders[o].spec)

AtMidnight == [day |-> clock.day + 1, minute |-> 0]

\* Faulty variant of StampedOn: the stamp is of a time zone ahead of the clock.
StampedOnAhead(day) ==
  /\ \/ day = clock.day
     \/ /\ clock.minute = MinutesPerDay - 1
        /\ clock.day < MaxDays
        /\ day = clock.day + 1
  /\ UNCHANGED clock

\* The gate reads the caller's clock and the INSERT stamps the attempt with
\* the database's: midnight may fall between the two.  No window holds the
\* last minute of a day, so this happens to slots without a usable window.
StampedOn(day) ==
  \/ day = clock.day /\ UNCHANGED clock
  \/ /\ clock.minute = MinutesPerDay - 1
     /\ clock.day < MaxDays
     /\ clock' = AtMidnight
     /\ day = clock.day + 1

claimOrder(o) ==
  /\ CanMove(o, "claim")
  /\ releaseGate(orders[o].spec)
  /\ currentAttempt(o) < MaxAttempts
  /\ \E day \in {clock.day, clock.day + 1} :
       /\ StampedOn(day)
       /\ attempts' = [attempts EXCEPT ![o] =
            Append(@, [day |-> day, proofs |-> <<>>, reviews |-> <<>>])]
  /\ \/ transition(o, "claim")
     \/ o \in Fragile /\ UNCHANGED orders
  /\ UNCHANGED <<accountVars, approvedPieces>>

\* A handler on the attempt in play is cut short at most once (a bound).
CutShort(o, rows) == o \in Fragile /\ rows = <<>>

InsertProof(o, body) ==
  attempts' = [attempts EXCEPT ![o][currentAttempt(o)].proofs = Append(@, body)]

submitProof(o, body) ==
  /\ CanMove(o, "submit_proof")
  /\ currentAttempt(o) # 0
  /\ InsertProof(o, body)
  /\ \/ transition(o, "submit_proof")
     \/ CutShort(o, proofOf(o)) /\ UNCHANGED orders
  /\ UNCHANGED <<accountVars, worldVars>>

reviewsOf(o) == attempts[o][currentAttempt(o)].reviews

\* Faulty variant of recordReview: the review lands on the first attempt.
recordReviewFirst(o, decision) ==
  attempts' = [attempts EXCEPT ![o][1].reviews = Append(@, decision)]

recordReview(o, decision) ==
  attempts' = [attempts EXCEPT ![o][currentAttempt(o)].reviews = Append(@, decision)]

requestChanges(o) ==
  /\ CanMove(o, "request_changes")
  /\ currentAttempt(o) # 0
  /\ recordReview(o, "changes_requested")
  /\ \/ transition(o, "request_changes")
     \/ CutShort(o, reviewsOf(o)) /\ UNCHANGED orders
  /\ UNCHANGED <<accountVars, worldVars>>

\* An attempt that already holds a review keeps it.
failOrder(o) ==
  /\ CanMove(o, "fail")
  /\ \/ /\ currentAttempt(o) # 0 /\ reviewsOf(o) = <<>>
        /\ recordReview(o, "failed")
        /\ \/ transition(o, "fail")
           \/ o \in Fragile /\ UNCHANGED orders
     \/ /\ currentAttempt(o) = 0 \/ reviewsOf(o) # <<>>
        /\ transition(o, "fail")
        /\ UNCHANGED attempts
  /\ UNCHANGED <<accountVars, worldVars>>

\* The instance earnReadiness writes to: the one named, or the slot's own.
EarnsFor(spec) ==
  IF spec.instance # None THEN spec.instance
  ELSE IF spec.slot # Null THEN currentInstance(spec.slot) ELSE None

\* Faulty variant of earnReadiness: the evidence is written unasked.
earnReadinessAnyway(spec) ==
  IF spec.item # Null /\ EarnsFor(spec) # None
    THEN Earn(EarnsFor(spec), spec.item)
    ELSE UNCHANGED instances

\* A refused evidence is reported and the completion stands.
earnReadiness(spec) ==
  IF spec.item # Null /\ EarnsFor(spec) # None /\ CanEarn(EarnsFor(spec), spec.item)
    THEN Earn(EarnsFor(spec), spec.item)
    ELSE UNCHANGED instances

HasProof(o) == currentAttempt(o) # 0 /\ proofOf(o) # <<>>

\* A measure order is completed inside the transaction of
\* completeMeasureOrder, which the process cannot die in the middle of.
completeOrder(o) ==
  /\ CanMove(o, "complete")
  /\ HasProof(o)
  /\ recordReview(o, "accepted")
  /\ \/ transition(o, "complete") /\ earnReadiness(orders[o].spec)
     \/ /\ o \in Fragile /\ orders[o].spec.kind # "measure"
        /\ \/ transition(o, "complete")
           \/ reviewsOf(o) = <<>> /\ UNCHANGED orders
        /\ UNCHANGED instances
  /\ UNCHANGED <<slotStatus, worldVars>>

-----------------------------------------------------------------------------
(* Losing an instance and queueing its replacement *)

replaceSpec(s) ==
  [kind |-> "replace", slot |-> s, instance |-> None, piece |-> Null,
   item |-> Null, capped |-> Null]

\* Faulty variant of spawnReplacementOrder: the order is left a draft.
spawnReplacementDraft(s) ==
  IF slotStatus[s] \in Halted
    THEN UNCHANGED orders
    ELSE \E o \in Unused : InsertOrder(o, replaceSpec(s), "draft")

\* Created, submitted and approved at once; a halted slot spawns nothing.
spawnReplacementOrder(s) ==
  IF slotStatus[s] \in Halted
    THEN UNCHANGED orders
    ELSE \E o \in Unused : InsertOrder(o, replaceSpec(s), "queued")

\* What a loss leaves behind when the process dies inside it.
LossCutShort(s) ==
  /\ s \in Fragile
  /\ slotStatus[s] \notin Halted
  /\ \/ UNCHANGED <<slotStatus, orders>>
     \/ SetSlot(s, "replacing") /\ UNCHANGED orders
     \/ /\ SetSlot(s, "replacing")
        /\ \E o \in Unused, status \in {"draft", "awaiting_brand_approval"} :
             InsertOrder(o, replaceSpec(s), status)

loseInstanceAndReplace(i) ==
  /\ i \in DOMAIN instances
  /\ ~ instances[i].archived
  /\ Archive(i)
  /\ LET s == instances[i].slot
     IN \/ SetSlot(s, StatusAfterLoss(s)) /\ spawnReplacementOrder(s)
        \/ LossCutShort(s)
  /\ UNCHANGED <<attempts, worldVars>>

-----------------------------------------------------------------------------
(* The world around the orders *)

Tick ==
  /\ \/ /\ clock.minute < MinutesPerDay - 1
        /\ clock' = [clock EXCEPT !.minute = @ + 1]
     \/ /\ clock.minute = MinutesPerDay - 1
        /\ clock.day < MaxDays
        /\ clock' = AtMidnight
  /\ UNCHANGED <<accountVars, orderVars, approvedPieces>>

approvePiece(p) ==
  /\ p \notin approvedPieces
  /\ approvedPieces' = approvedPieces \cup {p}
  /\ UNCHANGED <<accountVars, orderVars, clock>>

reopenPiece(p) ==
  /\ p \in approvedPieces
  /\ approvedPieces' = approvedPieces \ {p}
  /\ UNCHANGED <<accountVars, orderVars, clock>>

OrderStep(o) ==
  \/ \E spec \in OrderSpecs : createOrder(o, spec)
  \/ submitOrder(o) \/ approveOrder(o) \/ claimOrder(o) \/ startOrder(o)
  \/ releaseOrder(o) \/ beginReview(o) \/ requestChanges(o) \/ retryOrder(o)
  \/ completeOrder(o) \/ failOrder(o) \/ cancelOrder(o)
  \/ \E body \in Bodies : submitProof(o, body)

WorkNext ==
  \/ SlotStep /\ UNCHANGED <<orderVars, worldVars>>
  \/ \E i \in InstanceIds : loseInstanceAndReplace(i)
  \/ \E o \in Orders : OrderStep(o)
  \/ \E p \in Pieces : approvePiece(p) \/ reopenPiece(p)
  \/ Tick

WorkSpec == WorkOrdersInit /\ [][WorkNext]_workVars

-----------------------------------------------------------------------------
(* Properties *)

\* Through all of this the slots and instances only ever do what Accounts
\* says: evidence is earned through recordReadiness and no order revives,
\* replaces or archives an account.
ImplementsAccounts == AccountsSpec

\* An order is a draft until it is approved, then open through every claim,
\* review and retry, and over once.
fateOf(status) ==
  CASE status = "absent" -> "absent"
    [] status \in {"draft", "awaiting_brand_approval"} -> "draft"
    [] status = "completed" -> "completed"
    [] status \in {"cancelled", "failed"} -> "dropped"
    [] OTHER -> "open"

Fate == INSTANCE OrderFate WITH fate <- [o \in Orders |-> fateOf(orders[o].status)]

\* An order is worked on after its approval only, and ends once
\* (work-orders.ts:401-428): none of the moves, nor the replacement a loss
\* queues, revives an order that is over or takes one back to a draft.
ImplementsFate == Fate!FateSpec

\* There is no path to completed that does not go through a recorded proof
\* on the attempt being completed (work-orders.ts:628-632): the attempt in
\* play holds a proof and its last review accepted it, wherever the process
\* died on the way.
CompletedOnProof ==
  \A o \in Orders : orders[o].status = "completed" =>
    /\ HasProof(o)
    /\ reviewsOf(o) # <<>> /\ Last(reviewsOf(o)) = "accepted"

\* One proof and one review per attempt, "and the status machine is what
\* guarantees it" (work-orders.ts:570, 597), as long as it is not left
\* between the proof and the move.
OneProofPerAttempt ==
  \A o \in Orders \ Fragile : \A n \in DOMAIN attempts[o] :
    Len(attempts[o][n].proofs) <= 1 /\ Len(attempts[o][n].reviews) <= 1

\* A new attempt opens only when the one before it was released without a
\* proof or its proof was sent back in a review (work-orders.ts:556, 704): no
\* attempt is abandoned with a proof nobody judged.
AttemptsAreSettled ==
  \A o \in Orders \ Fragile : \A n \in 1 .. currentAttempt(o) - 1 :
    \/ attempts[o][n].proofs = <<>> /\ attempts[o][n].reviews = <<>>
    \/ attempts[o][n].proofs # <<>> /\ attempts[o][n].reviews = <<"changes_requested">>

\* On no day are more orders of a slot handed out for a capped action than
\* its daily cap (release-gate.ts:104-126), over claims, releases, retries
\* and claims that straddle midnight: those are checked against the cap of
\* the day that ends and count against the day that begins.
DailyCapHolds ==
  \A s \in Slots, action \in Actions : DailyCaps[s][action] # Null =>
    \A day \in 1 .. MaxDays + 1 :
      Cardinality(releasedOn(s, action, day)) <= DailyCaps[s][action]

\* Attempts and what they produced are append-only (work_order_attempts,
\* _proofs, _reviews): a retry never rewrites the rejected try.
AttemptHistoryIsKept ==
  [][\A o \in Orders :
       /\ Len(attempts[o]) <= Len(attempts'[o])
       /\ \A n \in DOMAIN attempts[o] :
            /\ attempts[o][n].day = attempts'[o][n].day
            /\ IsPrefix(attempts[o][n].proofs, attempts'[o][n].proofs)
            /\ IsPrefix(attempts[o][n].reviews, attempts'[o][n].reviews)]_workVars

\* Losing an instance and queueing the work its loss created are one act
\* (work-orders.ts:787-791): a running slot that loses its account has one
\* more queued replace order in the very same step.
LossQueuesReplacement ==
  [][\A i \in DOMAIN instances :
       LET s == instances[i].slot
           lost == ~ instances[i].archived /\ instances'[i].archived
       IN lost /\ slotStatus[s] # "paused" /\ s \notin Fragile
            => \E o \in Unused : orders'[o] = OrderRow(replaceSpec(s), "queued")]_workVars

\* While a slot is paused nothing of it is handed out and nothing is queued
\* on its behalf (accounts.ts:606, release-gate.ts:139, work-orders.ts:815).
PausedSlotHandsOutNothing ==
  [][\A o \in Orders, s \in Slots :
       slotStatus[s] = "paused" /\ orders'[o].status # "absent" /\ orders'[o].spec.slot = s
         => /\ Len(attempts'[o]) = Len(attempts[o])
            /\ orders'[o].status = "queued" => Exists(o)]_workVars
=============================================================================
