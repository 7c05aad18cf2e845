----------------------------- MODULE Deliveries -----------------------------
(***************************************************************************)
(* Distribution deliveries (server/deliveries.ts): a Content Release binds *)
(* a piece to the export bundle it left in, a Delivery Target takes one    *)
(* release to the account of one slot, by hand, through a post Work Order. *)
(* Composed with WorkOrders, whose handlers move the order a delivery was  *)
(* released as while the delivery's own handlers move the delivery.        *)
(***************************************************************************)
EXTENDS WorkOrders

CONSTANTS
  MaxExports,     \* bound on the piece_exports rows
  Keys,           \* idempotency keys callers use
  Rules,          \* disclosure rules
  RequiredRules,  \* slot -> the platform's rule and the slot's own
  Links,          \* destination permalinks
  Mentions,       \* body -> the permalinks it holds as substrings
  MaxReleases     \* bound on the times one delivery is released

ASSUME DeliveriesAssumption ==
  /\ MaxExports \in Nat
  /\ RequiredRules \in [Slots -> SUBSET Rules]
  /\ Mentions \in [Bodies -> SUBSET Links]
  /\ MaxReleases \in Nat
  /\ "post" \in Actions
  /\ Null \notin Keys \cup Rules \cup Links \cup Orders

VARIABLES
  exports,        \* piece_exports in id order: the piece of each bundle
  exported,       \* the pieces whose status is exported or measured
  releases,       \* content_releases: the exports bound to a release
  targets,        \* delivery_targets by idempotency key
  disclosed       \* delivery_disclosures: the rules acknowledged per delivery

deliveryVars == <<exports, exported, releases, targets, disclosed>>
allVars == <<workVars, deliveryVars>>

-----------------------------------------------------------------------------
(* The tables.  A digest is the hash of a manifest that names its piece and *)
(* the instant it was written, so an export stands for its digest; rows of  *)
(* piece_exports are never updated, and a release stays intact.             *)

ReleasedStatuses == {"released_to_operator", "posting", "proof_submitted"}

Over == {"verified_posted", "cancelled"}

DeliveryStatuses == {"queued", "failed"} \cup ReleasedStatuses \cup Over

AbsentTarget == [status |-> "absent"]

TargetRow ==
  [status : DeliveryStatuses, release : 1 .. MaxExports, slot : Slots, instance : InstanceIds,
   order : Orders \cup {Null}, link : Links \cup {Null},
   cancelling : BOOLEAN, attemptCount : 0 .. MaxReleases]

DeliveriesTypeOK ==
  /\ WorkOrdersTypeOK
  /\ exports \in Seq(Pieces) /\ Len(exports) <= MaxExports
  /\ exported \subseteq Pieces
  /\ releases \subseteq DOMAIN exports
  /\ targets \in [Keys -> {AbsentTarget} \cup TargetRow]
  /\ disclosed \in [Keys -> SUBSET Rules]

DeliveriesInit ==
  /\ WorkOrdersInit
  /\ exports = <<>>
  /\ exported = {}
  /\ releases = {}
  /\ targets = [k \in Keys |-> AbsentTarget]
  /\ disclosed = [k \in Keys |-> {}]

TargetExists(k) == targets[k].status # "absent"

setTarget(k, row) == targets' = [targets EXCEPT ![k] = row]

setStatus(k, status) == targets' = [targets EXCEPT ![k].status = status]

-----------------------------------------------------------------------------
(* Releases and targets *)

\* The export bundle of an approved piece is written, then its status
\* (renderer.ts).  Two exports of one piece may be under way at once.
exportPiece(p) ==
  /\ p \in approvedPieces
  /\ Len(exports) < MaxExports
  /\ exports' = Append(exports, p)
  /\ \/ exported' = exported \cup {p}
     \/ p \in Fragile /\ UNCHANGED exported
  /\ UNCHANGED <<workVars, releases, targets, disclosed>>

latestExport(p) == Newest({e \in DOMAIN exports : exports[e] = p})

\* Bytes that were released already are the same release (found by digest).
releasePiece(p) ==
  /\ p \in exported
  /\ latestExport(p) # None
  /\ releases' = releases \cup {latestExport(p)}
  /\ UNCHANGED <<workVars, exports, exported, targets, disclosed>>

\* Faulty variant of KeyIsNew: the key is not looked up first.
KeyAssumedNew(k) == TRUE

KeyIsNew(k) == ~ TargetExists(k)

\* A key that already created a delivery answers with it and writes nothing.
createTarget(k, e, s) ==
  /\ KeyIsNew(k)
  /\ e \in releases
  /\ SlotExists(s)
  /\ currentInstance(s) # None
  /\ setTarget(k, [status |-> "queued", release |-> e, slot |-> s,
                   instance |-> currentInstance(s), order |-> Null, link |-> Null,
                   cancelling |-> FALSE, attemptCount |-> 0])
  /\ UNCHANGED <<workVars, exports, exported, releases, disclosed>>

acknowledgeDisclosure(k, rule) ==
  /\ TargetExists(k)
  /\ rule \in RequiredRules[targets[k].slot] \ disclosed[k]
  /\ disclosed' = [disclosed EXCEPT ![k] = @ \cup {rule}]
  /\ UNCHANGED <<workVars, exports, exported, releases, targets>>

-----------------------------------------------------------------------------
(* The state path *)

DisclosuresComplete(k) == RequiredRules[targets[k].slot] \subseteq disclosed[k]

postSpec(k) ==
  [kind |-> "post", slot |-> targets[k].slot, instance |-> targets[k].instance,
   piece |-> exports[targets[k].release], item |-> Null, capped |-> "post"]

Released(k, o) ==
  [targets[k] EXCEPT !.status = "released_to_operator", !.order = o, !.attemptCount = @ + 1]

\* The order is created, submitted and approved, and only then named on the
\* delivery; the process may die at each point before that.
releaseToOperator(k) ==
  /\ targets[k].status \in {"queued", "failed"}
  /\ ~ targets[k].cancelling
  /\ DisclosuresComplete(k)
  /\ targets[k].attemptCount < MaxReleases
  /\ \E o \in Unused :
       \/ /\ PieceIsApproved(postSpec(k))
          /\ InsertOrder(o, postSpec(k), "queued")
          /\ \/ setTarget(k, Released(k, o))
             \/ k \in Fragile /\ UNCHANGED targets
       \/ /\ k \in Fragile
          /\ \E status \in {"draft", "awaiting_brand_approval"} :
               InsertOrder(o, postSpec(k), status)
          /\ UNCHANGED targets
  /\ UNCHANGED <<accountVars, attempts, worldVars, exports, exported, releases, disclosed>>

\* Faulty variant of markPosting: the attempt is counted when it is begun, too.
markPostingCounted(k) ==
  /\ targets[k].status = "released_to_operator"
  /\ setTarget(k, [targets[k] EXCEPT !.status = "posting", !.attemptCount = @ + 1])
  /\ UNCHANGED <<workVars, exports, exported, releases, disclosed>>

markPosting(k) ==
  /\ targets[k].status = "released_to_operator"
  /\ setStatus(k, "posting")
  /\ UNCHANGED <<workVars, exports, exported, releases, disclosed>>

submitDeliveryProof(k, link) ==
  /\ targets[k].status \in {"posting", "released_to_operator"}
  /\ setTarget(k, [targets[k] EXCEPT !.status = "proof_submitted", !.link = link])
  /\ UNCHANGED <<workVars, exports, exported, releases, disclosed>>

\* Faulty variant of RecordsAgree: the order only needs some proof.
RecordsExist(k) ==
  LET o == targets[k].order IN o # Null => HasProof(o)

\* The latest proof on the order's attempt in play holds the permalink.
RecordsAgree(k) ==
  LET o == targets[k].order IN
  o # Null => HasProof(o) /\ targets[k].link \in Mentions[Last(proofOf(o))]

verifyPosted(k) ==
  /\ targets[k].status = "proof_submitted"
  /\ targets[k].link # Null
  /\ RecordsAgree(k)
  /\ setStatus(k, "verified_posted")
  /\ UNCHANGED <<workVars, exports, exported, releases, disclosed>>

\* Faulty variant of CanFail: a posted delivery can fail.
CanFailPosted(k) == targets[k].status # "cancelled"

CanFail(k) == targets[k].status \notin Over

failDelivery(k) ==
  /\ TargetExists(k)
  /\ CanFail(k)
  /\ setStatus(k, "failed")
  /\ UNCHANGED <<workVars, exports, exported, releases, disclosed>>

-----------------------------------------------------------------------------
(* Cancellation: a decision before the release, a request after it *)

CancelledInPlace == {"queued", "failed"}

cancelDelivery(k) ==
  /\ \/ /\ targets[k].status \in CancelledInPlace
        /\ setStatus(k, "cancelled")
     \/ /\ targets[k].status \in ReleasedStatuses
        /\ targets' = [targets EXCEPT ![k].cancelling = TRUE]
  /\ UNCHANGED <<workVars, exports, exported, releases, disclosed>>

acknowledgeCancellation(k) ==
  /\ TargetExists(k)
  /\ targets[k].cancelling
  /\ targets[k].status # "cancelled"
  /\ setStatus(k, "cancelled")
  /\ UNCHANGED <<workVars, exports, exported, releases, disclosed>>

DeliveryStep(k) ==
  \/ \E e \in 1 .. MaxExports, s \in Slots : createTarget(k, e, s)
  \/ \E rule \in Rules : acknowledgeDisclosure(k, rule)
  \/ releaseToOperator(k) \/ markPosting(k) \/ verifyPosted(k) \/ failDelivery(k)
  \/ cancelDelivery(k) \/ acknowledgeCancellation(k)
  \/ \E link \in Links : submitDeliveryProof(k, link)

\* An exported piece is not reopened (piece-lifecycle.ts:291).
WorkStep ==
  /\ WorkNext
  /\ exported \subseteq approvedPieces'
  /\ UNCHANGED deliveryVars

DeliveriesNext ==
  \/ WorkStep
  \/ \E p \in Pieces : exportPiece(p) \/ releasePiece(p)
  \/ \E k \in Keys : DeliveryStep(k)

DeliveriesSpec == DeliveriesInit /\ [][DeliveriesNext]_allVars

-----------------------------------------------------------------------------
(* Properties *)

\* "Two records that agree, or nothing" (deliveries.ts:653-656): a delivery
\* verified as posted has a permalink, and some attempt of the very order it
\* was last released as holds a proof with that permalink.
VerifiedOnTwoRecords ==
  \A k \in Keys : targets[k].status = "verified_posted" =>
    /\ targets[k].link \in Links
    /\ targets[k].order \in Orders
    /\ \E n \in DOMAIN attempts[targets[k].order] :
         \E body \in ToSet(attempts[targets[k].order][n].proofs) :
           targets[k].link \in Mentions[body]

outcomeOf(k) ==
  CASE targets[k].status \in Over \cup {"absent"} -> targets[k].status
    [] OTHER -> "open"

Outcome == INSTANCE DeliveryOutcome WITH outcome <- [k \in Keys |-> outcomeOf(k)]

\* A delivery that is over is over (deliveries.ts:692-697, 736): whatever is
\* released again, failed or requested, it is verified once, and afterwards
\* it is only ever cancelled.
ImplementsOutcome == Outcome!OutcomeSpec

\* attempt_count counts the orders a delivery was handed out as
\* (deliveries.ts:561): beside the orders requested by hand, the deliveries
\* that publish one bundle's piece on one account never count more releases
\* than there are post orders for it, and without a release cut short, which
\* leaves an order no delivery counts, exactly as many.
AttemptCountCountsOrders ==
  \A k \in Keys : TargetExists(k) /\ postSpec(k) \notin OrderSpecs =>
    LET same == {j \in Keys : TargetExists(j) /\ postSpec(j) = postSpec(k)}
        made == {o \in Orders : Exists(o) /\ orders[o].spec = postSpec(k)}
        counted == UNION {{j} \X (1 .. targets[j].attemptCount) : j \in same}
    IN IF same \cap Fragile = {}
         THEN Cardinality(made) = Cardinality(counted)
         ELSE Cardinality(made) >= Cardinality(counted)

\* A delivery names the order it was last handed out as (deliveries.ts:557-563):
\* while it is with a person, and once it is over, it keeps that order; and
\* whichever it names was made for the bundle, the slot and the account it was
\* paired with when it was created (deliveries.ts:376-380), and no other
\* delivery names it, not one that shares all three.
OrderIsItsOwn ==
  [][\A k \in Keys : TargetExists(k) =>
       /\ targets[k].status \in ReleasedStatuses \cup Over
            => targets'[k].order = targets[k].order
       /\ targets'[k].order # Null =>
            /\ orders'[targets'[k].order].spec = postSpec(k)
            /\ \A j \in Keys \ {k} :
                 TargetExists(j)' => targets'[j].order # targets'[k].order]_allVars

\* "What is published cannot be un-published from here" (deliveries.ts:736):
\* a verified delivery stays verified.
PublishedIsFinal ==
  [][\A k \in Keys :
       targets[k].status = "verified_posted" => targets'[k].status = "verified_posted"]_allVars
=============================================================================
