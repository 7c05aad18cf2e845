# Distribution: a TLA+ model of its server

Distribution takes a piece of content from a draft to a post that a person
published on an account, and keeps the evidence for each step.  Its server
(`src/server`) is one Node process over one SQLite file.  This directory holds
TLA+ modules that model the server's state and operations, TLC configurations
that check them on small instances, and TLAPS proofs of what holds on every
instance.

    tlc -workers 2 -config MCAccounts.cfg MCAccounts.tla
    tlapm AccountsProofs.tla

## 1. The system

### How it runs

* Handlers of `better-sqlite3` are synchronous: between two `await`s nothing
  else runs in the process.  Most operations have no `await` at all and are one
  atomic step with respect to each other.
* Most handlers are a sequence of statements, each of which commits by itself; a
  process that dies between two of them leaves the first in the file.  Seven pieces
  of code are transactions, and each is one action or one part of an action: a
  piece with its first version (`pieces.ts:281`), a batch of edits with its version
  (`piece-edits.ts:251`), an order's status with its transition log
  (`work-orders.ts:448`), an experiment with its observation points
  (`experiments.ts:249`), a conclusion with the end of its experiment
  (`decisions.ts:329`), the completion of a measure order with its readings
  (`snapshots.ts:522`), and the first operator with the passkey (`auth.ts:181`).
* The exceptions to synchrony are where the process waits for something else:
  a Connected Project over HTTP (`gateway.ts`, `project-changes.ts`), the
  browser that renders a slide (`renderer.ts`), the verification of a passkey
  (`auth.ts`), the loading of the library behind the vault (`secrets.ts`, and
  through it `projects.ts` and `host-auth.ts`).
* Sign-in challenges and gateway sessions live in memory and are lost on a
  restart.  Operator sessions, clients and authorization codes are rows.

### Components

| component | state it keeps | operations | meets |
|---|---|---|---|
| Account Slots and Instances (`accounts.ts`) | `account_slots.status`, `account_instances`, `readiness_evidence` | create, fill, record readiness, mark ready, lose, pause, resume, activate | Work Orders earn its readiness and report its losses; the gate reads it |
| Work Orders (`work-orders.ts`) | `work_orders`, `_attempts`, `_proofs`, `_reviews` | create, submit, approve, claim, start, release, submit proof, review, complete, request changes, retry, fail, cancel, lose-and-replace | claims pass the gate, posts need an approved piece |
| Release gate (`release-gate.ts`) | none; reads slots, attempts and the clock | the verdict of a claim | Work Orders |
| Content Releases and Deliveries (`deliveries.ts`) | `content_releases`, `delivery_targets`, `delivery_disclosures` | release, create target, acknowledge disclosure, release to the Operator, posting, proof, verify, fail, cancel, acknowledge cancellation | creates post orders, reads their proofs, reads exports |
| Creative Pieces (`pieces.ts`, `piece-edits.ts`, `piece-lifecycle.ts`) | `pieces`, `piece_versions` | create, edit, restore, lifecycle moves | checks against the kit, exported by the renderer |
| Brand Kit (`brand-kit.ts`) | `brand_kits` | update | flags pinned pieces |
| Renderer (`renderer.ts`) | `piece_exports`, files | export | awaits a rendering per slide |
| Gateway (`gateway.ts`) | sessions in memory, pinned Project Snapshots | select project, get snapshot | reads Connected Projects |
| Two-phase writes (`project-changes.ts`) | `project_changes`, `write_receipts` | prepare, decide, apply | over a session; writes Connected Projects |
| Experiments (`experiments.ts`) | `experiments`, `experiment_observations`, `experiment_deliveries`, `observation_orders` | declare, stop, enroll, verify and observe, sweep, measure ad hoc | verifies deliveries, creates measure orders |
| Metric Snapshots (`snapshots.ts`) | `metric_snapshots` | record readings, complete a measure order, read a funnel | completes measure orders, awaits a Connected Project |
| Decisions (`decisions.ts`) | `decision_records` | conclude | reads enrolments, deliveries and readings; ends experiments |
| Host Connections (`host-auth.ts`) | `oauth_codes`, `host_connections` with token hashes | authorize, mint, exchange, refresh, revoke, verify | the vault |
| Connected Projects, secrets (`projects.ts`, `secrets.ts`) | `projects`, `secrets` | register, rotate, run conformance; store, rotate, resolve, revoke | the vault, the gateway |
| Conformance (`conformance.ts`, `project-domain-sdk.ts`) | none; a report | the suite of checks | a project's domain, over HTTP |
| Operator sign-in (`auth.ts`, `onboard.ts`) | `operators`, `operator_sessions`; challenges in memory | register, sign in, recover, sign out | every operator route |
| Brand checks (`checks.ts`) | none; reads a document and a kit | `check_brand`, unsupported claims | stands before an approval |
| Slide markup (`render/piece-slide.tsx`) | none; lays out and paints a slide | | what the renderer photographs and the checks foresee |
| Assets (`assets.ts`) | `assets`, `pieces.image_state`, `image_prompt` | prepare, register, upload, attach | pieces, slides |
| Templates (`templates.ts`) | `creative_templates` | save a piece as one, create a piece of one | pieces |
| Run Plans, Methods | rows written once | save | |
| Rails, habit checks, health, audit, lint, MCP dispatch, routes | views and single rows | | all of the above |

### What is hard in it

1. **Statement by statement.**  A death of the process inside a handler is a
   state no test sets up: a proof without its move, an archived account without
   its replacement, a kit version without its flags, an order no delivery names.
2. **Awaits.**  A snapshot refresh, a change, an export, a sign-in, a token
   refresh, a registration and a conformance run hold on to what they read before
   they waited; the session, the project, the piece and the rows move on.
3. **Two records of one fact.**  A delivery and the post order it went out as,
   an approval and the requests sent under it, a slot's status and the accounts
   it held, a piece's pin, its flag and the kit, a token's hash in a row and the
   token in the vault, an overflow foreseen by one module and laid out by another.
4. **Long sequences.**  Attempts that are released, sent back and retried;
   slots that are paused over a loss; re-approvals and second kit updates;
   enrolments before, after and between verifications; batches, restores and
   templates that make documents of documents.
5. **Boundaries.**  Windows, the cap of a day, a claim that straddles midnight.

`PROJECT.json` lists each of these at its line, with the properties that would
catch it going wrong.

### What makes each component correct

* *Accounts*: one account per slot; an unbroken chain of replacements; an
  archived account is frozen; status agrees with the accounts; ready means
  earned by the account in place.
* *Work Orders*: no completion without an accepted proof on the attempt that
  completes; an attempt has one proof and one verdict and none is abandoned
  unjudged; history is append-only; a loss queues its replacement.
* *Gate*: the daily cap holds on every day; nothing of a paused slot is handed
  out.
* *Deliveries*: verified only on two records that agree; disclosures before
  hand-out; an order is one delivery's, made for its pairing; a release is counted
  once; a request to
  stop is not a cancellation; what is published stays published.
* *Gateway*: what a snapshot does not flag is of the revision it names; a
  switch of projects sticks.
* *Two-phase writes*: an approval is used once, for its own project, against
  the state it was given for, and what lands is what was shown and allowed.
* *Experiments*: a verified delivery has its readings on the queue, each asked
  for once; a reading is filed for what it was read for, together with the
  completion of its order; a conclusion is final and claims no more than its
  evidence carries.
* *Pieces*: an approved piece is the document and kit a person saw; the flag
  says when it no longer is; a bundle is such a rendering and keeps its bytes.
* *Documents, checks and slides*: what is approved paints only from its kit, and
  goes on rendering the same; an overflow is reported when there is one, and
  else only for the part of a pixel the checks round up by; the image of a piece is its own and comes with its prompt.
* *Sign-in*: one operator; a challenge opens one session.
* *Host Connections*: one connection for each consent; the token a connection
  verifies is the one sealed for it; what is revoked stays closed.
* *Connected Projects*: one project for each domain; the token in the row is the
  token in the vault; healthy only by a run whose checks all passed.

## 2. The modules

| module | models | composes |
|---|---|---|
| `Accounts` | slots and instances | |
| `AccountsProofs` | theorems about `AccountsSpec` | `Accounts` |
| `WorkOrders` | Work Orders and the gate, with a clock | extends `Accounts`; implements it |
| `WorkOrdersProofs` | theorems about `WorkSpec`, the refinement among them | `WorkOrders`, `AccountsProofs` |
| `Deliveries` | releases and deliveries | extends `WorkOrders`; implements `DeliveryOutcome` |
| `DeliveriesProofs` | theorems about `DeliveriesSpec`, the refinements among them | `Deliveries`, `WorkOrdersProofs` |
| `Gateway` | sessions and snapshot captures | |
| `SingleUseApproval` | what an approval promises (abstract) | implemented by `ProjectChanges` |
| `ChangeRules` | operations, write policy and diff of a change set | |
| `ProjectChanges` | prepare, decide, apply over a lossy wire | extends `Gateway` and `ChangeRules`; implements `SingleUseApproval` |
| `ProjectChangesProofs` | theorems about `ProjectChangesSpec`, the refinement among them | `ProjectChanges` |
| `PieceLifecycle` | pieces, versions, the kit, exports; documents are points | implemented by `Studio` |
| `SlideLayout` | boxes, colours and families of a slide | |
| `Checks` | `check_brand` and unsupported claims | extends `SlideLayout` |
| `PieceEdits` | batches of edits, documents of templates | extends `Checks` |
| `Studio` | one project's pieces over real documents, assets, templates | extends `PieceLifecycle` and `PieceEdits`; implements `PieceLifecycle` |
| `StudioProofs` | theorems about `PieceLifecycleSpec` and `StudioSpec`, the refinement among them | `Studio` |
| `DeliveryOutcome` | what a delivery promises (abstract) | implemented by `Deliveries` |
| `OrderFate` | what a Work Order promises (abstract) | implemented by `WorkOrders` |
| `Experiments` | experiments, readings and decisions | extends `DeliveryOutcome` and `OrderFate` |
| `ExperimentsProofs` | theorems about `ExperimentsSpec` | `Experiments` |
| `OperatorAuth` | challenges, ceremonies, sessions | |
| `Custody` | the vault and the order its callers resume in | |
| `HostConnections` | codes, grants, static tokens, refresh, revocation | extends `Custody` |
| `ProjectDomain` | what a domain answers and what each check makes of it | |
| `ConnectedProjects` | registration, conformance runs, rotation | extends `Custody` and `ProjectDomain` |
| `Access` | sign-in, connections and projects over one vault and one event loop | extends `OperatorAuth`, `HostConnections`, `ConnectedProjects` |
| `AccessProofs` | types, sign-in, consent, registration, health | `Access` |
| `VaultProofs` | the vault and the rows, revocation | `AccessProofs` |
| `MC*` | definitions the configurations substitute for constants | the module they are named for |

### Correspondence

A handler that does not wait is one action with the handler's name.  Its guard
is what the handler refuses, in any order, because a refusal writes nothing; its
primed variables are the rows it writes.  A handler that waits is a record in
`calls` (or `exporting`) with the step it waits at, and one action per
resumption; it keeps in the record what the code keeps in local variables, so
what is stale there is stale here.

A row is a record, a table a sequence (where ids matter), or a function from the
rows that may exist.  `Null` and `None` stand for SQL's NULL.  Definitions named
"Faulty variant" are not part of the model: each is a plausible bug in the
definition it precedes, and the properties are tested against them.

*Accounts.*  `slotStatus` and `instances`, an instance's evidence being a set
beside it.  Rows are never deleted, so ids are positions.  Windows, caps and the
checklist are constants: no statement changes them after the insertion.  Status
values the schema allows and no statement writes are left out of the type.

*Fragile rows.*  Everything the process may have executed before it dies is a
further disjunct of the action, allowed on the rows of the constant `Fragile`:
`addInstance(s)` with the instance and without the status, `submitProof(o)` with
the proof and without the move, and so on through the statements of each handler.
With `Fragile` a part of the rows, one run checks both what survives a death and
what holds of rows that were spared, next to rows that were not.

*WorkOrders.*  `orders` holds each request and its status, `attempts` each
attempt with the day it was stamped, its proofs and its reviews.  The moves are
the table `MOVES` of the code.  The gate is evaluated at `clock`; the stamp of a
claim may fall on the next day (`StampedOn`), for the database reads its own
clock after the gate read the caller's.  `PieceIds` are the ids a request may
name, `Pieces` the pieces there are; an order of another is refused.
`approvedPieces` stands for pieces: it changes as the piece handlers may change it
and is read as `approveOrder` reads it.  The transition log and rendered cards are
left out.

*Deliveries.*  `targets` by idempotency key, `exports` and `releases` for the
bundles, `disclosed` for the checklist.  A permalink matches a proof by
substring, as in the code: `Mentions` says which permalinks a body contains.
`WorkStep` lets every Work Order and slot operation run in between.

*Gateway* and *ProjectChanges.*  `log` is a project's change feed and belongs to
the project, as `landings` does; `wire` holds requests under way.  A snapshot
keeps for each resource the cursor it was read at, which is all the properties
need of its content.  A digest is the project, the cursor and the change set it
is the hash of.  A request may be lost, refused, or land after its caller gave
up; the project applies a digest once, as the SDK and the stub do.

*ChangeRules.*  A policy is what a project answers, filled up with a default that
allows nothing; a change set is a sequence of operations, each judged against the
policy, and its diff has a line for each, with the value the snapshot captured.
A path is the sequence of names `split(".")` makes of it and a value maps its keys to
values, so a dotted path can be both walked and taken whole: the shown value is walked
key by key (`valueAt`, `project-changes.ts:232`), the project of this repository
writes the path as one key (`written`, `stub-project.ts:138`).  For a path of one name
that is the same; for a dotted one it is not, section 5.  `DiffIsWhatLands` compares
the diff with what the operations, one after the other, make of the data: a key gets
the value of its last line, and the nested value under a dotted path stays what it was
unless the head of the path was written.  The stub of `stub-project.ts` carries out
fields of the brand and refuses the rest (`accepts`); a change set it would refuse
does not land.

*PieceLifecycle.*  `Blocked` is the verdict of the checks on a document in a kit.
`audited` holds the kit versions whose audit row exists, the last statement of
`updateKit`.  `files` holds which kit each file on disk was rendered in: the
directory is named by piece and version only, as in the code.

*SlideLayout*, *Checks* and *PieceEdits* are operators without state.  A text is
the lengths of its lines and whether it carries a `[NEED: ...]`; colours, families
and tokens are strings, those that are no token or value among `Junk`, and values that
begin like a font token and are none in `IllNamed`.  `layerHeight` and `stackedHeight`
are the checks' sums, in whole pixels; `laidOut` and `columnEnds` are the column the
renderer lays out, in quarter pixels because a line is 1.25 times its type size.  They
are translated from the two files they are in, so that where they must agree is a
property and not an assumption.  Two things of the browser are taken as the checks
estimate them: how it wraps a line (`wrappedRows`), and that an image, shape or logo
is as high as its `minHeight`.

*Studio.*  The documents of `PieceLifecycle` become records, `Blocked` is assumed
to be `approvalBlockers`, and the transitions carry over: `editBatch` applies the
operations one by one to a document against which all of them were judged,
`instantiateTemplate` and `createFrom` are `createPiece`.  Each document has its own
number of slides (`SlideCount`, at most the twenty of `pieces.ts:98`).  `assets` is the table
over all projects, `own` saying which are of this one; `handoff` is the image state
of each piece.  With `Crashes` the process may die between an asset and its piece.

*OperatorAuth.*  One challenge of each kind is in memory, taken before the library
verifies the answer to it; `ceremonies` are the verifications awaited.  `accepted`
is history.  Whether a request is let in is `Authenticated`: `Access` guards the
operator's requests with it and leaves the hosts' unguarded, as the routes do.

*Custody.*  Every use of the vault awaits the library.  Until it is loaded
(`vaultReady`) calls pile up in `waiting` and requests are served in between; from
then on continuations run first in, first out, and none but them (`Turn`): promise
jobs run before the next event of the loop.  A call goes to the end of the queue at
each await, so two refreshes that wrote the vault in one order write their rows in
the same order, on which `SealedIsIssued` depends.  `keyed` says whether the master
key is set: without it every use throws.  A token is a number and its hash the same
number.

*HostConnections* and *ConnectedProjects* have an action for each stretch of a
handler between two awaits, with the call's local variables in `calls`.  The
handlers of rows in `Fragile` may be cut short by a death of the process: between
the row of a revocation and its secrets (`revocationCutShort`), between the vault
and the row of a refresh or rotation (`restart`).  A domain answers as its
`behaviour` says when it is asked and may change between two groups of checks; the
groups and their order are the constant `Order`.

*Access* puts them on one event loop.  A restart forgets challenges, ceremonies,
calls and the queue, and keeps the tables.

*Experiments* does not extend `Deliveries` and `WorkOrders` but what they are
shown to implement: a delivery is open until it is verified or cancelled
(`DeliveryOutcome`), an order is a draft, open, and over once (`OrderFate`).  The
orders are measure orders; each knows the point it was made for
(`work_orders.observation_id`) and the delivery its instruction names.  `Fits`
says of which points the order passes the schema of `createOrder`; the others
make scheduling throw, after what it booked before.  The points of a delivery are
taken in the order of their ids, which is the one the covering index of
`experiment_deliveries` and `position` give; a sweep may take the deliveries in
any order.  A proof is not modelled: `WorkOrders` has it.

## 3. The runs

| run | question | size |
|---|---|---|
| `MCAccounts` | Does a slot's state make sense after any order of operations, with deaths inside the handlers of one of two slots? | 15 thousand states, 2 s |
| `MCWorkLifecycle` | Do attempts, proofs and verdicts of two orders stay together, one of them cut short at any statement? | 259 thousand, 12 s |
| `MCWorkSlots` | Do caps, midnight, pauses, losses and completions agree with the slot? | 1.0 million, 70 s |
| `MCDelivery` | Do two deliveries of one bundle and their orders agree, with deaths in the release of one, the export and the loss? | 738 thousand, 2 min |
| `MCChanges` | Do concurrent captures and applies use an approval once, do snapshots own up to mixed revisions, and does what lands match the diff? | 1.4 million, 3 min |
| `MCChangesTwo` | Does a write reach only the project it was approved for, and does every call end? | 780 thousand, 2 min |
| `MCStudio` | Is signed-off work checked, flagged, painted from its kit and rendered as it was, are overflows warned of, and are images their piece's own? | 128 thousand, 2 min |
| `MCAccess` | Do overlapping sign-ins, exchanges, refreshes, revocations, registrations, rotations and conformance runs leave one operator, one grant, one project, the vault and the rows agreed, and health earned? | 1.2 million, 2 min |
| `MCExperiments` | Are the readings of two deliveries under two experiments booked once, in place and filed, and is a conclusion backed and final? | 803 thousand, 2 min |
| `MCDeliveryPublished`, `MCGatewaySwitch`, `MCPiecesBytes` | disagreements, section 5 | |

Four runs check a refinement besides: `MCWorkLifecycle` that orders implement
`OrderFate` (`ImplementsFate`), `MCWorkSlots` that they implement `Accounts`
(`ImplementsAccounts`), `MCDelivery` that deliveries implement `DeliveryOutcome`
(`ImplementsOutcome`), `MCChanges` that writes implement `SingleUseApproval`
(`ImplementsSingleUse`).  All of them are theorems, and so is that `Studio`
implements `PieceLifecycle`, which no run checks.

Type invariants are theorems where a module has proofs, so the runs spend their
time on other properties.

### Bounds and why they are enough

* `MaxInstances` 3 over two slots: a second loss, and a replacement of a
  replacement, on either slot.
* Two orders: they meet only in the gate's count, the pieces and the slot, and a
  cap of one is reached and exceeded by two.  `MaxAttempts` 2 is a retry after a
  retry's predecessor; `CutShort` interrupts the handlers of an attempt once.
* `MCWorkSlots`: `MinutesPerDay` 2, so that a claim is checked in the first or in the
  last minute of a day and stamped on either side of midnight; `MaxDays` 2 lets a cap
  be fresh again.  The slot has only the window `<<1, 0>>`, which the gate drops
  because it ends before it starts, and is open at every minute: a claim across
  midnight needs that, for the hours of a window lie within a day and the last minute
  is never one of them.  That a window closes is a guard no property of the run rests
  on; the theorems hold for any windows.
* `MCDelivery`: two keys of one bundle, slot and account, so that they share all
  that an order is made for, one fragile and one not; a cap of one a day and a day,
  two orders.  The run starts where the slot has its ready account and the piece its
  approval (`StagedInit`, a state `DeliveriesInit` leads to).  `MaxReleases` 2 is a
  release after a failure; a body holds the permalink or does not.
* `MCChanges`: two change sets, of which one takes its own first operation back and
  sets a colour by its path before it sets them all, and the other is refused by the
  policy.  The brand has a voice and colours, or colours in a word and a colour under
  a whole dotted path, or neither yet.
* `MaxLog` 1: every property of `MCChanges` compares at most one landing with
  one read.  Two calls are what it takes for two applies to race, or a refresh
  and a switch.
* `Slides` 2: an await on each side of another handler; three kit versions, so that
  an update can follow a re-approval.  `MCStudio` has one export under way and
  `MCPiecesBytes` two.
* `MCStudio`: one starter that just fits its square canvas, with an image, a
  paragraph and a shape, one batch that makes its second slide need a claim, in a
  font that gives way to the fallback, and one whose operations move the layers under
  each other and add a paragraph: 18 of the 41 documents the batches and templates
  lead to overflow.  All have two slides; in `MCPiecesBytes` one document has one and
  one has two, and the theorems hold for any counts.  Two kits, of which one holds a
  colour the other lacks; `MaxRows` bounds the documents, kits, assets, templates
  and bundles together at five, which leaves room for two documents of each of two
  pieces, or for a kit update and an image between an approval and an export.
* `MCAccess`: two calls, since every race here is between two; four tokens, which
  is one grant of two and two refreshes, or a registration, a rotation and a grant;
  two browsers and two challenges.  `MaxDrawn` bounds the product of challenges and
  tokens: sign-in and tokens meet only in `Authenticated`, so states that are far
  along in both add nothing.  Row 2 is fragile and row 1 is not.  The suite runs in
  two groups, so a domain may change in the middle of a run.
* `MCExperiments`: two deliveries, one of which only one experiment may take on
  and on which handlers may be cut short; two points for each experiment, the
  last of which does not fit, so that a delivery both watch is never one
  `BookedWhenVerified` speaks of here (`VerifiedIsBooked` carries that case); three orders for the scheduler, which is enough to
  book a point twice and to read two deliveries, and one order made by hand
  (`HandMade`) that may name a point nobody booked for it.  When the orders are
  used up, nothing more is booked: the bound disables the action.  `Claims` holds
  the strongest and the weakest rung.

Symmetry is taken only over sets whose members are interchangeable: fragile and
other rows are not exchanged, and orders, keys and calls carry no order.
`MCStudio` and `MCPiecesBytes` do not check for deadlock: with the rows and versions
at their bounds nothing is left to do.  Everywhere
else deadlock is checked.

### Fairness

Nearly everything in this system waits for a person, and the code justifies no
fairness for a person: approvals, orders, deliveries and conclusions may be left
lying for ever, and the sweep of `experiments.ts` runs only when an Operator asks
for it.  What the code drives by itself is a call that waits for a Connected
Project: each request is ended by a timeout (`gateway.ts:186`,
`project-changes.ts:701`), so a call that waits goes on, with an answer or
without.  `FairChangesSpec` assumes just that, weak fairness of the steps of each
call, and nothing of the project, of the wire or of other calls.  `CallsEnd` says
that every call ends; `MCChangesTwo` checks it, without symmetry.

## 4. The theorems

`AccountsProofs` proves, for any slots, items, bound and fragile rows:

* `AccountsTypeCorrect`: `AccountsSpec => []AccountsTypeOK`.
* `SlotsHoldOneInstance`, `HistoryIsAChain`, `ArchivedStaysFrozen`:
  one account per slot, the chain of replacements, frozen archives, wherever the
  process dies.
* `StatusAgrees`, `ReadinessIsEarned`: status and readiness, for slots none of
  whose handlers was cut short.

The argument is one inductive invariant, `AccountsInv`.  `OneInstancePerSlot` and
`ReplacementChain` need each other: a new instance replaces the *last archived*
one, and that this is the one *just before it* follows only if everything before
it is archived, which is what filling a free slot gives.  Readiness needs that
evidence stays with its instance and that the current instance of a slot changes
only by a loss or by filling a free slot.

`WorkOrdersProofs` proves, for any orders, requests, caps and windows, with every
row fragile if one likes:

* `WorkTypeCorrect`, and `OrdersDriveAccounts`: Work Orders implement Accounts, so
  what is proved of accounts holds of the composed system (`AccountsStaySound`).
* `CompletionRestsOnProof`: no order is completed without a proof and an
  accepting last review on the attempt in play.
* `PauseStopsTheSlot`: a paused slot hands out and queues nothing.
* `CapsHold`: no daily cap is exceeded on any day.
* `OrdersHaveOneFate`: Work Orders implement `OrderFate`, on which `Experiments`
  rests: each step moves a status along `MOVES` or inserts a row.
* `OneProofEach`, `AttemptsSettle`: an attempt has one proof and one review, and
  is left behind untouched or sent back, for orders that are not fragile.
* `HistoryIsAppendOnly`: no attempt, day, proof or review is ever taken back.  No
  run checks it.
* `LossQueuesWork`: a loss queues its replacement in the same step.

The argument goes through two *step effects*.  A step of an order writes that
order and its attempts only, leaves a terminal order alone, keeps the order's
request, and either keeps every day that was stamped or is a claim
(`OrderEffect`); any other step inserts at most one new order (`CalmEffect`), and
only for a slot that is not halted (`QuietEffect`).  Each theorem then looks at two
cases instead of fifteen.  The attempts need an invariant that ties the status of an
order to its last attempt: before the hand-in it has no proof, while the proof is
judged it has one and no review, and a try that was sent back has both
(`AttemptsInv`).  `OneProofPerAttempt` alone is not inductive, for a proof is
accepted by the status and not by a look at the attempt.  `DailyCapHolds` needs `CapInv`: an order that does not exist
has no attempts, no attempt is stamped with a day to come, and every count is
within its cap.  A claim on the gate's own day adds one order to a count the gate
found below the cap.  A claim that straddles midnight is the first of its day,
for nothing is stamped in the future, and the gate's count below the cap shows
that the cap is at least one.

`DeliveriesProofs` proves, for any bundles, deliveries, orders, rules and permalinks:

* `DeliveriesTypeCorrect`.
* `DeliveriesDriveAccounts`, `DeliveriesKeepFates`, `DeliveriesRespectTheGate`,
  `DeliveriesKeepAttempts`, `DeliveriesQueueReplacements`: what was proved of Work
  Orders holds with deliveries around them.
* `OrdersAreTheirOwn`: a delivery keeps its order while it is out and once it is
  over, and that order was made for its pairing and is no other delivery's.  It rests
  on `PairingStays`: release, slot and account of a delivery never change.
* `VerifiedRestsOnTwoRecords`: the proof a delivery was verified on stays on record.
* `DeliveriesHaveOneOutcome`: deliveries implement `DeliveryOutcome`, the other half
  of what `Experiments` rests on.
* `AttemptsAreCounted`: the attempt count is the number of orders a delivery went
  out as, for deliveries that share a bundle and an account if none of them is
  fragile.

To Work Orders a delivery does one thing: it inserts an order that did not exist.
That is a calm step, so the lemmas of `WorkOrdersProofs` apply,
which are stated about steps and not about `WorkSpec`.  `PauseStopsTheSlot` is the
exception: `releaseToOperator` does not look at the slot, so under `DeliveriesSpec`
an order may be queued for a paused one, and the gate stops it when it is claimed.
`DeliveriesInv` adds to the tables that a delivery that is out names an order that
exists.  `VerifiedOnTwoRecords` follows from the order of that delivery never
changing and from history being append-only, so a retry of the order after the
verification takes no proof away.  The count compares two
sets, the orders made for a bundle and an account and the releases of its deliveries:
a release adds one to each, and one that is cut short adds an order only
(`CountInv`).

`ProjectChangesProofs` proves, for any projects, sessions, resources and number
of calls under way:

* `ChangesTypeCorrect`: the tables and the record of every waiting call.
* `SnapshotsOwnUp`: a snapshot that mixes revisions says so.
* `ApprovalsAreSingleUse`, `RequestsAreSingle`, `DecisionsAreFinal`: two-phase
  writes implement the single-use approval, hence its two promises.
* `WritesWereApproved`, `ReceiptsAreUnique`.
* `DiffsAreWhatLands`: what lands is permitted, a key without dots gets what its last
  line showed, and the nested value a dotted path showed stays unless a line of its
  head says otherwise, for change sets of any length and any data.

The invariant says what each call knows while it waits.  A capture (`Sound`)
knows that the project is not behind its start cursor, that it read nothing from
before the start, and, once the feed is read, that whatever is unmarked did not
change up to the end cursor; the feed is append-only, so this stays true while
the project moves.  A call that consumed an approval (`CallsSpendOnce`) is the
only one to hold it, has sent it or not according to its step, and has no
receipt yet.  `Final` and `SingleUse` alone are not inductive: without the
calls nothing prevents a second send.  That what lands is permitted is inherited from
the row it was prepared as (`RowsArePermitted`).  That it is what was shown is about
`applied`, a recursion over the operations: after each number of operations a key
holds the value of the last one that wrote it, or its own (`Latest`).

`ExperimentsProofs` proves, for any experiments, points, deliveries and orders:

* `ExperimentsTypeCorrect`.
* `NobodyIsAskedTwice`: one order for each point of each delivery.
* `VerifiedIsBooked`: a verified delivery has its readings booked.
* `FiledWhereRead`, `CompletedWithReadings`: readings are filed in place, and with
  the completion of their order.
* `DecisionsAreFinal`, `ConclusionsHold`.

`Scheduling` says what booking may do whatever it is cut short at: it adds
bookings that were due and that nobody made before, each with a fresh order that
asks for it; an order without a booking is left only on a fragile delivery.  The
invariant `ExperimentsInv` ties the three tables together: a booking is of a
posted, enrolled delivery and of the order that asks for it, an order that asks
for a reading of a spared delivery has its booking, a reading with a delivery or
an experiment has the booking of its order, and exactly the completed orders have
readings.  None of the properties is inductive without it: that nobody is asked
twice needs that every order that asks is booked, and that a conclusion is
backed needs that a reading counted for an experiment came from an order of its
own.  `BookedWhenVerified` and `ConclusionIsBacked` are inductive relative to it.

`StudioProofs` proves of the lifecycle, for any pieces, documents, kits, exports and
slides:

* `PieceTypeCorrect`, `HistoryIsKept`: documents and kits are only ever appended.
* `SignedOffIsClean`, `FlagsAreExact`, `BundlesAreClean`: approved and planned pieces
  have no blocker, their flags are exact, and bundles are of such renderings.

`PieceInv` says of each row what its status owes: a piece that is approved or
planned has a pin, the pin is a kit that exists and in which the last version has
no blocker, and the flag is set if an audited kit is newer.  An export keeps what it
read, so its record holds a clean rendering by itself (`CleanRendering`), of a
version and a kit that are never rewritten; this is why a late export cannot record
anything else, and it needs `HistoryIsKept`.

And of the Studio, for any documents, kits, batches, prompts and bounds that
satisfy `StudioAssumption`:

* `StudioDrivesLifecycle`: `StudioSpec => PieceLifecycleSpec`, hence
  `StudioStaysSound`, the invariants of the lifecycle over real documents.
* `ImagesAreOwn`: the image a hand-over record names is an asset of the project, with
  the prompt of the record.  It says nothing of the images on slides.
* `PaintedFromTheKit`, `RenderingsStand`.
* `OverflowsAreReported`: what overflows as it is laid out is warned of, and what is
  warned of overflows but for the rounding, for any number of layers, gaps and lines.

A batch or a template makes a document of a document, so a step of the Studio is a
step of the lifecycle or leaves it alone.  A piece paints from its kit because a
document without brand errors names only tokens of the kit, and the renderer finds
exactly those.  A rendering stands because versions, kits and the assets a project
resolves are never changed or withdrawn.  The overflow is arithmetic: a gap before each
stacked layer adds up to as many gaps as there are (`GapsAddUp`), the checks round each
text up by less than a pixel (`RoundedUp`, `HeightsAgree`), and the padding and the
first gap cancel (`OverflowIsExact`).

`AccessProofs` proves, for any number of browsers, calls, tokens, clients, codes and
domains, and for any domain behaviour and grouping of the checks:

* `AccessTypeCorrect`.
* `ChallengesAreSpentOnce`, `RegistrationHappensOnce`: a challenge is in memory, in
  one ceremony, or spent (`AuthInv`).
* `ConsentsAreSpentOnce`: a code that is live has neither call nor connection, and
  one that was exchanged has at most one of them (`ConsentInv`).
* `DomainsAreRegisteredOnce`.
* `HealthIsEarned`: a project turns healthy only at the end of a run all of whose
  checks passed when they were answered, the last ones and the domain's being up
  included (`ChecksRead`: a run that goes on has passed what it read so far).

They rest on `TypesInv`, which says that the queue holds each call once and only
calls that await the vault (`QueueInv`), and that what a call or a row refers to
exists.

`VaultProofs` proves of the same specification:

* `SealedAsIssued`: the token a row verifies is the one the vault holds for it,
  unless a call is about to write the row.
* `RevokedStaysClosed`: a revoked connection keeps its token, verifies none, and its
  secrets are wiped.

The argument needs four invariants.  A secret has one owner, a row or a call
(`OwnersInv`), so what is sealed for one row is never overwritten for another.  A
call that has written the vault and not the row is queued (`QueuedInv`); hence no
revocation, which is a request, comes between the two.  Of the calls about to write
one row, the *latest in the queue* has its token in the vault (`SealedInv`); with
one such call left, that is the token the row gets.  A refresh that has yet to write
the vault finds the row active or the secret wiped, and then fails (`ClosedInv`).
That a revoked token verifies nowhere needs that every token has one bearer
(`TokensInv`).

The assumptions are those of the modules' `ASSUME`s, about the constants only.

Every property a passing run checks is a theorem but one, `CallsEnd`: liveness under
fairness, and the `ENABLED` it needs, are out of the prover's reach and stay with TLC.
Induction over data is, in general, too, for the induction theorems of the library
take an operator as a parameter.  Where a property is about what a recursive function
computes, `applied` and `Total`, the proofs go by the least counterexample instead:
the recursion has a value for each length (`HoldsOfEach`, `TotalsOfEach`), and a
claim about it that failed would have a first place where it does, because the order
of the naturals is well founded.  What a batch of edits makes of a document
(`applyOps`, a fold) is not reasoned about at all: `StudioAssumption` says that it is
a document again, and TLC evaluates that on the documents of `MCStudio`.  No module
declares a recursive operator.

## 5. Where the code and its comments disagree

Three disagreements have a run whose counterexample shows them:

| run | the code | what it says |
|---|---|---|
| `MCDeliveryPublished` | an acknowledged cancellation turns `verified_posted` into `cancelled` when the request came before the proof | "What is published cannot be un-published from here" |
| `MCGatewaySwitch` | a refresh begun before a switch ends after it and pins the old project again | "snapshot ... is released and a fresh snapshot is pinned" |
| `MCPiecesBytes` | two exports of one version write one directory | "exactly the bytes that were approved" |

Met while modelling and described here without a run:

* Staleness is checked before the awaits of an apply and the request carries no
  cursor (`project-changes.ts:781`), while `project-changes.ts:777-780` has an
  approval mean "a specific state of the project".
* A piece is marked exported from a record read before its slides rendered
  (`renderer.ts:316`), while `piece-lifecycle.ts:375-379` says "only from planned
  and only while the approved rendering is still current".
* A death between a measure order and its `observation_orders` row
  (`experiments.ts:396`) makes the next scheduling ask a second time, while
  `experiments.ts:364` says "without ever booking a person twice".  One order
  that does not fit ends a whole sweep (`experiments.ts:478`).
* "Read on every one at a declared observation point" (`decisions.ts:211`) compares
  counts only: with more deliveries than the sample asks for, some may be unread,
  and a delivery cancelled after it was read counts for one that was not.
  `ConclusionIsBacked` states what does hold.
* `resumeSlot` makes a slot ready whose `markReady` never ran
  (`accounts.ts:613`), while `accounts.ts:535` calls `markReady` "the only route
  to `ready`".  `ReadyIsEarned` holds all the same: the checklist is complete.
* A death inside `loseInstanceAndReplace` leaves no replacement order
  (`work-orders.ts:799`), one inside `submitProof` allows a second proof
  (`work-orders.ts:577`), one inside `updateKit` leaves work unflagged
  (`brand-kit.ts:190`).  The properties are stated for rows that are not
  fragile, or up to the audit row.
* The gate asks for *an* account, not for the one the order names
  (`release-gate.ts:161`): a post for a lost account is handed out once the slot
  holds another.
* `validateChangeSet` takes before-values from resources the snapshot flags as
  conflicted (`project-changes.ts:320`); prepare and apply do not ask for health
  (`project-changes.ts:364`, against `projects.ts:96`).
* A permalink is found by substring (`deliveries.ts:681`).
* `createOrder` refuses measure orders of experiments that `declareExperiment`
  accepts, after the delivery was verified (`experiments.ts:459`,
  `work-orders.ts:297`), while `experiments.ts:451` says that "there is no moment at
  which a verified delivery exists with its readings still waiting".
* The gate counts the order it is asked about (`release-gate.ts:185`): an order that
  took the last of the cap and was released is refused when it is taken up again on
  the same day.
* An image reference that does not resolve does not stand before an approval
  (`checks.ts:220`): the placeholder is approved, and the rendering changes when an
  asset of that number lands.  `ApprovedRenderingStands` excepts such pieces.
* The operations of a batch are judged against the document as it was and carried
  out one by one (`piece-edits.ts:296`, against `piece-edits.ts:6`): a layer removed
  by one shifts those the next ones name.
* An asset without a prompt leaves the piece the prompt of an earlier attempt
  (`assets.ts:229`).
* Two conformance runs may overlap, and a pass that began before a failure was
  recorded overwrites it (`projects.ts:149`), which `HealthyOnPass` does not rule out; a rotation leaves the project as
  healthy as it was (`projects.ts:179`).
* A registration that loses the race for its domain leaves a sealed token no project
  names (`projects.ts:122`).
* A death in a revocation leaves sealed tokens active, and a second revocation is
  refused as already done (`host-auth.ts:121`).  The row is closed all the same.
* A host that refreshed its token starts a new gateway session, for sessions are
  keyed by the hash of the access token (`mcp.ts:450`).
* The line of a diff for a revised claim never has a before-value
  (`project-changes.ts:229`), and two operations on one path both show the one of
  the snapshot.  `DiffIsWhatLands` is stated for the last value of a path.
* The before-value of a dotted path is walked key by key (`project-changes.ts:232-239`)
  while the project of this repository writes `brand["colors.primary"]` as one key
  (`stub-project.ts:138`): the Operator is shown the nested value and a change to it,
  and another key is written.  `project-changes.ts:6-8` calls the diff exact.  The stub
  says it is narrow on purpose (`stub-project.ts:124`), so it is not run as a finding;
  `DiffIsWhatLands` says what does hold of such a path.
* The domain of a project is compared as it was typed: with a trailing slash, which
  `conformance.ts:55` strips later, it is another (`projects.ts:122`).
  `OneProjectPerDomain` is about the typed string, as the UNIQUE column is.

## 6. The plan

Done, in order of importance:

1. Accounts, Work Orders and gate, Deliveries, Gateway, two-phase writes, pieces
   with kit and exports, with the theorems of the first four.
2. `Experiments` over what deliveries and orders promise, with its theorems.
3. `Access`: sign-in, Host Connections and Connected Projects over one vault, with
   its theorems.
4. `Studio`: documents, batches, checks, slides, assets and templates, a refinement
   of `PieceLifecycle`, with the theorems of both.
5. `ChangeRules`: the write policy and the diff.
6. Proofs about Deliveries, about the attempts and the history of Work Orders, about
   the diff and about the overflow estimate.

Left:

1. The job runner, which leaves a job running after a death (`jobs.ts:38`), once
   something enqueues one.
2. The next opening the gate suggests, and the due dates of readings, against
   reference definitions.

## 7. Not modelled, and why

* Views: the rails, health, cards and `slotView` are computed on every call and
  change nothing.  Previews of slides likewise.
* `check_quality` and the response lint only advise; nothing waits for their verdict.
* HTTP routes, MCP dispatch, formatting and parsing: one handler each, and no state
  of their own.  The dashboard (`src/app`) is a client of the routes.
* Methods are text; a Run Plan, a habit check and a skipped setup step are rows
  written once that no decision reads back.
* The job runner has one handler, which does nothing, and nothing enqueues a job.
* The onboarding script (`onboard.ts`) runs by hand, beside the server.
* The passkey library with its signature counter, PKCE, the sealing of secrets, the
  browser, the HTTP client and the file system are outside the source, or functions
  of a library; where their outcome matters it is a nondeterministic choice.
