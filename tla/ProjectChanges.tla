--------------------------- MODULE ProjectChanges ---------------------------
(***************************************************************************)
(* Two-phase project writes (server/project-changes.ts) over the sessions  *)
(* of Gateway: a host prepares a change against its pinned snapshot, the   *)
(* Operator decides its digest, a host applies the approved digest at the  *)
(* Connected Project and gets a Write Receipt.                             *)
(*                                                                         *)
(* As in Gateway a call is a record with the step it waits at.  The        *)
(* project (project-domain-sdk.ts) is outside the process: a request to it *)
(* may be lost, refused, or land after its caller stopped waiting.         *)
(***************************************************************************)
EXTENDS Gateway, ChangeRules

CONSTANTS
  ChangeSets,     \* the Project Change Sets hosts send, each for one resource
  Operations,     \* change set -> its operations
  PolicyOf,       \* external: what a project says of its write policy
  Contents        \* external: what projects may hold, by resource

\* The resource the operations of a change set write to.
Target(change) == targetResource(Operations[change][1])

ASSUME ProjectChangesAssumption ==
  /\ Operations \in [ChangeSets -> Seq(ChangeOp(Tracked \cup Elsewhere)) \ {<<>>}]
  /\ \A change \in ChangeSets :
       /\ Target(change) \in Tracked \cup Elsewhere
       /\ \A n \in DOMAIN Operations[change] :
            targetResource(Operations[change][n]) = Target(change)
  /\ \A p \in Projects : readWritePolicy(PolicyOf[p]) \in WritePolicy(Tracked \cup Elsewhere)

Accepted(change) == \A n \in DOMAIN Operations[change] : accepts(Operations[change][n])

PermittedIn(p, change) == Permitted(Operations[change], readWritePolicy(PolicyOf[p]))

VARIABLES
  approval,       \* project_changes.status, "absent" before the row exists
  posts,          \* the POST /apply requests made for a digest
  wire,           \* those that are on their way
  landings,       \* external: what projects applied, with the cursor it got
  receipts        \* write_receipts

applyVars == <<posts, wire, landings, receipts>>
changeVars == <<gatewayVars, approval, applyVars>>

-----------------------------------------------------------------------------
(* A digest is the hash of the project, the snapshot and the change set;   *)
(* a snapshot is named by its project and its cursor.                      *)

Digests == [project : Projects, cursor : Cursors, change : ChangeSets]

changeDigest(pinned, change) ==
  [project |-> pinned.project, cursor |-> pinned.cursor, change |-> change]

Request == [project : Projects, digest : Digests]

Landing == [project : Projects, digest : Digests, cursor : Cursors]

Prepare ==
  [op : {"prepare"}, session : Sessions, pinned : Snapshot, change : ChangeSets,
   step : {"stale", "policy"}]

Apply ==
  [op : {"apply"}, session : Sessions, pinned : Snapshot, digest : Digests,
   step : {"stale", "consume", "send", "answer"}]

ProjectChangesTypeOK ==
  /\ GatewayTypeOK
  /\ calls \in [Calls -> {Idle} \cup Capture \cup Prepare \cup Apply]
  /\ approval \in [Digests -> {"absent", "pending", "approved", "rejected", "used"}]
  /\ posts \in [Digests -> Nat]
  /\ wire \subseteq Request
  /\ landings \subseteq Landing
  /\ receipts \subseteq Landing

ProjectChangesInit ==
  /\ GatewayInit
  /\ approval = [d \in Digests |-> "absent"]
  /\ posts = [d \in Digests |-> 0]
  /\ wire = {}
  /\ landings = {}
  /\ receipts = {}

-----------------------------------------------------------------------------
(* Phase one *)

prepareChange(c, s, change) ==
  /\ calls[c] = Idle
  /\ session[s] # NoPin
  /\ SetCall(c, [op |-> "prepare", session |-> s, pinned |-> session[s],
                 change |-> change, step |-> "stale"])
  /\ UNCHANGED <<log, healthy, session, approval, applyVars>>

\* The process reads the feed of the project the call was pinned to.
readStaleness(c, op, next) ==
  /\ calls[c].op = op
  /\ calls[c].step = "stale"
  /\ IF StillFresh(calls[c].pinned)
       THEN SetCall(c, [calls[c] EXCEPT !.step = next])
       ELSE SetCall(c, Idle)
  /\ UNCHANGED <<log, healthy, session, approval, applyVars>>

\* The write policy permits the change; a digest that is there already is
\* answered as it stands and not prepared again.
finishPrepare(c) ==
  /\ calls[c].op = "prepare"
  /\ calls[c].step = "policy"
  /\ PermittedIn(calls[c].pinned.project, calls[c].change)
  /\ LET d == changeDigest(calls[c].pinned, calls[c].change)
     IN IF approval[d] = "absent"
          THEN approval' = [approval EXCEPT ![d] = "pending"]
          ELSE UNCHANGED approval
  /\ SetCall(c, Idle)
  /\ UNCHANGED <<log, healthy, session, applyVars>>

\* Faulty variant of Undecided: a refusal can be taken back.
UndecidedOrRejected(d) == approval[d] \in {"pending", "rejected"}

Undecided(d) == approval[d] = "pending"

decidePreparedChangeSet(d, decision) ==
  /\ Undecided(d)
  /\ approval' = [approval EXCEPT ![d] = decision]
  /\ UNCHANGED <<gatewayVars, applyVars>>

-----------------------------------------------------------------------------
(* Phase two *)

\* Faulty variant of OwnProject: any project may be selected.
AnyProject(pinned, d) == TRUE

OwnProject(pinned, d) == d.project = pinned.project

applyChange(c, s, d) ==
  /\ calls[c] = Idle
  /\ session[s] # NoPin
  /\ OwnProject(session[s], d)
  /\ approval[d] = "approved"
  /\ SetCall(c, [op |-> "apply", session |-> s, pinned |-> session[s],
                 digest |-> d, step |-> "stale"])
  /\ UNCHANGED <<log, healthy, session, approval, applyVars>>

\* The row the conditional UPDATE of consumeApproval matches.
Consumable(d) == approval[d] = "approved"

\* A digest prepared at another cursor, or consumed meanwhile, is refused.
consumeApproval(c) ==
  /\ calls[c].op = "apply"
  /\ calls[c].step = "consume"
  /\ LET d == calls[c].digest
     IN IF d.cursor = calls[c].pinned.cursor /\ Consumable(d)
          THEN /\ approval' = [approval EXCEPT ![d] = "used"]
               /\ SetCall(c, [calls[c] EXCEPT !.step = "send"])
          ELSE /\ SetCall(c, Idle)
               /\ UNCHANGED approval
  /\ UNCHANGED <<log, healthy, session, applyVars>>

RequestOf(call) == [project |-> call.pinned.project, digest |-> call.digest]

sendApply(c) ==
  /\ calls[c].op = "apply"
  /\ calls[c].step = "send"
  /\ posts' = [posts EXCEPT ![calls[c].digest] = @ + 1]
  /\ wire' = wire \cup {RequestOf(calls[c])}
  /\ SetCall(c, [calls[c] EXCEPT !.step = "answer"])
  /\ UNCHANGED <<log, healthy, session, approval, landings, receipts>>

\* The landing that answers a request: the first one of its digest.
LandingsOf(q) == {l \in landings : l.project = q.project /\ l.digest = q.digest}

HasReceipt(d) == \E r \in receipts : r.digest = d

\* The project confirms: the receipt is written and the session is pinned
\* anew, if its project may still be used.  A second receipt of a digest
\* would be refused by its UNIQUE column.
recordReceipt(c) ==
  /\ calls[c].op = "apply"
  /\ calls[c].step = "answer"
  /\ RequestOf(calls[c]) \notin wire
  /\ ~ HasReceipt(calls[c].digest)
  /\ \E l \in LandingsOf(RequestOf(calls[c])) : receipts' = receipts \cup {l}
  /\ LET s == calls[c].session
     IN IF session[s] # NoPin /\ session[s].project \in healthy
          THEN SetCall(c, NewCapture("refresh", s, session[s].project))
          ELSE SetCall(c, Idle)
  /\ UNCHANGED <<log, healthy, session, approval, posts, wire, landings>>

\* Faulty variant of callFails: the answer to an apply is waited for.
callFailsNotWaiting(c) ==
  /\ calls[c].op \in {"prepare", "apply"}
  /\ calls[c].step \in {"stale", "policy", "send"}
  /\ SetCall(c, Idle)
  /\ UNCHANGED <<log, healthy, session, approval, applyVars>>

\* A read, the policy's refusal, or the answer to an apply does not come, in
\* time or at all; once consumed, the approval stays spent.
callFails(c) ==
  /\ calls[c].op \in {"prepare", "apply"}
  /\ calls[c].step \in {"stale", "policy", "send", "answer"}
  /\ SetCall(c, Idle)
  /\ UNCHANGED <<log, healthy, session, approval, applyVars>>

-----------------------------------------------------------------------------
(* The Connected Project: apply is idempotent on the digest, and refuses a *)
(* change with an operation it does not take.                              *)

receiveApply(q) ==
  /\ q \in wire
  /\ wire' = wire \ {q}
  /\ LET l == [project |-> q.project, digest |-> q.digest, cursor |-> cursorOf(q.project) + 1]
     IN IF LandingsOf(q) = {}
          THEN /\ Accepted(q.digest.change)
               /\ cursorOf(q.project) < MaxLog
               /\ log' = [log EXCEPT ![q.project] = Append(@, Target(q.digest.change))]
               /\ landings' = landings \cup {l}
          ELSE UNCHANGED <<log, landings>>
  /\ UNCHANGED <<healthy, session, calls, approval, posts, receipts>>

\* The request does not reach the project, or the project refuses it.
loseApply(q) ==
  /\ q \in wire
  /\ wire' = wire \ {q}
  /\ UNCHANGED <<gatewayVars, approval, posts, landings, receipts>>

ChangeStep(c) ==
  \/ readStaleness(c, "prepare", "policy") \/ finishPrepare(c)
  \/ readStaleness(c, "apply", "consume") \/ consumeApproval(c)
  \/ sendApply(c) \/ recordReceipt(c) \/ callFails(c)

GatewayStep == GatewayNext /\ UNCHANGED <<approval, applyVars>>

ProjectChangesNext ==
  \/ GatewayStep
  \/ \E c \in Calls, s \in Sessions :
       \/ \E change \in ChangeSets : prepareChange(c, s, change)
       \/ \E d \in Digests : applyChange(c, s, d)
  \/ \E c \in Calls : ChangeStep(c)
  \/ \E d \in Digests, decision \in {"approved", "rejected"} :
       decidePreparedChangeSet(d, decision)
  \/ \E q \in wire : receiveApply(q) \/ loseApply(q)

ProjectChangesSpec == ProjectChangesInit /\ [][ProjectChangesNext]_changeVars

\* What a call waits for comes or its timeout ends the wait.
CallGoesOn(c) ==
  \/ CaptureStep(c) /\ UNCHANGED <<approval, applyVars>>
  \/ ChangeStep(c)

FairChangesSpec ==
  ProjectChangesSpec /\ \A c \in Calls : WF_changeVars(CallGoesOn(c))

-----------------------------------------------------------------------------
(* Properties *)

Approvals == INSTANCE SingleUseApproval WITH uses <- posts

\* "Exactly once does not depend on this file being careful"
\* (project-changes.ts:18-21): the decisions, consumptions and requests of any
\* number of concurrent applies are those of a single-use approval.
ImplementsSingleUse == Approvals!Spec

\* Nothing reaches a Connected Project without a person's approval of that
\* very digest (project-changes.ts:5): whatever is on its way to a project or
\* landed there was prepared for that project and its approval is spent.
WritesAreApproved ==
  \A w \in wire \cup landings :
    w.digest.project = w.project /\ approval[w.digest] = "used" /\ posts[w.digest] = 1

\* What is done to a resource against the lines shown of it.  Under the key that
\* is the whole path, the first line shows the value that the path led to, or
\* none, and the last one what is there afterwards; a key without a line does
\* not move.  What a path leads to moves with its first name only: for a path of
\* one name that is the key of its lines, and for one with dots it is not, so
\* the value its lines showed stays where it was.
ShownAsApplied(change, data, captured) ==
  LET shown == diff(change, [q \in captured |-> data[q]])
      after == applied(change, data)
      linesOf(r, key) == {n \in DOMAIN shown : shown[n].resource = r /\ shown[n].path = key}
  IN \A r \in DOMAIN data : \A path \in Fields \cup DOMAIN data[r] :
       LET lines == linesOf(r, path)
           ofHead == linesOf(r, <<path[1]>>)
       IN /\ \/ lines = {} /\ field(after[r], path) = field(data[r], path)
             \/ \E first, last \in lines :
                  /\ lines \subseteq first .. last
                  /\ shown[first].before \in {valueAt(data[r], path), Unknown}
                  /\ field(after[r], path) = shown[last].after
          /\ \/ ofHead = {} /\ valueAt(after[r], path) = valueAt(data[r], path)
             \/ \E last \in ofHead :
                  /\ \A n \in ofHead : n <= last
                  /\ valueAt(after[r], path) = walked(shown[last].after, path)

\* What lands is what the Operator was shown, "the exact diff"
\* (project-changes.ts:6-8), for a path of one name, and for one with dots a
\* key the Operator was not shown: the project permits the change and, if it
\* still holds what the snapshot captured, what becomes of every key and path
\* is what their lines showed.
DiffIsWhatLands ==
  \A l \in landings :
    /\ PermittedIn(l.project, l.digest.change)
    /\ l.cursor = l.digest.cursor + 1 =>
         \A data \in Contents, captured \in SUBSET Tracked :
           ShownAsApplied(Operations[l.digest.change], data, captured)

\* A Write Receipt is the permanent record of a change that did land, one per
\* digest (project-changes.ts:20, 707-709): a call that may still get one is
\* for a digest without a receipt, so the constraint never refuses it.
OneReceipt ==
  /\ \A r \in receipts : approval[r.digest] = "used" /\ posts[r.digest] = 1
  /\ \A c \in Calls :
       calls[c].op = "apply" /\ calls[c].step \in {"send", "answer"}
         => ~ HasReceipt(calls[c].digest)

\* Every call under way ends, answered or refused (gateway.ts:186,
\* project-changes.ts:701): an apply that spent its approval does not wait for
\* a request that was lost, nor a capture for a project that keeps moving.
CallsEnd == \A c \in Calls : calls[c] # Idle ~> calls[c] = Idle
=============================================================================
