------------------------------- MODULE Gateway -------------------------------
(***************************************************************************)
(* The project sessions of server/gateway.ts.  A host call pins a snapshot *)
(* of a Connected Project to its session: it reads the project's change    *)
(* cursor, each resource, the cursor again, and assigns the session.       *)
(*                                                                         *)
(* Each read is a request the process awaits, so the project moves and     *)
(* other calls run between any two of them: a call is a record with the    *)
(* step it waits at, and every resumption is an action.  Sessions live in  *)
(* memory, so a restart forgets them and the calls under way.              *)
(***************************************************************************)
EXTENDS Naturals, Sequences, SequencesExt, TLC

CONSTANTS
  Projects,       \* the registered Connected Projects
  Sessions,       \* host tokens, each with one session
  Calls,          \* the host calls under way at once
  Resources,      \* SNAPSHOT_RESOURCES in the order they are captured
  Elsewhere,      \* resources a change feed names and no snapshot captures
  MaxLog          \* bound on the change feed of a project

ASSUME GatewayAssumption ==
  /\ Resources \in Seq(ToSet(Resources))
  /\ IsInjective(Resources)
  /\ ToSet(Resources) \cap Elsewhere = {}
  /\ MaxLog \in Nat

VARIABLES
  log,            \* external: the change feed of a project, a resource an entry
  healthy,        \* projects.status = 'healthy'
  session,        \* the snapshot pinned to a session
  calls           \* the host calls under way

gatewayVars == <<log, healthy, session, calls>>

-----------------------------------------------------------------------------
Tracked == ToSet(Resources)

Cursors == 0 .. MaxLog

\* A snapshot holds each resource as it stood at the cursor it was read at;
\* a resource that could not be read is missing from readAt.
Snapshot ==
  [project : Projects, cursor : Cursors, conflicted : SUBSET Tracked,
   readAt : UNION {[R -> Cursors] : R \in SUBSET Tracked}]

NoPin == [cursor |-> "none"]

Idle == [op |-> "idle"]

Capture ==
  [op : {"select", "refresh"}, session : Sessions, project : Projects,
   step : {"start", "read", "feed", "pin"}, start : Cursors, end : Cursors,
   todo : {SubSeq(Resources, n, Len(Resources)) : n \in 1 .. Len(Resources) + 1},
   conflicted : SUBSET Tracked,
   readAt : UNION {[R -> Cursors] : R \in SUBSET Tracked}]

GatewayTypeOK ==
  /\ log \in [Projects -> Seq(Tracked \cup Elsewhere)]
  /\ \A p \in Projects : Len(log[p]) <= MaxLog
  /\ healthy \subseteq Projects
  /\ session \in [Sessions -> {NoPin} \cup Snapshot]

GatewayInit ==
  /\ log = [p \in Projects |-> <<>>]
  /\ healthy = {}
  /\ session = [s \in Sessions |-> NoPin]
  /\ calls = [c \in Calls |-> Idle]

cursorOf(p) == Len(log[p])

\* The resources of the entries after a cursor.
entriesAfter(p, cursor) == {log[p][n] : n \in cursor + 1 .. cursorOf(p)}

\* staleSnapshotRefusal lets a call through: nothing landed after the pin.
StillFresh(pinned) == entriesAfter(pinned.project, pinned.cursor) = {}

-----------------------------------------------------------------------------
(* Capturing a snapshot *)

SetCall(c, record) == calls' = [calls EXCEPT ![c] = record]

NewCapture(op, s, p) ==
  [op |-> op, session |-> s, project |-> p, step |-> "start", start |-> 0,
   end |-> 0, todo |-> Resources, conflicted |-> {}, readAt |-> <<>>]

selectProject(c, s, p) ==
  /\ calls[c] = Idle
  /\ p \in healthy
  /\ SetCall(c, NewCapture("select", s, p))
  /\ UNCHANGED <<log, healthy, session>>

\* getSnapshot captures the project its session is pinned to when it starts.
getSnapshot(c, s) ==
  /\ calls[c] = Idle
  /\ session[s] # NoPin
  /\ session[s].project \in healthy
  /\ SetCall(c, NewCapture("refresh", s, session[s].project))
  /\ UNCHANGED <<log, healthy, session>>

WaitsAt(c, step) == calls[c].op \in {"select", "refresh"} /\ calls[c].step = step

readStartCursor(c) ==
  /\ WaitsAt(c, "start")
  /\ SetCall(c, [calls[c] EXCEPT !.start = cursorOf(calls[c].project), !.step = "read"])
  /\ UNCHANGED <<log, healthy, session>>

\* The resources of got are added as the project holds them now.
readNow(call, got) ==
  [r \in DOMAIN call.readAt \cup got |->
     IF r \in got THEN cursorOf(call.project) ELSE call.readAt[r]]

\* A resource that is unavailable, unsupported or invalid is a gap.
readResource(c) ==
  /\ WaitsAt(c, "read")
  /\ calls[c].todo # <<>>
  /\ \E got \in {{Head(calls[c].todo)}, {}} :
       SetCall(c, [calls[c] EXCEPT !.todo = Tail(@), !.readAt = readNow(calls[c], got)])
  /\ UNCHANGED <<log, healthy, session>>

\* Faulty variant of feedFrom: only what changed after the capture counts.
feedFromEnd(call) == call.end

feedFrom(call) == call.start

conflictsOf(call) == entriesAfter(call.project, feedFrom(call)) \cap Tracked

readEndCursor(c) ==
  /\ WaitsAt(c, "read")
  /\ calls[c].todo = <<>>
  /\ LET end == cursorOf(calls[c].project)
     IN SetCall(c, [calls[c] EXCEPT !.end = end,
                      !.step = IF end > calls[c].start THEN "feed" ELSE "pin"])
  /\ UNCHANGED <<log, healthy, session>>

readFeed(c) ==
  /\ WaitsAt(c, "feed")
  /\ SetCall(c, [calls[c] EXCEPT !.step = "pin", !.conflicted = conflictsOf(calls[c])])
  /\ UNCHANGED <<log, healthy, session>>

\* The last resumption assigns the session, whatever it holds by then.
pinSnapshot(c) ==
  /\ WaitsAt(c, "pin")
  /\ session' = [session EXCEPT ![calls[c].session] =
       [project |-> calls[c].project, cursor |-> calls[c].end,
        conflicted |-> calls[c].conflicted, readAt |-> calls[c].readAt]]
  /\ SetCall(c, Idle)
  /\ UNCHANGED <<log, healthy>>

\* A cursor or the feed could not be read: the call ends with an error.
captureFails(c) ==
  /\ \/ WaitsAt(c, "start")
     \/ WaitsAt(c, "read") /\ calls[c].todo = <<>>
     \/ WaitsAt(c, "feed")
  /\ SetCall(c, Idle)
  /\ UNCHANGED <<log, healthy, session>>

CaptureStep(c) ==
  \/ readStartCursor(c) \/ readResource(c) \/ readEndCursor(c)
  \/ readFeed(c) \/ pinSnapshot(c) \/ captureFails(c)

-----------------------------------------------------------------------------
(* The world around the calls *)

upstreamChange(p, r) ==
  /\ cursorOf(p) < MaxLog
  /\ log' = [log EXCEPT ![p] = Append(@, r)]
  /\ UNCHANGED <<healthy, session, calls>>

\* runConformanceFor records the outcome of a run of the suite.
recordConformance(p) ==
  /\ healthy' \in {healthy \cup {p}, healthy \ {p}}
  /\ UNCHANGED <<log, session, calls>>

restart ==
  /\ session' = [s \in Sessions |-> NoPin]
  /\ calls' = [c \in Calls |-> Idle]
  /\ UNCHANGED <<log, healthy>>

GatewayNext ==
  \/ \E c \in Calls, s \in Sessions :
       getSnapshot(c, s) \/ \E p \in Projects : selectProject(c, s, p)
  \/ \E c \in Calls : CaptureStep(c)
  \/ \E p \in Projects :
       recordConformance(p) \/ \E r \in Tracked \cup Elsewhere : upstreamChange(p, r)
  \/ restart

GatewaySpec == GatewayInit /\ [][GatewayNext]_gatewayVars

-----------------------------------------------------------------------------
(* Properties *)

\* "Resources that changed while the snapshot was being taken are conflicted,
\* not silently mixed-revision" (gateway.ts:293-294): a captured resource that
\* is not marked stands as it did at the cursor the snapshot names.
MixedRevisionIsFlagged ==
  \A s \in Sessions : session[s] # NoPin =>
    LET snap == session[s] IN
    \A r \in DOMAIN snap.readAt \ snap.conflicted :
      \A n \in snap.readAt[r] + 1 .. snap.cursor : log[snap.project][n] # r

\* A switch releases the snapshot of the project switched from and pins the
\* other's (gateway.ts:381-390): a session changes its project only when a
\* selection of that project completes.
SwitchSticks ==
  [][\A s \in Sessions :
       session[s] # NoPin /\ session'[s] # NoPin /\ session'[s].project # session[s].project
         => \E c \in Calls : /\ calls[c].op = "select"
                             /\ calls[c].session = s
                             /\ calls'[c] = Idle]_gatewayVars
=============================================================================
