------------------------ MODULE ProjectChangesProofs ------------------------
(***************************************************************************)
(* Theorems about the two-phase writes of ProjectChanges and the snapshots *)
(* of Gateway they rest on, for any projects, sessions, resources and      *)
(* number of concurrent calls, restarts and lost requests included.        *)
(*                                                                         *)
(* Everything here is about what a call knows while it waits: the approval *)
(* it consumed is spent and nobody else holds it (Spent), and what it read *)
(* of the project still describes the project it read it from (Sound).     *)
(* Last, what a change makes of the data it lands on is what its diff      *)
(* showed, for change sets of any length.                                  *)
(***************************************************************************)
EXTENDS ProjectChanges, TLAPS, SequenceTheorems, WellFoundedInduction

CallRecord == {Idle} \cup Capture \cup Prepare \cup Apply

CallsTyped == calls \in [Calls -> CallRecord]

ApprovalTyped == approval \in [Digests -> Approvals!Approvals]

ReadAts == UNION {[R -> Cursors] : R \in SUBSET Tracked}

-----------------------------------------------------------------------------
(* The records of the calls *)

LEMMA CursorsAreNaturals == Cursors \subseteq Nat /\ 0 \in Cursors
BY GatewayAssumption DEF Cursors

LEMMA ReadAtDef ==
  ASSUME NEW f
  PROVE  f \in ReadAts <=> \E R \in SUBSET Tracked : f \in [R -> Cursors]
BY DEF ReadAts

LEMMA NothingRead == <<>> \in ReadAts /\ DOMAIN <<>> = {}
<1>1. <<>> \in [{} -> Cursors]
  OBVIOUS
<1>2. QED
  BY <1>1, ReadAtDef

\* A call that captures a snapshot is a Capture, whatever else calls may be.
LEMMA CaptureRecord ==
  ASSUME CallsTyped, NEW c \in Calls, NEW step, WaitsAt(c, step)
  PROVE  calls[c] \in Capture /\ calls[c].step = step
BY DEF CallsTyped, CallRecord, WaitsAt, Idle, Prepare, Apply

LEMMA PrepareRecord ==
  ASSUME CallsTyped, NEW c \in Calls, calls[c].op = "prepare"
  PROVE  calls[c] \in Prepare
BY DEF CallsTyped, CallRecord, Idle, Capture, Apply

LEMMA ApplyRecord ==
  ASSUME CallsTyped, NEW c \in Calls, calls[c].op = "apply"
  PROVE  calls[c] \in Apply
BY DEF CallsTyped, CallRecord, Idle, Capture, Prepare

\* A resumption writes the record of its own call.
LEMMA SetCallEffect ==
  ASSUME CallsTyped, NEW c \in Calls, NEW record \in CallRecord, SetCall(c, record)
  PROVE  /\ CallsTyped'
         /\ calls'[c] = record
         /\ \A e \in Calls \ {c} : calls'[e] = calls[e]
BY DEF CallsTyped, SetCall

LEMMA NewCaptureTyped ==
  ASSUME NEW op \in {"select", "refresh"}, NEW s \in Sessions, NEW p \in Projects
  PROVE  NewCapture(op, s, p) \in Capture
<1>1. Resources \in {SubSeq(Resources, n, Len(Resources)) : n \in 1 .. Len(Resources) + 1}
  <2>1. Resources = SubSeq(Resources, 1, Len(Resources)) /\ Len(Resources) \in Nat
    BY GatewayAssumption, SubSeqFull, LenProperties
  <2>2. QED
    BY <2>1
<1>2. <<>> \in UNION {[R -> Cursors] : R \in SUBSET Tracked}
  BY NothingRead DEF ReadAts
<1>3. QED
  BY <1>1, <1>2, CursorsAreNaturals DEF NewCapture, Capture

\* What is still to be read is an end of the list.
LEMMA TodoTail ==
  ASSUME NEW todo \in {SubSeq(Resources, n, Len(Resources)) : n \in 1 .. Len(Resources) + 1},
         todo # <<>>
  PROVE  /\ Head(todo) \in Tracked
         /\ Tail(todo) \in {SubSeq(Resources, n, Len(Resources)) : n \in 1 .. Len(Resources) + 1}
<1>1. Resources \in Seq(Tracked) /\ Len(Resources) \in Nat
  BY GatewayAssumption, LenProperties DEF Tracked
<1>2. PICK n \in 1 .. Len(Resources) + 1 : todo = SubSeq(Resources, n, Len(Resources))
  OBVIOUS
<1>3. n \in 1 .. Len(Resources)
  BY <1>1, <1>2, SubSeqEmpty
<1>4. /\ Head(todo) = Resources[n]
      /\ Tail(todo) = SubSeq(Resources, n + 1, Len(Resources))
  BY <1>1, <1>2, <1>3, HeadTailOfSubSeq
<1>5. Head(todo) \in Tracked
  BY <1>1, <1>3, <1>4, ElementOfSeq
<1>6. n + 1 \in 1 .. Len(Resources) + 1
  BY <1>1, <1>3
<1>7. QED
  BY <1>4, <1>5, <1>6

-----------------------------------------------------------------------------
(* What a snapshot and the capture of one know of the project.             *)

\* What is read and not marked did not change between its reading and the
\* cursor, which the project has reached.
Flagged(snap, cursor) ==
  /\ cursor <= cursorOf(snap.project)
  /\ \A r \in DOMAIN snap.readAt \ snap.conflicted :
       \A n \in snap.readAt[r] + 1 .. cursor : log[snap.project][n] # r

Sound(call) ==
  call.op \in {"select", "refresh"} =>
    /\ call.step = "start" => DOMAIN call.readAt = {}
    /\ call.step = "read" => call.start <= cursorOf(call.project)
    /\ call.step \in {"read", "feed"} =>
         \A r \in DOMAIN call.readAt : call.start <= call.readAt[r]
    /\ call.step = "feed" => call.end <= cursorOf(call.project)
    /\ call.step = "pin" => Flagged(call, call.end)

SessionsSound == \A s \in Sessions : session[s] # NoPin => Flagged(session[s], session[s].cursor)

\* The feed of a project only grows.
LogGrows ==
  \A p \in Projects :
    /\ cursorOf(p) <= cursorOf(p)'
    /\ \A n \in 1 .. cursorOf(p) : log'[p][n] = log[p][n]

LEMMA CursorTyped ==
  ASSUME GatewayTypeOK, NEW p \in Projects
  PROVE  cursorOf(p) \in Cursors /\ cursorOf(p) \in Nat
<1>1. Len(log[p]) \in Nat /\ Len(log[p]) <= MaxLog
  BY LenProperties DEF GatewayTypeOK
<1>2. QED
  BY <1>1, GatewayAssumption DEF cursorOf, Cursors

\* A resource of readAt was read at a cursor.
LEMMA ReadAtTyped ==
  ASSUME NEW f \in ReadAts, NEW r \in DOMAIN f
  PROVE  r \in Tracked /\ f[r] \in Cursors /\ f[r] \in Nat
<1>1. PICK R \in SUBSET Tracked : f \in [R -> Cursors]
  BY ReadAtDef
<1>2. QED
  BY <1>1, CursorsAreNaturals

LEMMA FlaggedStays ==
  ASSUME LogGrows, GatewayTypeOK, NEW snap, snap.project \in Projects,
         snap.readAt \in ReadAts, NEW cursor \in Nat, Flagged(snap, cursor),
         GatewayTypeOK'
  PROVE  Flagged(snap, cursor)'
<1>1. /\ cursorOf(snap.project) \in Nat /\ cursorOf(snap.project)' \in Nat
      /\ cursorOf(snap.project) <= cursorOf(snap.project)'
  <2>1. cursorOf(snap.project)' \in Nat
    BY CursorTyped, LenProperties DEF GatewayTypeOK, cursorOf
  <2>2. QED
    BY <2>1, CursorTyped DEF LogGrows
<1>2. cursor <= cursorOf(snap.project)'
  BY <1>1 DEF Flagged
<1>3. ASSUME NEW r \in DOMAIN snap.readAt \ snap.conflicted, NEW n \in snap.readAt[r] + 1 .. cursor
      PROVE  log'[snap.project][n] # r
  <2>1. snap.readAt[r] \in Nat
    BY <1>3, ReadAtTyped
  <2>2. n \in 1 .. cursorOf(snap.project)
    BY <1>1, <2>1 DEF Flagged
  <2>3. log'[snap.project][n] = log[snap.project][n]
    BY <2>2 DEF LogGrows
  <2>4. QED
    BY <1>3, <2>3 DEF Flagged
<1>4. QED
  BY <1>2, <1>3 DEF Flagged

\* While the feed grows a waiting call stays sound.
LEMMA SoundStays ==
  ASSUME LogGrows, GatewayTypeOK, GatewayTypeOK', NEW call \in CallRecord, Sound(call)
  PROVE  Sound(call)'
<1>1. CASE call.op \notin {"select", "refresh"}
  BY <1>1 DEF Sound
<1>2. CASE call.op \in {"select", "refresh"}
  <2>1. call \in Capture
    BY <1>2 DEF CallRecord, Idle, Prepare, Apply
  <2>2. call.project \in Projects /\ call.start \in Nat /\ call.end \in Nat /\ call.readAt \in ReadAts
    BY <2>1, CursorsAreNaturals DEF Capture, ReadAts
  <2>3. /\ cursorOf(call.project) \in Nat /\ cursorOf(call.project)' \in Nat
        /\ cursorOf(call.project) <= cursorOf(call.project)'
    <3>1. cursorOf(call.project)' \in Nat
      BY <2>2, LenProperties DEF GatewayTypeOK, cursorOf
    <3>2. QED
      BY <2>2, <3>1, CursorTyped DEF LogGrows
  <2>4. call.step = "read" => call.start <= cursorOf(call.project)'
    BY <1>2, <2>2, <2>3 DEF Sound
  <2>5. call.step = "feed" => call.end <= cursorOf(call.project)'
    BY <1>2, <2>2, <2>3 DEF Sound
  <2>6. call.step = "pin" => Flagged(call, call.end)'
    BY <1>2, <2>2, FlaggedStays DEF Sound
  <2>7. QED
    BY <1>2, <2>4, <2>5, <2>6 DEF Sound
<1>3. QED
  BY <1>1, <1>2

-----------------------------------------------------------------------------
(* The steps of the gateway *)

GatewayInv ==
  /\ GatewayTypeOK
  /\ CallsTyped
  /\ SessionsSound
  /\ \A c \in Calls : Sound(calls[c])

\* A resumption that only writes its own record.
LEMMA ResumeKeeps ==
  ASSUME GatewayInv, NEW c \in Calls, calls'[c] \in CallRecord, Sound(calls[c])',
         \A e \in Calls \ {c} : calls'[e] = calls[e], CallsTyped',
         UNCHANGED <<log, healthy, session>>
  PROVE  GatewayInv'
<1>1. GatewayTypeOK'
  BY DEF GatewayInv, GatewayTypeOK
<1>2. SessionsSound'
  BY DEF GatewayInv, SessionsSound, Flagged, cursorOf
<1>3. ASSUME NEW e \in Calls \ {c} PROVE Sound(calls[e])'
  BY <1>3 DEF GatewayInv, Sound, Flagged, cursorOf
<1>4. QED
  BY <1>1, <1>2, <1>3 DEF GatewayInv

\* A call that starts to capture, or ends, holds nothing that could be wrong.
LEMMA FreshKeeps ==
  ASSUME GatewayInv, NEW c \in Calls, UNCHANGED <<log, healthy, session>>,
         \/ SetCall(c, Idle)
         \/ \E op \in {"select", "refresh"}, s \in Sessions, p \in Projects :
              SetCall(c, NewCapture(op, s, p))
         \/ \E record \in Prepare \cup Apply : SetCall(c, record)
  PROVE  GatewayInv'
<1>1. CallsTyped
  BY DEF GatewayInv
<1>2. PICK record \in CallRecord :
        /\ SetCall(c, record)
        /\ record.op \in {"select", "refresh"} => record.step = "start" /\ record.readAt = <<>>
  <2>1. CASE SetCall(c, Idle)
    BY <2>1 DEF CallRecord, Idle
  <2>2. CASE \E op \in {"select", "refresh"}, s \in Sessions, p \in Projects :
               SetCall(c, NewCapture(op, s, p))
    <3>1. PICK op \in {"select", "refresh"}, s \in Sessions, p \in Projects :
            SetCall(c, NewCapture(op, s, p))
      BY <2>2
    <3>2. /\ NewCapture(op, s, p) \in CallRecord
          /\ NewCapture(op, s, p).step = "start" /\ NewCapture(op, s, p).readAt = <<>>
      BY NewCaptureTyped DEF CallRecord, NewCapture
    <3>3. QED
      BY <3>1, <3>2
  <2>3. CASE \E new \in Prepare \cup Apply : SetCall(c, new)
    BY <2>3 DEF CallRecord, Prepare, Apply
  <2>4. QED
    BY <2>1, <2>2, <2>3
<1>3. /\ CallsTyped' /\ calls'[c] = record
      /\ \A e \in Calls \ {c} : calls'[e] = calls[e]
  BY <1>1, <1>2, SetCallEffect
<1>4. Sound(calls[c])'
  BY <1>2, <1>3, NothingRead DEF Sound
<1>5. QED
  BY <1>3, <1>4, ResumeKeeps

LEMMA StartKeeps ==
  ASSUME GatewayInv, NEW c \in Calls, readStartCursor(c)
  PROVE  GatewayInv'
<1> DEFINE p == calls[c].project
           record == [calls[c] EXCEPT !.start = cursorOf(p), !.step = "read"]
<1>1. calls[c] \in Capture /\ calls[c].step = "start" /\ CallsTyped
  BY CaptureRecord DEF GatewayInv, readStartCursor
<1>2. cursorOf(p) \in Cursors /\ cursorOf(p) \in Nat
  BY <1>1, CursorTyped DEF GatewayInv, Capture
<1>3. /\ record \in Capture
      /\ record.step = "read" /\ record.start = cursorOf(p)
      /\ record.project = p /\ record.readAt = calls[c].readAt
  BY <1>1, <1>2 DEF Capture
<1>4. DOMAIN calls[c].readAt = {}
  BY <1>1 DEF GatewayInv, Sound, Capture
<1> HIDE DEF record
<1>5. /\ CallsTyped' /\ calls'[c] = record
      /\ \A e \in Calls \ {c} : calls'[e] = calls[e]
      /\ UNCHANGED <<log, healthy, session>>
  <2>1. SetCall(c, record) /\ record \in CallRecord
    BY <1>3 DEF readStartCursor, record, CallRecord
  <2>2. QED
    BY <1>1, <2>1, SetCallEffect DEF readStartCursor
<1>6. Sound(calls[c])'
  BY <1>2, <1>3, <1>4, <1>5 DEF Sound, cursorOf
<1>7. QED
  BY <1>3, <1>5, <1>6, ResumeKeeps DEF CallRecord

\* What a read adds was read at the cursor of now, which the start precedes.
LEMMA ReadKeeps ==
  ASSUME GatewayInv, NEW c \in Calls, readResource(c)
  PROVE  GatewayInv'
<1> DEFINE p == calls[c].project
<1>1. /\ calls[c] \in Capture /\ calls[c].step = "read" /\ CallsTyped
      /\ calls[c].readAt \in ReadAts
  BY CaptureRecord DEF GatewayInv, readResource, Capture, ReadAts
<1>2. cursorOf(p) \in Cursors /\ cursorOf(p) \in Nat /\ calls[c].start \in Nat
  BY <1>1, CursorTyped, CursorsAreNaturals DEF GatewayInv, Capture
<1>3. PICK got \in {{Head(calls[c].todo)}, {}} :
        SetCall(c, [calls[c] EXCEPT !.todo = Tail(@), !.readAt = readNow(calls[c], got)])
  BY DEF readResource
<1>4. /\ calls[c].start <= cursorOf(p)
      /\ \A r \in DOMAIN calls[c].readAt : calls[c].start <= calls[c].readAt[r]
  BY <1>1 DEF GatewayInv, Sound, Capture
<1>5. /\ got \subseteq Tracked
      /\ Tail(calls[c].todo) \in
           {SubSeq(Resources, n, Len(Resources)) : n \in 1 .. Len(Resources) + 1}
  BY <1>1, TodoTail DEF readResource, Capture
<1> DEFINE now == readNow(calls[c], got)
           record == [calls[c] EXCEPT !.todo = Tail(@), !.readAt = now]
<1>6. now \in ReadAts /\ \A r \in DOMAIN now : calls[c].start <= now[r]
  <2>1. PICK R \in SUBSET Tracked : calls[c].readAt \in [R -> Cursors]
    BY <1>1, ReadAtDef
  <2>2. now \in [R \cup got -> Cursors]
    BY <1>2, <2>1 DEF readNow
  <2>3. now \in ReadAts
    BY <1>5, <2>1, <2>2, ReadAtDef
  <2>4. \A r \in DOMAIN now : calls[c].start <= now[r]
    BY <1>4 DEF readNow
  <2>5. QED
    BY <2>3, <2>4
<1>7. /\ record \in Capture
      /\ record.step = "read" /\ record.start = calls[c].start
      /\ record.project = p /\ record.readAt = now
  BY <1>1, <1>5, <1>6 DEF Capture, ReadAts
<1>8. SetCall(c, record)
  BY <1>3
<1> HIDE DEF record, now
<1>9. /\ CallsTyped' /\ calls'[c] = record
      /\ \A e \in Calls \ {c} : calls'[e] = calls[e]
      /\ UNCHANGED <<log, healthy, session>>
  BY <1>1, <1>7, <1>8, SetCallEffect DEF readResource, CallRecord
<1>10. Sound(calls[c])'
  BY <1>4, <1>6, <1>7, <1>9 DEF Sound, cursorOf
<1>11. QED
  BY <1>7, <1>9, <1>10, ResumeKeeps DEF CallRecord

\* Without an entry since the start nothing can have changed in between.
LEMMA EndKeeps ==
  ASSUME GatewayInv, NEW c \in Calls, readEndCursor(c)
  PROVE  GatewayInv'
<1> DEFINE p == calls[c].project
           next == IF cursorOf(p) > calls[c].start THEN "feed" ELSE "pin"
           record == [calls[c] EXCEPT !.end = cursorOf(p), !.step = next]
<1>1. /\ calls[c] \in Capture /\ calls[c].step = "read" /\ CallsTyped
      /\ calls[c].readAt \in ReadAts
  BY CaptureRecord DEF GatewayInv, readEndCursor, Capture, ReadAts
<1>2. cursorOf(p) \in Cursors /\ cursorOf(p) \in Nat /\ calls[c].start \in Nat
  BY <1>1, CursorTyped, CursorsAreNaturals DEF GatewayInv, Capture
<1>3. \A r \in DOMAIN calls[c].readAt :
        calls[c].start <= calls[c].readAt[r] /\ calls[c].readAt[r] \in Nat
  BY <1>1, ReadAtTyped DEF GatewayInv, Sound, Capture
<1>4. /\ record \in Capture
      /\ record.step = next /\ record.end = cursorOf(p) /\ record.start = calls[c].start
      /\ record.project = p /\ record.readAt = calls[c].readAt
  BY <1>1, <1>2 DEF Capture
<1>5. SetCall(c, record) /\ UNCHANGED <<log, healthy, session>>
  BY DEF readEndCursor
<1>6. next \in {"feed", "pin"} /\ (next = "pin" => cursorOf(p) <= calls[c].start)
  BY <1>2
<1> HIDE DEF record, next
<1>7. /\ CallsTyped' /\ calls'[c] = record
      /\ \A e \in Calls \ {c} : calls'[e] = calls[e]
  BY <1>1, <1>4, <1>5, SetCallEffect DEF CallRecord
<1>8. next = "pin" =>
        \A r \in DOMAIN calls[c].readAt : calls[c].readAt[r] + 1 .. cursorOf(p) = {}
  BY <1>2, <1>3, <1>6
<1>9. next = "pin" => Flagged(calls[c], calls[c].end)'
  BY <1>2, <1>4, <1>5, <1>7, <1>8 DEF Flagged, cursorOf
<1>10. Sound(calls[c])'
  BY <1>2, <1>3, <1>4, <1>5, <1>6, <1>7, <1>9 DEF Sound, cursorOf
<1>11. QED
  BY <1>4, <1>5, <1>7, <1>10, ResumeKeeps DEF CallRecord

\* The feed names everything that changed since the start.
LEMMA FeedKeeps ==
  ASSUME GatewayInv, NEW c \in Calls, readFeed(c)
  PROVE  GatewayInv'
<1> DEFINE p == calls[c].project
           record == [calls[c] EXCEPT !.step = "pin", !.conflicted = conflictsOf(calls[c])]
<1>1. /\ calls[c] \in Capture /\ calls[c].step = "feed" /\ CallsTyped
      /\ calls[c].readAt \in ReadAts
  BY CaptureRecord DEF GatewayInv, readFeed, Capture, ReadAts
<1>2. cursorOf(p) \in Nat /\ calls[c].start \in Nat /\ calls[c].end \in Nat
  BY <1>1, CursorTyped, CursorsAreNaturals DEF GatewayInv, Capture
<1>3. /\ calls[c].end <= cursorOf(p)
      /\ \A r \in DOMAIN calls[c].readAt :
           /\ calls[c].start <= calls[c].readAt[r]
           /\ calls[c].readAt[r] \in Nat /\ r \in Tracked
  BY <1>1, ReadAtTyped DEF GatewayInv, Sound, Capture
<1>4. conflictsOf(calls[c]) \subseteq Tracked
  BY DEF conflictsOf
<1>5. /\ record \in Capture
      /\ record.step = "pin" /\ record.end = calls[c].end
      /\ record.conflicted = conflictsOf(calls[c])
      /\ record.project = p /\ record.readAt = calls[c].readAt
  BY <1>1, <1>4 DEF Capture
<1>6. SetCall(c, record) /\ UNCHANGED <<log, healthy, session>>
  BY DEF readFeed
<1> HIDE DEF record
<1>7. /\ CallsTyped' /\ calls'[c] = record
      /\ \A e \in Calls \ {c} : calls'[e] = calls[e]
  BY <1>1, <1>5, <1>6, SetCallEffect DEF CallRecord
<1>8. ASSUME NEW r \in DOMAIN calls[c].readAt \ conflictsOf(calls[c]),
             NEW n \in calls[c].readAt[r] + 1 .. calls[c].end
      PROVE  log[p][n] # r
  <2>1. n \in calls[c].start + 1 .. cursorOf(p)
    BY <1>2, <1>3
  <2>2. r \in Tracked
    BY <1>3
  <2>3. QED
    BY <2>1, <2>2 DEF conflictsOf, entriesAfter, feedFrom
<1>9. Flagged(calls[c], calls[c].end)'
  BY <1>3, <1>5, <1>6, <1>7, <1>8 DEF Flagged, cursorOf
<1>10. Sound(calls[c])'
  BY <1>5, <1>7, <1>9 DEF Sound
<1>11. QED
  BY <1>5, <1>6, <1>7, <1>10, ResumeKeeps DEF CallRecord

LEMMA PinKeeps ==
  ASSUME GatewayInv, NEW c \in Calls, pinSnapshot(c)
  PROVE  GatewayInv'
<1> DEFINE p == calls[c].project
           snap == [project |-> p, cursor |-> calls[c].end,
                    conflicted |-> calls[c].conflicted, readAt |-> calls[c].readAt]
<1>1. /\ calls[c] \in Capture /\ calls[c].step = "pin" /\ CallsTyped
      /\ GatewayTypeOK /\ Idle \in CallRecord
  BY CaptureRecord DEF GatewayInv, pinSnapshot, CallRecord
<1>2. snap \in Snapshot /\ calls[c].session \in Sessions
  BY <1>1 DEF Capture, Snapshot
<1>3. Flagged(calls[c], calls[c].end)
  BY <1>1 DEF GatewayInv, Sound, Capture
<1>4. Flagged(snap, snap.cursor)
  BY <1>3 DEF Flagged
<1>5. session' = [session EXCEPT ![calls[c].session] = snap] /\ SetCall(c, Idle)
  BY DEF pinSnapshot
<1>6. UNCHANGED <<log, healthy>>
  BY DEF pinSnapshot
<1> HIDE DEF snap
<1>7. /\ CallsTyped' /\ calls'[c] = Idle
      /\ \A e \in Calls \ {c} : calls'[e] = calls[e]
  BY <1>1, <1>5, SetCallEffect
<1>8. GatewayTypeOK'
  BY <1>1, <1>2, <1>5, <1>6 DEF GatewayTypeOK
<1>9. ASSUME NEW s \in Sessions, session'[s] # NoPin
      PROVE  Flagged(session[s], session[s].cursor)'
  <2>1. CASE s = calls[c].session
    <3>1. session'[s] = snap
      BY <1>1, <1>5, <2>1 DEF GatewayTypeOK
    <3>2. QED
      BY <1>4, <1>6, <3>1 DEF Flagged, cursorOf
  <2>2. CASE s # calls[c].session
    <3>1. session'[s] = session[s]
      BY <1>1, <1>5, <2>2 DEF GatewayTypeOK
    <3>2. Flagged(session[s], session[s].cursor)
      BY <1>9, <3>1 DEF GatewayInv, SessionsSound
    <3>3. QED
      BY <1>6, <3>1, <3>2 DEF Flagged, cursorOf
  <2>3. QED
    BY <2>1, <2>2
<1>10. ASSUME NEW e \in Calls PROVE Sound(calls[e])'
  BY <1>6, <1>7 DEF GatewayInv, Sound, Flagged, cursorOf, Idle
<1>11. QED
  BY <1>7, <1>8, <1>9, <1>10 DEF GatewayInv, SessionsSound

\* While the project moves on, what is known of its past stays true.
LEMMA GrowthKeeps ==
  ASSUME GatewayInv, LogGrows, GatewayTypeOK', UNCHANGED <<session, calls>>
  PROVE  GatewayInv'
<1>1. GatewayTypeOK /\ CallsTyped /\ CallsTyped'
  BY DEF GatewayInv, CallsTyped
<1>2. ASSUME NEW s \in Sessions, session'[s] # NoPin
      PROVE  Flagged(session[s], session[s].cursor)'
  <2>1. \A snap \in Snapshot : Flagged(snap, snap.cursor) => Flagged(snap, snap.cursor)'
    <3>1. TAKE snap \in Snapshot
    <3>2. snap.project \in Projects /\ snap.readAt \in ReadAts /\ snap.cursor \in Nat
      BY CursorsAreNaturals DEF Snapshot, ReadAts
    <3>3. QED
      BY <1>1, <3>2, FlaggedStays
  <2>2. session[s] \in Snapshot /\ session'[s] = session[s]
    BY <1>1, <1>2 DEF GatewayTypeOK
  <2>3. Flagged(session[s], session[s].cursor)
    BY <1>2, <2>2 DEF GatewayInv, SessionsSound
  <2>4. QED
    BY <2>1, <2>2, <2>3
<1>3. ASSUME NEW c \in Calls PROVE Sound(calls[c])'
  <2>1. \A call \in CallRecord : Sound(call) => Sound(call)'
    BY <1>1, SoundStays
  <2>2. calls[c] \in CallRecord /\ calls'[c] = calls[c] /\ Sound(calls[c])
    BY <1>1 DEF GatewayInv, CallsTyped
  <2>3. QED
    BY <2>1, <2>2
<1>4. QED
  BY <1>1, <1>2, <1>3 DEF GatewayInv, SessionsSound

LEMMA AppendGrows ==
  ASSUME GatewayTypeOK, NEW p \in Projects, NEW r \in Tracked \cup Elsewhere,
         cursorOf(p) < MaxLog, log' = [log EXCEPT ![p] = Append(@, r)],
         UNCHANGED <<healthy, session>>
  PROVE  LogGrows /\ GatewayTypeOK' /\ cursorOf(p)' = cursorOf(p) + 1
<1>1. log[p] \in Seq(Tracked \cup Elsewhere)
  BY DEF GatewayTypeOK
<1>2. /\ Append(log[p], r) \in Seq(Tracked \cup Elsewhere)
      /\ Len(Append(log[p], r)) = Len(log[p]) + 1
      /\ \A n \in 1 .. Len(log[p]) : Append(log[p], r)[n] = log[p][n]
      /\ Len(log[p]) \in Nat
  BY <1>1, AppendProperties, LenProperties
<1>3. log'[p] = Append(log[p], r) /\ \A q \in Projects \ {p} : log'[q] = log[q]
  BY DEF GatewayTypeOK
<1>4. LogGrows
  <2>1. ASSUME NEW q \in Projects
        PROVE  cursorOf(q) <= cursorOf(q)' /\ \A n \in 1 .. cursorOf(q) : log'[q][n] = log[q][n]
    <3>1. CASE q = p
      BY <1>2, <1>3, <3>1 DEF cursorOf
    <3>2. CASE q # p
      BY <1>3, <3>2, CursorTyped DEF cursorOf
    <3>3. QED
      BY <3>1, <3>2
  <2>2. QED
    BY <2>1 DEF LogGrows
<1>5. log' \in [Projects -> Seq(Tracked \cup Elsewhere)]
  BY <1>2 DEF GatewayTypeOK
<1>6. \A q \in Projects : Len(log'[q]) <= MaxLog
  BY <1>2, <1>3, GatewayAssumption DEF GatewayTypeOK, cursorOf
<1>7. QED
  BY <1>2, <1>3, <1>4, <1>5, <1>6 DEF GatewayTypeOK, cursorOf

LEMMA GatewayStepKeeps ==
  ASSUME GatewayInv, GatewayNext
  PROVE  GatewayInv'
<1>1. GatewayTypeOK /\ CallsTyped
  BY DEF GatewayInv
<1>2. ASSUME NEW c \in Calls, NEW s \in Sessions,
             getSnapshot(c, s) \/ \E p \in Projects : selectProject(c, s, p)
      PROVE  GatewayInv'
  <2>1. session[s] # NoPin => session[s].project \in Projects
    BY <1>1 DEF GatewayTypeOK, Snapshot
  <2>2. /\ UNCHANGED <<log, healthy, session>>
        /\ \E op \in {"select", "refresh"}, p \in Projects : SetCall(c, NewCapture(op, s, p))
    BY <1>2, <2>1 DEF getSnapshot, selectProject
  <2>3. QED
    BY <2>2, FreshKeeps
<1>3. ASSUME NEW c \in Calls, CaptureStep(c) PROVE GatewayInv'
  <2>1. CASE captureFails(c)
    BY <2>1, FreshKeeps DEF captureFails
  <2>2. QED
    BY <1>3, <2>1, StartKeeps, ReadKeeps, EndKeeps, FeedKeeps, PinKeeps DEF CaptureStep
<1>4. ASSUME NEW p \in Projects, NEW r \in Tracked \cup Elsewhere, upstreamChange(p, r)
      PROVE  GatewayInv'
  BY <1>1, <1>4, AppendGrows, GrowthKeeps DEF upstreamChange
<1>5. ASSUME NEW p \in Projects, recordConformance(p) PROVE GatewayInv'
  <2>1. GatewayTypeOK'
    BY <1>1, <1>5 DEF recordConformance, GatewayTypeOK
  <2>2. LogGrows
    BY <1>1, <1>5, CursorTyped DEF recordConformance, LogGrows, cursorOf
  <2>3. QED
    BY <1>5, <2>1, <2>2, GrowthKeeps DEF recordConformance
<1>6. CASE restart
  <2>1. GatewayTypeOK' /\ CallsTyped'
    BY <1>1, <1>6 DEF restart, GatewayTypeOK, CallsTyped, CallRecord
  <2>2. SessionsSound' /\ \A c \in Calls : Sound(calls[c])'
    BY <1>6 DEF restart, SessionsSound, Sound, Idle
  <2>3. QED
    BY <2>1, <2>2 DEF GatewayInv
<1>7. QED
  BY <1>2, <1>3, <1>4, <1>5, <1>6 DEF GatewayNext

-----------------------------------------------------------------------------
(* The approval of a digest and the calls that spend it *)

\* The call has consumed the approval of its digest.
Spending(c) == calls[c].op = "apply" /\ calls[c].step \in {"send", "answer"}

TablesTyped ==
  /\ approval \in [Digests -> Approvals!Approvals]
  /\ posts \in [Digests -> {0, 1}]
  /\ wire \subseteq Request
  /\ landings \subseteq Landing
  /\ receipts \subseteq Landing

\* Calls apply changes to the project they are pinned to, and what they hold
\* of an approval nobody else does.
CallsSpendOnce ==
  /\ \A c \in Calls : calls[c].op = "apply" => calls[c].digest.project = calls[c].pinned.project
  /\ \A c \in Calls : Spending(c) =>
       /\ approval[calls[c].digest] = "used"
       /\ posts[calls[c].digest] = IF calls[c].step = "send" THEN 0 ELSE 1
       /\ \A e \in Calls : Spending(e) /\ calls[e].digest = calls[c].digest => e = c
       /\ \A r \in receipts : r.digest # calls[c].digest

RecordsAreSpent ==
  /\ \A d \in Digests : posts[d] = 1 => approval[d] = "used"
  /\ \A w \in wire \cup landings : w.digest.project = w.project /\ posts[w.digest] = 1
  /\ \A r \in receipts : posts[r.digest] = 1

ChangesInv == GatewayInv /\ TablesTyped /\ CallsSpendOnce /\ RecordsAreSpent

\* A step that leaves the tables alone and starts no spending.
LEMMA BystandersKeep ==
  ASSUME ChangesInv, GatewayInv', UNCHANGED <<approval, posts, wire, landings, receipts>>,
         NEW c \in Calls, \A e \in Calls \ {c} : calls'[e] = calls[e],
         ~ Spending(c)',
         calls'[c].op = "apply" => calls'[c].digest.project = calls'[c].pinned.project
  PROVE  ChangesInv'
<1>1. TablesTyped'
  BY DEF ChangesInv, TablesTyped
<1>2. RecordsAreSpent'
  BY DEF ChangesInv, RecordsAreSpent
<1>3. CallsSpendOnce'
  BY DEF ChangesInv, CallsSpendOnce, Spending
<1>4. QED
  BY <1>1, <1>2, <1>3 DEF ChangesInv

LEMMA GatewayIsBystander ==
  ASSUME ChangesInv, GatewayInv', GatewayNext,
         UNCHANGED <<approval, posts, wire, landings, receipts>>
  PROVE  ChangesInv'
<1>1. CallsTyped
  BY DEF ChangesInv, GatewayInv
<1>2. ASSUME NEW e \in Calls, calls'[e].op = "apply" PROVE calls'[e] = calls[e]
  <2>1. CASE UNCHANGED calls
    BY <2>1
  <2>2. CASE restart
    BY <1>2, <2>2 DEF restart, Idle
  <2>3. ASSUME NEW c \in Calls, NEW s \in Sessions,
               getSnapshot(c, s) \/ \E p \in Projects : selectProject(c, s, p)
        PROVE  calls'[e] = calls[e]
    BY <1>1, <1>2, <2>3 DEF getSnapshot, selectProject, SetCall, NewCapture, CallsTyped
  <2>4. ASSUME NEW c \in Calls, CaptureStep(c) PROVE calls'[e] = calls[e]
    <3>1. CASE pinSnapshot(c) \/ captureFails(c)
      BY <1>1, <1>2, <3>1 DEF pinSnapshot, captureFails, SetCall, Idle, CallsTyped
    <3>2. CASE readStartCursor(c) \/ readResource(c) \/ readEndCursor(c) \/ readFeed(c)
      <4>1. calls[c] \in Capture
        BY <1>1, <3>2, CaptureRecord DEF readStartCursor, readResource, readEndCursor, readFeed
      <4>2. calls[c].op # "apply"
        BY <4>1 DEF Capture
      <4>3. calls'[c].op = calls[c].op /\ \A x \in Calls \ {c} : calls'[x] = calls[x]
        <5>1. calls = [x \in Calls |-> calls[x]] /\ "op" \in DOMAIN calls[c]
          BY <1>1, <4>1 DEF CallsTyped, Capture
        <5>2. CASE readStartCursor(c)
          BY <5>1, <5>2 DEF readStartCursor, SetCall
        <5>3. CASE readResource(c)
          BY <5>1, <5>3 DEF readResource, SetCall
        <5>4. CASE readEndCursor(c)
          BY <5>1, <5>4 DEF readEndCursor, SetCall
        <5>5. CASE readFeed(c)
          BY <5>1, <5>5 DEF readFeed, SetCall
        <5>6. QED
          BY <3>2, <5>2, <5>3, <5>4, <5>5
      <4>4. QED
        BY <1>2, <4>2, <4>3
    <3>3. QED
      BY <2>4, <3>1, <3>2 DEF CaptureStep
  <2>5. ASSUME NEW p \in Projects,
               recordConformance(p) \/ \E r \in Tracked \cup Elsewhere : upstreamChange(p, r)
        PROVE  UNCHANGED calls
    BY <2>5 DEF recordConformance, upstreamChange
  <2>6. QED
    BY <2>1, <2>2, <2>3, <2>4, <2>5 DEF GatewayNext
<1>3. TablesTyped' /\ RecordsAreSpent'
  BY DEF ChangesInv, TablesTyped, RecordsAreSpent
<1>4. CallsSpendOnce'
  BY <1>2 DEF ChangesInv, CallsSpendOnce, Spending
<1>5. QED
  BY <1>3, <1>4 DEF ChangesInv

\* A prepare, and an apply before it consumes, hold nothing yet.
LEMMA StartsKeep ==
  ASSUME ChangesInv, NEW c \in Calls,
         \/ \E s \in Sessions, change \in ChangeSets : prepareChange(c, s, change)
         \/ \E s \in Sessions, d \in Digests : applyChange(c, s, d)
  PROVE  ChangesInv'
<1>1. GatewayInv /\ GatewayTypeOK /\ CallsTyped
  BY DEF ChangesInv, GatewayInv
<1>2. PICK record \in Prepare \cup Apply :
        /\ SetCall(c, record)
        /\ record.step = "stale"
        /\ record.op = "apply" => record.digest.project = record.pinned.project
  <2>1. ASSUME NEW s \in Sessions, NEW change \in ChangeSets, prepareChange(c, s, change)
        PROVE  \E record \in Prepare \cup Apply :
                 /\ SetCall(c, record)
                 /\ record.step = "stale"
                 /\ record.op = "apply" => record.digest.project = record.pinned.project
    <3> DEFINE new == [op |-> "prepare", session |-> s, pinned |-> session[s],
                       change |-> change, step |-> "stale"]
    <3>1. session[s] \in Snapshot
      BY <1>1, <2>1 DEF prepareChange, GatewayTypeOK
    <3>2. new \in Prepare /\ new.step = "stale" /\ new.op # "apply" /\ SetCall(c, new)
      BY <2>1, <3>1 DEF prepareChange, Prepare
    <3>3. QED
      BY <3>2
  <2>2. ASSUME NEW s \in Sessions, NEW d \in Digests, applyChange(c, s, d)
        PROVE  \E record \in Prepare \cup Apply :
                 /\ SetCall(c, record)
                 /\ record.step = "stale"
                 /\ record.op = "apply" => record.digest.project = record.pinned.project
    <3> DEFINE new == [op |-> "apply", session |-> s, pinned |-> session[s],
                       digest |-> d, step |-> "stale"]
    <3>1. session[s] \in Snapshot
      BY <1>1, <2>2 DEF applyChange, GatewayTypeOK
    <3>2. /\ new \in Apply /\ new.step = "stale" /\ SetCall(c, new)
          /\ new.digest.project = new.pinned.project
      BY <2>2, <3>1 DEF applyChange, Apply, OwnProject
    <3>3. QED
      BY <3>2
  <2>3. QED
    BY <2>1, <2>2
<1>3. UNCHANGED <<log, healthy, session, approval, posts, wire, landings, receipts>>
  BY DEF prepareChange, applyChange, applyVars
<1>4. GatewayInv'
  BY <1>1, <1>2, <1>3, FreshKeeps
<1>5. /\ calls'[c] = record
      /\ \A e \in Calls \ {c} : calls'[e] = calls[e]
  BY <1>1, <1>2, SetCallEffect DEF CallRecord
<1>6. QED
  BY <1>2, <1>3, <1>4, <1>5, BystandersKeep DEF Spending

\* A call that ends, whatever it held.
LEMMA EndsKeep ==
  ASSUME ChangesInv, NEW c \in Calls, SetCall(c, Idle),
         UNCHANGED <<log, healthy, session, approval, posts, wire, landings, receipts>>
  PROVE  ChangesInv'
<1>1. GatewayInv /\ CallsTyped
  BY DEF ChangesInv, GatewayInv
<1>2. GatewayInv'
  BY <1>1, FreshKeeps
<1>3. /\ calls'[c] = Idle
      /\ \A e \in Calls \ {c} : calls'[e] = calls[e]
  BY <1>1, SetCallEffect DEF CallRecord
<1>4. QED
  BY <1>2, <1>3, BystandersKeep DEF Spending, Idle

LEMMA StalenessKeeps ==
  ASSUME ChangesInv, NEW c \in Calls,
         readStaleness(c, "prepare", "policy") \/ readStaleness(c, "apply", "consume")
  PROVE  ChangesInv'
<1>1. GatewayInv /\ CallsTyped
  BY DEF ChangesInv, GatewayInv
<1>2. UNCHANGED <<log, healthy, session, approval, posts, wire, landings, receipts>>
  BY DEF readStaleness, applyVars
<1>3. CASE SetCall(c, Idle)
  BY <1>2, <1>3, EndsKeep
<1>4. CASE calls[c].op = "prepare" /\ SetCall(c, [calls[c] EXCEPT !.step = "policy"])
  <2> DEFINE record == [calls[c] EXCEPT !.step = "policy"]
  <2>1. record \in Prepare /\ record.op = "prepare"
    BY <1>1, <1>4, PrepareRecord DEF Prepare
  <2> HIDE DEF record
  <2>2. SetCall(c, record)
    BY <1>4 DEF record
  <2>3. GatewayInv'
    BY <1>1, <1>2, <2>1, <2>2, FreshKeeps
  <2>4. /\ calls'[c] = record
        /\ \A e \in Calls \ {c} : calls'[e] = calls[e]
    BY <1>1, <2>1, <2>2, SetCallEffect DEF CallRecord
  <2>5. QED
    BY <1>2, <2>1, <2>3, <2>4, BystandersKeep DEF Spending
<1>5. CASE calls[c].op = "apply" /\ SetCall(c, [calls[c] EXCEPT !.step = "consume"])
  <2> DEFINE record == [calls[c] EXCEPT !.step = "consume"]
  <2>1. /\ record \in Apply /\ record.step = "consume"
        /\ record.digest.project = record.pinned.project
    <3>1. calls[c] \in Apply
      BY <1>1, <1>5, ApplyRecord
    <3>2. calls[c].digest.project = calls[c].pinned.project
      BY <1>5 DEF ChangesInv, CallsSpendOnce
    <3>3. QED
      BY <3>1, <3>2 DEF Apply
  <2> HIDE DEF record
  <2>2. SetCall(c, record)
    BY <1>5 DEF record
  <2>3. GatewayInv'
    BY <1>1, <1>2, <2>1, <2>2, FreshKeeps
  <2>4. /\ calls'[c] = record
        /\ \A e \in Calls \ {c} : calls'[e] = calls[e]
    BY <1>1, <2>1, <2>2, SetCallEffect DEF CallRecord
  <2>5. QED
    BY <1>2, <2>1, <2>3, <2>4, BystandersKeep DEF Spending
<1>6. QED
  BY <1>3, <1>4, <1>5 DEF readStaleness

\* A decision is about a digest nobody has spent.
LEMMA ApprovalMoves ==
  ASSUME ChangesInv, NEW d \in Digests, NEW status \in Approvals!Approvals,
         approval[d] \in {"absent", "pending"} \/ (approval[d] = "approved" /\ status = "used"),
         approval' = [approval EXCEPT ![d] = status],
         UNCHANGED <<posts, wire, landings, receipts>>
  PROVE  /\ TablesTyped' /\ RecordsAreSpent'
         /\ \A e \in Digests : approval[e] = "used" => approval'[e] = "used"
         /\ \A c \in Calls : Spending(c) => calls[c].digest # d
         /\ posts[d] = 0 /\ \A r \in receipts : r.digest # d
<1>1. approval' \in [Digests -> Approvals!Approvals] /\ approval[d] # "used"
  BY DEF ChangesInv, TablesTyped
<1>2. posts[d] = 0
  BY <1>1 DEF ChangesInv, TablesTyped, RecordsAreSpent
<1>3. \A e \in Digests : approval[e] = "used" => approval'[e] = "used"
  BY <1>1 DEF ChangesInv, TablesTyped
<1>4. TablesTyped'
  BY <1>1 DEF ChangesInv, TablesTyped
<1>5. RecordsAreSpent'
  BY <1>3 DEF ChangesInv, RecordsAreSpent
<1>6. \A c \in Calls : Spending(c) => calls[c].digest # d
  BY <1>1 DEF ChangesInv, CallsSpendOnce
<1>7. \A r \in receipts : r.digest # d
  BY <1>2 DEF ChangesInv, RecordsAreSpent
<1>8. QED
  BY <1>2, <1>3, <1>4, <1>5, <1>6, <1>7

LEMMA DecisionKeeps ==
  ASSUME ChangesInv, NEW d \in Digests, NEW decision \in {"approved", "rejected"},
         decidePreparedChangeSet(d, decision)
  PROVE  ChangesInv'
<1>1. /\ approval[d] = "pending" /\ approval' = [approval EXCEPT ![d] = decision]
      /\ decision \in Approvals!Approvals
      /\ UNCHANGED <<log, healthy, session, calls, posts, wire, landings, receipts>>
  BY DEF decidePreparedChangeSet, Undecided, gatewayVars, applyVars, Approvals!Approvals
<1>2. /\ TablesTyped' /\ RecordsAreSpent'
      /\ \A e \in Digests : approval[e] = "used" => approval'[e] = "used"
  BY <1>1, ApprovalMoves
<1>3. GatewayInv'
  BY <1>1 DEF ChangesInv, GatewayInv, GatewayTypeOK, CallsTyped, SessionsSound, Sound, Flagged, cursorOf
<1>4. \A c \in Calls : calls[c].op = "apply" => calls[c].digest \in Digests
  BY ApplyRecord DEF ChangesInv, GatewayInv, Apply
<1>5. CallsSpendOnce'
  BY <1>1, <1>2, <1>4 DEF ChangesInv, CallsSpendOnce, Spending
<1>6. QED
  BY <1>2, <1>3, <1>5 DEF ChangesInv

LEMMA FinishKeeps ==
  ASSUME ChangesInv, NEW c \in Calls, finishPrepare(c)
  PROVE  ChangesInv'
<1> DEFINE d == changeDigest(calls[c].pinned, calls[c].change)
<1>1. /\ GatewayInv /\ CallsTyped /\ SetCall(c, Idle)
      /\ UNCHANGED <<log, healthy, session, posts, wire, landings, receipts>>
  BY DEF ChangesInv, GatewayInv, finishPrepare, applyVars
<1>2. CASE UNCHANGED approval
  BY <1>1, <1>2, EndsKeep
<1>3. CASE approval[d] = "absent" /\ approval' = [approval EXCEPT ![d] = "pending"]
  <2>1. calls[c] \in Prepare
    BY <1>1, PrepareRecord DEF finishPrepare
  <2>2. d \in Digests /\ "pending" \in Approvals!Approvals
    BY <2>1 DEF Prepare, Snapshot, changeDigest, Digests, Approvals!Approvals
  <2> HIDE DEF d
  <2>3. /\ TablesTyped' /\ RecordsAreSpent'
        /\ \A e \in Digests : approval[e] = "used" => approval'[e] = "used"
    BY <1>1, <1>3, <2>2, ApprovalMoves
  <2>4. GatewayInv'
    BY <1>1, FreshKeeps
  <2>5. calls'[c] = Idle /\ \A e \in Calls \ {c} : calls'[e] = calls[e]
    BY <1>1, SetCallEffect DEF CallRecord
  <2>6. \A e \in Calls : calls[e].op = "apply" => calls[e].digest \in Digests
    BY <1>1, ApplyRecord DEF Apply
  <2>7. CallsSpendOnce'
    BY <1>1, <2>3, <2>5, <2>6 DEF ChangesInv, CallsSpendOnce, Spending, Idle
  <2>8. QED
    BY <2>3, <2>4, <2>7 DEF ChangesInv
<1>4. QED
  BY <1>2, <1>3 DEF finishPrepare

\* The call that finds the approval unspent is the only one to hold it.
LEMMA ConsumeKeeps ==
  ASSUME ChangesInv, NEW c \in Calls, consumeApproval(c)
  PROVE  ChangesInv'
<1> DEFINE d == calls[c].digest
           record == [calls[c] EXCEPT !.step = "send"]
<1>1. /\ GatewayInv /\ CallsTyped
      /\ UNCHANGED <<log, healthy, session, posts, wire, landings, receipts>>
  BY DEF ChangesInv, GatewayInv, consumeApproval, applyVars
<1>2. CASE SetCall(c, Idle) /\ UNCHANGED approval
  BY <1>1, <1>2, EndsKeep
<1>3. CASE /\ approval[d] = "approved" /\ approval' = [approval EXCEPT ![d] = "used"]
           /\ SetCall(c, record)
  <2>1. calls[c] \in Apply /\ calls[c].op = "apply"
    BY <1>1, ApplyRecord DEF consumeApproval
  <2>2. d \in Digests /\ "used" \in Approvals!Approvals
    BY <2>1 DEF Apply, Approvals!Approvals
  <2>3. d.project = calls[c].pinned.project
    BY <2>1 DEF ChangesInv, CallsSpendOnce
  <2>4. /\ record \in Apply /\ record.op = "apply" /\ record.step = "send"
        /\ record.digest = d /\ record.pinned = calls[c].pinned
    BY <2>1 DEF Apply
  <2> HIDE DEF record
  <2>5. /\ TablesTyped' /\ RecordsAreSpent'
        /\ \A e \in Digests : approval[e] = "used" => approval'[e] = "used"
        /\ \A e \in Calls : Spending(e) => calls[e].digest # d
        /\ posts[d] = 0 /\ \A r \in receipts : r.digest # d
    BY <1>1, <1>3, <2>2, ApprovalMoves
  <2>6. GatewayInv'
    BY <1>1, <1>3, <2>4, FreshKeeps
  <2>7. calls'[c] = record /\ \A e \in Calls \ {c} : calls'[e] = calls[e]
    BY <1>1, <1>3, <2>4, SetCallEffect DEF CallRecord
  <2>8. approval'[d] = "used"
    BY <1>3, <2>2 DEF ChangesInv, TablesTyped
  <2>9. \A e \in Calls : calls[e].op = "apply" => calls[e].digest \in Digests
    BY <1>1, ApplyRecord DEF Apply
  <2>10. ASSUME NEW e \in Calls, Spending(e)'
         PROVE  /\ approval'[calls'[e].digest] = "used"
                /\ posts'[calls'[e].digest] = IF calls'[e].step = "send" THEN 0 ELSE 1
                /\ \A f \in Calls : Spending(f)' /\ calls'[f].digest = calls'[e].digest => f = e
                /\ \A r \in receipts' : r.digest # calls'[e].digest
    <3>1. CASE e = c
      BY <1>1, <2>4, <2>5, <2>7, <2>8, <3>1 DEF Spending
    <3>2. CASE e # c
      <4>1. Spending(e) /\ calls'[e] = calls[e] /\ calls[e].digest # d
        BY <2>5, <2>7, <2>10, <3>2 DEF Spending
      <4>2. calls[e].digest \in Digests
        BY <2>9, <4>1 DEF Spending
      <4>3. /\ approval[calls[e].digest] = "used"
            /\ posts[calls[e].digest] = IF calls[e].step = "send" THEN 0 ELSE 1
            /\ \A f \in Calls : Spending(f) /\ calls[f].digest = calls[e].digest => f = e
            /\ \A r \in receipts : r.digest # calls[e].digest
        BY <4>1 DEF ChangesInv, CallsSpendOnce
      <4>4. ASSUME NEW f \in Calls, Spending(f)', calls'[f].digest = calls[e].digest PROVE f = e
        <5>1. f # c
          BY <2>4, <2>7, <4>1, <4>4
        <5>2. QED
          BY <2>7, <4>3, <4>4, <5>1 DEF Spending
      <4>5. QED
        BY <1>1, <2>5, <4>1, <4>2, <4>3, <4>4
    <3>3. QED
      BY <3>1, <3>2
  <2>11. \A e \in Calls : calls'[e].op = "apply" =>
           calls'[e].digest.project = calls'[e].pinned.project
    BY <2>3, <2>4, <2>7 DEF ChangesInv, CallsSpendOnce
  <2>12. CallsSpendOnce'
    BY <2>10, <2>11 DEF CallsSpendOnce
  <2>13. QED
    BY <2>5, <2>6, <2>12 DEF ChangesInv
<1>4. QED
  BY <1>2, <1>3 DEF consumeApproval, Consumable

\* The one request of an approval.
LEMMA SendKeeps ==
  ASSUME ChangesInv, NEW c \in Calls, sendApply(c)
  PROVE  ChangesInv'
<1> DEFINE d == calls[c].digest
           record == [calls[c] EXCEPT !.step = "answer"]
<1>1. /\ GatewayInv /\ CallsTyped /\ TablesTyped /\ SetCall(c, record)
      /\ UNCHANGED <<log, healthy, session, approval, landings, receipts>>
  BY DEF ChangesInv, GatewayInv, sendApply
<1>2. calls[c] \in Apply /\ Spending(c) /\ calls[c].step = "send"
  BY <1>1, ApplyRecord DEF sendApply, Spending
<1>3. d \in Digests /\ calls[c].pinned \in Snapshot
  BY <1>2 DEF Apply
<1>4. /\ posts[d] = 0 /\ approval[d] = "used" /\ d.project = calls[c].pinned.project
      /\ \A e \in Calls : Spending(e) /\ calls[e].digest = d => e = c
      /\ \A r \in receipts : r.digest # d
  BY <1>2 DEF ChangesInv, CallsSpendOnce, Spending
<1>5. posts' = [posts EXCEPT ![d] = 1]
  BY <1>1, <1>3, <1>4 DEF sendApply, TablesTyped
<1>6. /\ RequestOf(calls[c]) \in Request
      /\ RequestOf(calls[c]).digest = d /\ RequestOf(calls[c]).project = d.project
      /\ wire' = wire \cup {RequestOf(calls[c])}
  BY <1>3, <1>4 DEF RequestOf, Request, Snapshot, sendApply
<1>7. /\ record \in Apply /\ record.op = "apply" /\ record.step = "answer"
      /\ record.digest = d /\ record.pinned = calls[c].pinned
  BY <1>2 DEF Apply
<1> HIDE DEF record
<1>8. calls'[c] = record /\ \A e \in Calls \ {c} : calls'[e] = calls[e]
  BY <1>1, <1>7, SetCallEffect DEF CallRecord
<1>9. GatewayInv'
  BY <1>1, <1>7, FreshKeeps
<1>10. TablesTyped'
  BY <1>1, <1>3, <1>5, <1>6 DEF TablesTyped
<1>11. posts'[d] = 1 /\ \A e \in Digests \ {d} : posts'[e] = posts[e]
  BY <1>1, <1>3, <1>5 DEF TablesTyped
<1>12. RecordsAreSpent'
  <2>1. ASSUME NEW e \in Digests, posts'[e] = 1 PROVE approval'[e] = "used"
    BY <1>1, <1>4, <1>11, <2>1 DEF ChangesInv, RecordsAreSpent
  <2>2. ASSUME NEW w \in wire' \cup landings'
        PROVE  w.digest.project = w.project /\ posts'[w.digest] = 1
    <3>1. CASE w = RequestOf(calls[c])
      BY <1>6, <1>11, <3>1
    <3>2. CASE w \in wire \cup landings
      <4>1. w.digest \in Digests /\ w.digest.project = w.project /\ posts[w.digest] = 1
        BY <1>1, <3>2 DEF ChangesInv, RecordsAreSpent, TablesTyped, Request, Landing
      <4>2. QED
        BY <1>11, <4>1
    <3>3. QED
      BY <1>1, <1>6, <2>2, <3>1, <3>2
  <2>3. ASSUME NEW r \in receipts PROVE posts'[r.digest] = 1
    <3>1. r.digest \in Digests /\ posts[r.digest] = 1
      BY <1>1, <2>3 DEF ChangesInv, RecordsAreSpent, TablesTyped, Landing
    <3>2. QED
      BY <1>11, <3>1
  <2>4. QED
    BY <1>1, <2>1, <2>2, <2>3 DEF RecordsAreSpent
<1>13. \A e \in Calls : calls[e].op = "apply" => calls[e].digest \in Digests
  BY <1>1, ApplyRecord DEF Apply
<1>14. ASSUME NEW e \in Calls, Spending(e)'
       PROVE  /\ Spending(e) /\ calls'[e].digest = calls[e].digest
              /\ approval'[calls'[e].digest] = "used"
              /\ posts'[calls'[e].digest] = IF calls'[e].step = "send" THEN 0 ELSE 1
              /\ \A r \in receipts' : r.digest # calls'[e].digest
  <2>1. CASE e = c
    BY <1>1, <1>2, <1>4, <1>7, <1>8, <1>11, <2>1
  <2>2. CASE e # c
    <3>1. Spending(e) /\ calls'[e] = calls[e] /\ calls[e].digest # d
      BY <1>4, <1>8, <1>14, <2>2 DEF Spending
    <3>2. calls[e].digest \in Digests
      BY <1>13, <3>1 DEF Spending
    <3>3. QED
      BY <1>1, <1>11, <3>1, <3>2 DEF ChangesInv, CallsSpendOnce
  <2>3. QED
    BY <2>1, <2>2
<1>15. \A e \in Calls : calls'[e].op = "apply" =>
         calls'[e].digest.project = calls'[e].pinned.project
  BY <1>4, <1>7, <1>8 DEF ChangesInv, CallsSpendOnce
<1>16. \A e, f \in Calls : Spending(e)' /\ Spending(f)' /\ calls'[f].digest = calls'[e].digest => f = e
  BY <1>14 DEF ChangesInv, CallsSpendOnce
<1>17. CallsSpendOnce'
  BY <1>14, <1>15, <1>16 DEF CallsSpendOnce
<1>18. QED
  BY <1>9, <1>10, <1>12, <1>17 DEF ChangesInv

LEMMA ReceiptKeeps ==
  ASSUME ChangesInv, NEW c \in Calls, recordReceipt(c)
  PROVE  ChangesInv'
<1> DEFINE d == calls[c].digest
<1>1. /\ GatewayInv /\ GatewayTypeOK /\ CallsTyped /\ TablesTyped
      /\ UNCHANGED <<log, healthy, session, approval, posts, wire, landings>>
  BY DEF ChangesInv, GatewayInv, recordReceipt
<1>2. calls[c] \in Apply /\ Spending(c)
  BY <1>1, ApplyRecord DEF recordReceipt, Spending
<1>3. PICK l \in landings : l.digest = d /\ receipts' = receipts \cup {l}
  BY DEF recordReceipt, LandingsOf, RequestOf
<1>4. PICK record \in CallRecord :
        /\ SetCall(c, record) /\ record.op # "apply"
        /\ \/ record = Idle
           \/ \E s \in Sessions, p \in Projects : record = NewCapture("refresh", s, p)
  <2> DEFINE s == calls[c].session
  <2>1. s \in Sessions /\ (session[s] # NoPin => session[s].project \in Projects)
    <3>1. s \in Sessions
      BY <1>2 DEF Apply
    <3>2. session[s] \in {NoPin} \cup Snapshot
      BY <1>1, <3>1 DEF GatewayTypeOK
    <3>3. QED
      BY <3>1, <3>2 DEF Snapshot
  <2>2. CASE session[s] # NoPin /\ SetCall(c, NewCapture("refresh", s, session[s].project))
    <3>1. NewCapture("refresh", s, session[s].project) \in Capture
      BY <2>1, <2>2, NewCaptureTyped
    <3>2. PICK record \in Capture : record = NewCapture("refresh", s, session[s].project)
      BY <3>1
    <3>3. SetCall(c, record)
      BY <2>2, <3>2
    <3>4. record \in CallRecord /\ record.op # "apply"
      BY DEF CallRecord, Capture
    <3>5. QED
      BY <2>1, <2>2, <3>2, <3>3, <3>4
  <2>3. CASE SetCall(c, Idle)
    BY <2>3 DEF CallRecord, Idle
  <2>4. QED
    BY <2>2, <2>3 DEF recordReceipt
<1>5. GatewayInv'
  BY <1>1, <1>4, FreshKeeps
<1>6. calls'[c] = record /\ \A e \in Calls \ {c} : calls'[e] = calls[e]
  BY <1>1, <1>4, SetCallEffect
<1>7. TablesTyped'
  BY <1>1, <1>3 DEF TablesTyped
<1>8. posts[d] = 1
  BY <1>3 DEF ChangesInv, RecordsAreSpent
<1>9. RecordsAreSpent'
  BY <1>1, <1>3, <1>8 DEF ChangesInv, RecordsAreSpent
<1>10. ASSUME NEW e \in Calls, Spending(e)'
       PROVE  e # c /\ Spending(e) /\ calls'[e] = calls[e] /\ calls[e].digest # d
  <2>1. e # c
    BY <1>4, <1>6, <1>10 DEF Spending
  <2>2. Spending(e) /\ calls'[e] = calls[e]
    BY <1>6, <1>10, <2>1 DEF Spending
  <2>3. QED
    BY <1>2, <2>1, <2>2 DEF ChangesInv, CallsSpendOnce
<1>11. \A e \in Calls : calls'[e].op = "apply" => calls'[e] = calls[e]
  BY <1>4, <1>6
<1>12. CallsSpendOnce'
  BY <1>1, <1>3, <1>10, <1>11 DEF ChangesInv, CallsSpendOnce
<1>13. QED
  BY <1>5, <1>7, <1>9, <1>12 DEF ChangesInv

\* What lands was on its way, and the feed of its project grows by it.
LEMMA ReceiveKeeps ==
  ASSUME ChangesInv, NEW q \in wire, receiveApply(q)
  PROVE  ChangesInv'
<1> DEFINE p == q.project
           l == [project |-> p, digest |-> q.digest, cursor |-> cursorOf(p) + 1]
<1>1. /\ GatewayInv /\ GatewayTypeOK /\ TablesTyped
      /\ wire' = wire \ {q}
      /\ UNCHANGED <<healthy, session, calls, approval, posts, receipts>>
  BY DEF ChangesInv, GatewayInv, receiveApply
<1>2. q \in Request /\ p \in Projects /\ q.digest \in Digests
  BY <1>1 DEF TablesTyped, Request
<1>3. cursorOf(p) \in Nat
  BY <1>1, <1>2, CursorTyped
<1>4. /\ GatewayInv'
      /\ landings' \subseteq landings \cup {l}
      /\ l \in landings' \ landings => l \in Landing
  <2>1. CASE /\ cursorOf(p) < MaxLog
             /\ log' = [log EXCEPT ![p] = Append(@, Target(q.digest.change))]
             /\ landings' = landings \cup {l}
    <3>1. Target(q.digest.change) \in Tracked \cup Elsewhere
      BY <1>2, ProjectChangesAssumption DEF Digests
    <3>2. LogGrows /\ GatewayTypeOK'
      BY <1>1, <1>2, <2>1, <3>1, AppendGrows
    <3>3. l \in Landing
      BY <1>2, <1>3, <2>1, GatewayAssumption DEF Landing, Cursors
    <3>4. QED
      BY <1>1, <2>1, <3>2, <3>3, GrowthKeeps
  <2>2. CASE UNCHANGED <<log, landings>>
    <3>1. GatewayTypeOK'
      BY <1>1, <2>2 DEF GatewayTypeOK
    <3>2. LogGrows
      BY <1>1, <2>2, CursorTyped DEF LogGrows, cursorOf
    <3>3. QED
      BY <1>1, <2>2, <3>1, <3>2, GrowthKeeps
  <2>3. QED
    BY <2>1, <2>2 DEF receiveApply
<1>5. TablesTyped'
  BY <1>1, <1>4 DEF TablesTyped
<1>6. q.digest.project = p /\ posts[q.digest] = 1
  BY DEF ChangesInv, RecordsAreSpent
<1>7. RecordsAreSpent'
  BY <1>1, <1>4, <1>6 DEF ChangesInv, RecordsAreSpent
<1>8. CallsSpendOnce'
  BY <1>1 DEF ChangesInv, CallsSpendOnce, Spending
<1>9. QED
  BY <1>4, <1>5, <1>7, <1>8 DEF ChangesInv

LEMMA LoseKeeps ==
  ASSUME ChangesInv, UNCHANGED <<log, healthy, session, calls, approval, posts, landings, receipts>>,
         wire' \subseteq wire
  PROVE  ChangesInv'
<1>1. GatewayInv'
  BY DEF ChangesInv, GatewayInv, GatewayTypeOK, CallsTyped, SessionsSound, Sound, Flagged, cursorOf
<1>2. TablesTyped' /\ RecordsAreSpent'
  BY DEF ChangesInv, TablesTyped, RecordsAreSpent
<1>3. CallsSpendOnce'
  BY DEF ChangesInv, CallsSpendOnce, Spending
<1>4. QED
  BY <1>1, <1>2, <1>3 DEF ChangesInv

-----------------------------------------------------------------------------
(* The invariant and what follows from it *)

LEMMA ChangesStart == ProjectChangesInit => ChangesInv
<1> SUFFICES ASSUME ProjectChangesInit PROVE ChangesInv
  OBVIOUS
<1>1. GatewayTypeOK
  <2>1. log = [p \in Projects |-> <<>>] /\ healthy = {} /\ session = [s \in Sessions |-> NoPin]
    BY DEF ProjectChangesInit, GatewayInit
  <2>2. <<>> \in Seq(Tracked \cup Elsewhere) /\ Len(<<>>) = 0
    BY EmptySeq
  <2>3. QED
    BY <2>1, <2>2, GatewayAssumption DEF GatewayTypeOK
<1>2. CallsTyped
  BY DEF ProjectChangesInit, GatewayInit, CallsTyped, CallRecord
<1>3. \A c \in Calls : calls[c].op = "idle"
  BY DEF ProjectChangesInit, GatewayInit, Idle
<1>4. SessionsSound /\ \A c \in Calls : Sound(calls[c])
  BY <1>3 DEF ProjectChangesInit, GatewayInit, SessionsSound, Sound
<1>5. TablesTyped /\ RecordsAreSpent
  BY DEF ProjectChangesInit, TablesTyped, RecordsAreSpent, Approvals!Approvals
<1>6. CallsSpendOnce
  BY <1>3 DEF CallsSpendOnce, Spending
<1>7. QED
  BY <1>1, <1>2, <1>4, <1>5, <1>6 DEF ChangesInv, GatewayInv

LEMMA ChangesStep ==
  ASSUME ChangesInv, [ProjectChangesNext]_changeVars
  PROVE  ChangesInv'
<1>1. CASE GatewayStep
  <2>1. GatewayInv'
    BY <1>1, GatewayStepKeeps DEF ChangesInv, GatewayStep
  <2>2. QED
    BY <1>1, <2>1, GatewayIsBystander DEF GatewayStep, applyVars
<1>2. CASE \E c \in Calls, s \in Sessions :
             \/ \E change \in ChangeSets : prepareChange(c, s, change)
             \/ \E d \in Digests : applyChange(c, s, d)
  BY <1>2, StartsKeep
<1>3. ASSUME NEW c \in Calls, ChangeStep(c) PROVE ChangesInv'
  <2>1. CASE callFails(c)
    BY <2>1, EndsKeep DEF callFails, applyVars
  <2>2. QED
    BY <1>3, <2>1, StalenessKeeps, FinishKeeps, ConsumeKeeps, SendKeeps, ReceiptKeeps DEF ChangeStep
<1>4. CASE \E d \in Digests, decision \in {"approved", "rejected"} : decidePreparedChangeSet(d, decision)
  BY <1>4, DecisionKeeps
<1>5. CASE \E q \in wire : receiveApply(q) \/ loseApply(q)
  <2>1. ASSUME NEW q \in wire, loseApply(q) PROVE ChangesInv'
    BY <2>1, LoseKeeps DEF loseApply, gatewayVars
  <2>2. QED
    BY <1>5, <2>1, ReceiveKeeps
<1>6. CASE UNCHANGED changeVars
  BY <1>6, LoseKeeps DEF changeVars, gatewayVars, applyVars
<1>7. QED
  BY <1>1, <1>2, <1>3, <1>4, <1>5, <1>6 DEF ProjectChangesNext

LEMMA ChangesInvariant == ProjectChangesSpec => []ChangesInv
BY ChangesStart, ChangesStep, PTL DEF ProjectChangesSpec

\* Every table and every record of a call under way is well typed.
THEOREM ChangesTypeCorrect == ProjectChangesSpec => []ProjectChangesTypeOK
<1>1. ChangesInv => ProjectChangesTypeOK
  BY DEF ChangesInv, GatewayInv, TablesTyped, CallsTyped, CallRecord, ProjectChangesTypeOK,
         Approvals!Approvals
<1>2. QED
  BY <1>1, ChangesInvariant, PTL

\* A captured resource that is not marked as conflicted stands as it did at
\* the cursor its snapshot names (gateway.ts:293-294), however the project
\* moved between the reads.
THEOREM SnapshotsOwnUp == ProjectChangesSpec => []MixedRevisionIsFlagged
<1>1. ChangesInv => MixedRevisionIsFlagged
  BY DEF ChangesInv, GatewayInv, SessionsSound, Flagged, MixedRevisionIsFlagged
<1>2. QED
  BY <1>1, ChangesInvariant, PTL

\* Nothing reaches a project that a person did not approve for it
\* (project-changes.ts:5).
THEOREM WritesWereApproved == ProjectChangesSpec => []WritesAreApproved
<1>1. ChangesInv => WritesAreApproved
  <2> SUFFICES ASSUME ChangesInv PROVE WritesAreApproved
    OBVIOUS
  <2>1. \A w \in wire \cup landings : w.digest \in Digests
    BY DEF ChangesInv, TablesTyped, Request, Landing
  <2>2. QED
    BY <2>1 DEF ChangesInv, RecordsAreSpent, WritesAreApproved
<1>2. QED
  BY <1>1, ChangesInvariant, PTL

\* A digest has one Write Receipt, and the insert of a second is never tried
\* (project-changes.ts:707-709).
THEOREM ReceiptsAreUnique == ProjectChangesSpec => []OneReceipt
<1>1. ChangesInv => OneReceipt
  <2> SUFFICES ASSUME ChangesInv PROVE OneReceipt
    OBVIOUS
  <2>1. \A r \in receipts : r.digest \in Digests
    BY DEF ChangesInv, TablesTyped, Landing
  <2>2. \A r \in receipts : approval[r.digest] = "used" /\ posts[r.digest] = 1
    BY <2>1 DEF ChangesInv, RecordsAreSpent
  <2>3. QED
    BY <2>2 DEF ChangesInv, CallsSpendOnce, Spending, HasReceipt, OneReceipt
<1>2. QED
  BY <1>1, ChangesInvariant, PTL

-----------------------------------------------------------------------------
(* The refinement of SingleUseApproval *)

LEMMA OthersKeepApprovals ==
  ASSUME ProjectChangesNext,
         \A c \in Calls : ~ finishPrepare(c) /\ ~ consumeApproval(c) /\ ~ sendApply(c),
         \A d \in Digests, decision \in {"approved", "rejected"} :
           ~ decidePreparedChangeSet(d, decision)
  PROVE  UNCHANGED <<approval, posts>>
<1>1. CASE GatewayStep
  BY <1>1 DEF GatewayStep, applyVars
<1>2. CASE \E c \in Calls, s \in Sessions :
             \/ \E change \in ChangeSets : prepareChange(c, s, change)
             \/ \E d \in Digests : applyChange(c, s, d)
  BY <1>2 DEF prepareChange, applyChange, applyVars
<1>3. CASE \E c \in Calls : ChangeStep(c)
  BY <1>3 DEF ChangeStep, readStaleness, recordReceipt, callFails, applyVars
<1>4. CASE \E q \in wire : receiveApply(q) \/ loseApply(q)
  BY <1>4 DEF receiveApply, loseApply
<1>5. QED
  BY <1>1, <1>2, <1>3, <1>4 DEF ProjectChangesNext

LEMMA StepIsApprovalStep ==
  ASSUME ChangesInv, [ProjectChangesNext]_changeVars
  PROVE  [Approvals!Next]_(Approvals!vars)
<1>1. GatewayInv /\ CallsTyped
  BY DEF ChangesInv, GatewayInv
<1>2. ASSUME NEW c \in Calls, finishPrepare(c) PROVE [Approvals!Next]_(Approvals!vars)
  <2> DEFINE d == changeDigest(calls[c].pinned, calls[c].change)
  <2>1. calls[c] \in Prepare
    BY <1>1, <1>2, PrepareRecord DEF finishPrepare
  <2>2. d \in Digests
    BY <2>1 DEF Prepare, Snapshot, changeDigest, Digests
  <2>3. UNCHANGED <<approval, posts>> \/ Approvals!Prepare(d)
    BY <1>2 DEF finishPrepare, applyVars, Approvals!Prepare, Approvals!Move
  <2>4. QED
    BY <2>2, <2>3 DEF Approvals!Next, Approvals!vars
<1>3. ASSUME NEW d \in Digests, NEW decision \in {"approved", "rejected"},
             decidePreparedChangeSet(d, decision)
      PROVE  Approvals!Next
  <2>1. Approvals!Decide(d)
    BY <1>3 DEF decidePreparedChangeSet, Undecided, applyVars, Approvals!Decide, Approvals!Move
  <2>2. QED
    BY <2>1 DEF Approvals!Next
<1>4. ASSUME NEW c \in Calls, consumeApproval(c) PROVE [Approvals!Next]_(Approvals!vars)
  <2> DEFINE d == calls[c].digest
  <2>1. d \in Digests
    BY <1>1, <1>4, ApplyRecord DEF consumeApproval, Apply
  <2>2. UNCHANGED <<approval, posts>> \/ Approvals!Consume(d)
    BY <1>4 DEF consumeApproval, Consumable, applyVars, Approvals!Consume, Approvals!Move
  <2>3. QED
    BY <2>1, <2>2 DEF Approvals!Next, Approvals!vars
<1>5. ASSUME NEW c \in Calls, sendApply(c) PROVE Approvals!Next
  <2> DEFINE d == calls[c].digest
  <2>1. d \in Digests /\ Spending(c) /\ calls[c].step = "send"
    BY <1>1, <1>5, ApplyRecord DEF sendApply, Apply, Spending
  <2>2. posts[d] = 0 /\ approval[d] = "used"
    BY <2>1 DEF ChangesInv, CallsSpendOnce
  <2>3. posts' = [posts EXCEPT ![d] = 1] /\ UNCHANGED approval
    BY <1>5, <2>1, <2>2 DEF sendApply, ChangesInv, TablesTyped
  <2>4. Approvals!Use(d)
    BY <2>2, <2>3 DEF Approvals!Use
  <2>5. QED
    BY <2>1, <2>4 DEF Approvals!Next
<1>6. CASE UNCHANGED <<approval, posts>>
  BY <1>6 DEF Approvals!vars
<1>7. CASE UNCHANGED changeVars
  BY <1>7 DEF changeVars, applyVars, Approvals!vars
<1>8. QED
  BY <1>2, <1>3, <1>4, <1>5, <1>6, <1>7, OthersKeepApprovals

\* The decisions, consumptions and requests of any number of concurrent
\* applies are those of a single-use approval (project-changes.ts:18-21).
THEOREM ApprovalsAreSingleUse == ProjectChangesSpec => ImplementsSingleUse
<1>1. ProjectChangesInit => Approvals!Init
  BY DEF ProjectChangesInit, Approvals!Init
<1>2. ChangesInv /\ [ProjectChangesNext]_changeVars => [Approvals!Next]_(Approvals!vars)
  BY StepIsApprovalStep
<1>3. QED
  BY <1>1, <1>2, ChangesInvariant, PTL DEF ProjectChangesSpec, ImplementsSingleUse, Approvals!Spec

\* An approval is sent to its project at most once, and only when consumed.
THEOREM RequestsAreSingle == ProjectChangesSpec => []Approvals!SingleUse
<1>1. ChangesInv => Approvals!SingleUse
  BY DEF ChangesInv, TablesTyped, RecordsAreSpent, Approvals!SingleUse
<1>2. QED
  BY <1>1, ChangesInvariant, PTL

\* A rejection is never taken back, and a consumed approval never becomes one
\* that could be applied again (db.ts:658, project_changes_used_is_final).
THEOREM DecisionsAreFinal == ProjectChangesSpec => Approvals!Final
<1>1. ChangesInv /\ [ProjectChangesNext]_changeVars =>
        [\A d \in Digests :
           approval[d] \in {"rejected", "used"} => approval'[d] = approval[d]]_(Approvals!vars)
  <2> SUFFICES ASSUME ChangesInv, [ProjectChangesNext]_changeVars, NEW d \in Digests,
                      approval[d] \in {"rejected", "used"}
               PROVE  approval'[d] = approval[d]
    OBVIOUS
  <2>1. CASE Approvals!Next
    <3>1. approval \in [Digests -> Approvals!Approvals]
      BY DEF ChangesInv, TablesTyped
    <3>2. QED
      BY <2>1, <3>1 DEF Approvals!Next, Approvals!Prepare, Approvals!Decide, Approvals!Consume,
                        Approvals!Use, Approvals!Move
  <2>2. CASE UNCHANGED Approvals!vars
    BY <2>2 DEF Approvals!vars
  <2>3. QED
    BY <2>1, <2>2, StepIsApprovalStep
<1>2. QED
  BY <1>1, ChangesInvariant, PTL DEF ProjectChangesSpec, Approvals!Final

-----------------------------------------------------------------------------
(* What a change does to the data it lands on.  The recursion of applied   *)
(* is reasoned about by its least counterexample: the intermediate values  *)
(* exist for each number of operations (HoldsOfEach), and each holds, of   *)
(* every path, the value of the last operation that writes it (Latest).    *)

LEMMA HasLeast ==
  ASSUME NEW T \in SUBSET Nat, T # {}
  PROVE  \E m \in T : \A n \in T : m <= n
<1>1. PICK m \in T : \A n \in T : <<n, m>> \notin OpToRel(<, Nat)
  BY NatLessThanWellFounded, WFMin
<1>2. ASSUME NEW n \in T PROVE m <= n
  <2>1. <<n, m>> \in Nat \X Nat /\ ~ (n < m)
    BY <1>1 DEF OpToRel
  <2>2. QED
    BY <2>1
<1>3. QED
  BY <1>2

\* What the project holds before and after each of the operations.
Holds(held, change, data, n) ==
  held = [k \in 0 .. n |-> IF k = 0 THEN data ELSE written(change[k], held[k - 1])]

LEMMA HoldsOfEach ==
  ASSUME NEW change, NEW data, NEW n \in Nat
  PROVE  \E held : Holds(held, change, data, n)
<1> DEFINE T == {k \in Nat : ~ \E held : Holds(held, change, data, k)}
<1>1. SUFFICES ASSUME T # {} PROVE FALSE
  OBVIOUS
<1>2. PICK m \in T : \A k \in T : m <= k
  BY <1>1, HasLeast
<1>3. CASE m = 0
  <2>1. Holds([k \in 0 .. 0 |-> data], change, data, 0)
    BY DEF Holds
  <2>2. QED
    BY <1>2, <1>3, <2>1
<1>4. CASE m # 0
  <2>1. m - 1 \in Nat /\ m - 1 \notin T
    BY <1>2, <1>4
  <2>2. PICK held : Holds(held, change, data, m - 1)
    BY <2>1
  <2> DEFINE longer == [k \in 0 .. m |-> IF k = m THEN written(change[m], held[m - 1]) ELSE held[k]]
  <2>3. ASSUME NEW k \in 0 .. m
        PROVE longer[k] = IF k = 0 THEN data ELSE written(change[k], longer[k - 1])
    <3>1. CASE k = m
      <4>1. m - 1 \in 0 .. m /\ m - 1 # m
        BY <1>4
      <4>2. longer[m - 1] = held[m - 1] /\ longer[m] = written(change[m], held[m - 1])
        BY <4>1
      <4>3. QED
        BY <1>4, <3>1, <4>2
    <3>2. CASE k # m
      <4>1. k \in 0 .. m - 1 /\ (k # 0 => k - 1 \in 0 .. m - 1)
        BY <2>1, <3>2
      <4>2. held[k] = IF k = 0 THEN data ELSE written(change[k], held[k - 1])
        BY <2>2, <4>1 DEF Holds
      <4>3. longer[k] = held[k] /\ (k # 0 => longer[k - 1] = held[k - 1])
        BY <3>2, <4>1
      <4>4. QED
        BY <4>2, <4>3
    <3>3. QED
      BY <3>1, <3>2
  <2>4. longer = [k \in 0 .. m |-> longer[k]]
    OBVIOUS
  <2> HIDE DEF longer
  <2>5. Holds(longer, change, data, m)
    BY <2>3, <2>4 DEF Holds
  <2>6. QED
    BY <1>2, <2>5
<1>5. QED
  BY <1>3, <1>4

LEMMA AppliedHolds ==
  ASSUME NEW change, Len(change) \in Nat, NEW data
  PROVE  \E held : Holds(held, change, data, Len(change)) /\ applied(change, data) = held[Len(change)]
<1> DEFINE held == CHOOSE h : Holds(h, change, data, Len(change))
<1>1. Holds(held, change, data, Len(change))
  BY HoldsOfEach
<1>2. applied(change, data) = held[Len(change)]
  BY DEF applied, Holds
<1> HIDE DEF held
<1>3. QED
  BY <1>1, <1>2

Writes(change, r, path) ==
  {n \in DOMAIN change : targetResource(change[n]) = r /\ targetPath(change[n]) = path}

\* What is under a key after the first n operations: what the last one that
\* writes it put there.
Latest(change, data, n, value) ==
  /\ DOMAIN value = DOMAIN data
  /\ \A r \in DOMAIN data : \A path :
       LET writes == Writes(change, r, path) \cap (1 .. n)
       IN \/ writes = {} /\ field(value[r], path) = field(data[r], path)
          \/ \E last \in writes :
               /\ \A k \in writes : k <= last
               /\ field(value[r], path) = proposedValue(change[last])

\* An operation the project takes moves the key it names and no other.
LEMMA WrittenMoves ==
  ASSUME NEW op, accepts(op), NEW value
  PROVE  /\ DOMAIN written(op, value) = DOMAIN value
         /\ \A r \in DOMAIN value : \A path :
              field(written(op, value)[r], path) =
                IF r = targetResource(op) /\ path = targetPath(op)
                  THEN proposedValue(op) ELSE field(value[r], path)
<1> DEFINE R == targetResource(op)
           P == targetPath(op)
           v == proposedValue(op)
           new == written(op, value)
           merged(r) == [path \in DOMAIN value[r] \cup {P} |-> IF path = P THEN v ELSE value[r][path]]
<1>1. /\ DOMAIN new = DOMAIN value
      /\ \A r \in DOMAIN value : new[r] = IF r = R THEN merged(r) ELSE value[r]
  BY DEF written, accepts, targetResource, targetPath, proposedValue
<1> HIDE DEF R, P, v, new
<1>2. ASSUME NEW r \in DOMAIN value, NEW path
      PROVE  field(new[r], path) = IF r = R /\ path = P THEN v ELSE field(value[r], path)
  <2>1. CASE r = R
    <3>1. /\ new[r] = merged(r) /\ DOMAIN merged(r) = DOMAIN value[r] \cup {P}
          /\ merged(r)[P] = v
          /\ \A q \in DOMAIN value[r] \ {P} : merged(r)[q] = value[r][q]
      BY <1>1, <2>1
    <3> HIDE DEF merged
    <3>2. CASE path = P
      BY <2>1, <3>1, <3>2 DEF field
    <3>3. CASE path # P
      BY <2>1, <3>1, <3>3 DEF field
    <3>4. QED
      BY <3>2, <3>3
  <2>2. CASE r # R
    BY <1>1, <2>2
  <2>3. QED
    BY <2>1, <2>2
<1>3. QED
  BY <1>1, <1>2 DEF new, R, P, v

LEMMA WrittenIsLatest ==
  ASSUME NEW change, NEW data, NEW n \in Nat, n # 0, n \in DOMAIN change,
         accepts(change[n]), NEW value, Latest(change, data, n - 1, value)
  PROVE  Latest(change, data, n, written(change[n], value))
<1> DEFINE new == written(change[n], value)
           R == targetResource(change[n])
           P == targetPath(change[n])
           v == proposedValue(change[n])
<1>1. DOMAIN new = DOMAIN data
  BY WrittenMoves DEF Latest
<1>2. \A r \in DOMAIN data : \A path :
        field(new[r], path) = IF r = R /\ path = P THEN v ELSE field(value[r], path)
  BY WrittenMoves DEF Latest
<1> HIDE DEF new, v
<1>3. ASSUME NEW r \in DOMAIN data, NEW path
      PROVE  LET writes == Writes(change, r, path) \cap (1 .. n)
             IN \/ writes = {} /\ field(new[r], path) = field(data[r], path)
                \/ \E last \in writes :
                     /\ \A k \in writes : k <= last
                     /\ field(new[r], path) = proposedValue(change[last])
  <2> DEFINE writes == Writes(change, r, path) \cap (1 .. n)
             before == Writes(change, r, path) \cap (1 .. (n - 1))
  <2>1. field(new[r], path) = IF r = R /\ path = P THEN v ELSE field(value[r], path)
    BY <1>2
  <2>2. \A k \in writes : k <= n
    OBVIOUS
  <2>3. CASE r = R /\ path = P
    <3>1. n \in writes
      BY <2>3 DEF Writes
    <3>2. QED
      BY <2>1, <2>2, <2>3, <3>1 DEF v
  <2>4. CASE ~ (r = R /\ path = P)
    <3>1. n \notin writes
      BY <2>4 DEF Writes
    <3>2. writes = before
      BY <3>1
    <3>3. \/ before = {} /\ field(value[r], path) = field(data[r], path)
          \/ \E last \in before :
               /\ \A k \in before : k <= last
               /\ field(value[r], path) = proposedValue(change[last])
      BY DEF Latest
    <3> HIDE DEF writes, before
    <3>4. QED
      BY <2>1, <2>4, <3>2, <3>3 DEF writes
  <2>5. QED
    BY <2>3, <2>4
<1>4. Latest(change, data, n, new)
  BY <1>1, <1>3 DEF Latest
<1>5. QED
  BY <1>4 DEF new

LEMMA AppliedIsLatest ==
  ASSUME NEW change, Len(change) \in Nat, DOMAIN change = 1 .. Len(change),
         \A n \in DOMAIN change : accepts(change[n]), NEW data
  PROVE  Latest(change, data, Len(change), applied(change, data))
<1>1. PICK held : Holds(held, change, data, Len(change)) /\ applied(change, data) = held[Len(change)]
  BY AppliedHolds
<1> DEFINE T == {n \in 0 .. Len(change) : ~ Latest(change, data, n, held[n])}
<1>2. SUFFICES ASSUME T # {} PROVE FALSE
  BY <1>1
<1>3. PICK n \in T : \A k \in T : n <= k
  <2>1. T \in SUBSET Nat
    OBVIOUS
  <2> HIDE DEF T
  <2>2. QED
    BY <1>2, <2>1, HasLeast
<1>4. CASE n = 0
  <2>1. held[0] = data
    BY <1>1 DEF Holds
  <2>2. Latest(change, data, 0, data)
    BY DEF Latest
  <2>3. QED
    BY <1>3, <1>4, <2>1, <2>2
<1>5. CASE n # 0
  <2>1. n - 1 \in 0 .. Len(change) /\ n - 1 \notin T /\ n \in DOMAIN change /\ n \in Nat
    BY <1>3, <1>5
  <2>2. Latest(change, data, n - 1, held[n - 1])
    BY <2>1
  <2>3. held[n] = written(change[n], held[n - 1])
    BY <1>1, <1>5, <2>1 DEF Holds
  <2>4. Latest(change, data, n, held[n])
    BY <1>5, <2>1, <2>2, <2>3, WrittenIsLatest
  <2>5. QED
    BY <1>3, <2>4
<1>6. QED
  BY <1>4, <1>5

\* The first and the last of some lines.
LEMMA LinesEnd ==
  ASSUME NEW lines \in SUBSET Nat, NEW last \in lines, \A n \in lines : n <= last
  PROVE  \E first \in lines : lines \subseteq first .. last
<1>1. PICK first \in lines : \A n \in lines : first <= n
  BY HasLeast
<1>2. QED
  BY <1>1

\* Each key gets what its last line shows, and a path leads on from the key that
\* is its first name.
LEMMA DiffShowsApplied ==
  ASSUME NEW change, Len(change) \in Nat, DOMAIN change = 1 .. Len(change),
         \A n \in DOMAIN change : accepts(change[n]), NEW data, NEW captured
  PROVE  ShownAsApplied(change, data, captured)
<1> DEFINE shown == diff(change, [q \in captured |-> data[q]])
           after == applied(change, data)
           linesOf(r, key) == {n \in DOMAIN shown : shown[n].resource = r /\ shown[n].path = key}
<1>1. /\ DOMAIN shown = DOMAIN change
      /\ \A n \in DOMAIN change : /\ shown[n].resource = targetResource(change[n])
                                  /\ shown[n].path = targetPath(change[n])
                                  /\ shown[n].after = proposedValue(change[n])
  BY DEF diff, line
<1>2. ASSUME NEW r \in DOMAIN data, NEW path, NEW n \in linesOf(r, path)
      PROVE  shown[n].before \in {valueAt(data[r], path), Unknown}
  BY <1>1, <1>2 DEF diff, line
<1>3. ASSUME NEW r, NEW key
      PROVE  /\ linesOf(r, key) = Writes(change, r, key) \cap (1 .. Len(change))
             /\ linesOf(r, key) \in SUBSET Nat
  BY <1>1 DEF Writes
<1>4. ASSUME NEW r \in DOMAIN data, NEW key
      PROVE  \/ linesOf(r, key) = {} /\ field(after[r], key) = field(data[r], key)
             \/ \E last \in linesOf(r, key) :
                  /\ \A n \in linesOf(r, key) : n <= last
                  /\ field(after[r], key) = shown[last].after
  <2> DEFINE lines == linesOf(r, key)
  <2>1. lines = Writes(change, r, key) \cap (1 .. Len(change))
    BY <1>3
  <2>2. \A n \in lines : shown[n].after = proposedValue(change[n])
    BY <1>1
  <2> HIDE DEF lines, shown
  <2>3. QED
    BY <2>1, <2>2, AppliedIsLatest DEF Latest, lines
<1> HIDE DEF shown, after, linesOf
<1>5. ASSUME NEW r \in DOMAIN data, NEW path
      PROVE  \/ linesOf(r, path) = {} /\ field(after[r], path) = field(data[r], path)
             \/ \E first, last \in linesOf(r, path) :
                  /\ linesOf(r, path) \subseteq first .. last
                  /\ shown[first].before \in {valueAt(data[r], path), Unknown}
                  /\ field(after[r], path) = shown[last].after
  <2> DEFINE lines == linesOf(r, path)
  <2>1. CASE lines = {}
    BY <1>4, <2>1
  <2>2. CASE lines # {}
    <3>1. PICK last \in lines :
            /\ \A n \in lines : n <= last
            /\ field(after[r], path) = shown[last].after
      BY <1>4, <2>2
    <3>2. lines \in SUBSET Nat
      BY <1>3
    <3>3. \A n \in lines : shown[n].before \in {valueAt(data[r], path), Unknown}
      BY <1>2
    <3> HIDE DEF lines
    <3>4. PICK first \in lines : lines \subseteq first .. last
      BY <3>1, <3>2, LinesEnd
    <3>5. QED
      BY <3>1, <3>3, <3>4 DEF lines
  <2>3. QED
    BY <2>1, <2>2
<1>6. ASSUME NEW r \in DOMAIN data, NEW path
      PROVE  \/ /\ linesOf(r, <<path[1]>>) = {}
                /\ valueAt(after[r], path) = valueAt(data[r], path)
             \/ \E last \in linesOf(r, <<path[1]>>) :
                  /\ \A n \in linesOf(r, <<path[1]>>) : n <= last
                  /\ valueAt(after[r], path) = walked(shown[last].after, path)
  <2> DEFINE head == <<path[1]>>
  <2>1. /\ valueAt(after[r], path) = walked(field(after[r], head), path)
        /\ valueAt(data[r], path) = walked(field(data[r], head), path)
    BY DEF valueAt
  <2> HIDE DEF head
  <2>2. QED
    BY <1>4, <2>1 DEF head
<1>7. \A r \in DOMAIN data : \A path \in Fields \cup DOMAIN data[r] :
        /\ \/ linesOf(r, path) = {} /\ field(after[r], path) = field(data[r], path)
           \/ \E first, last \in linesOf(r, path) :
                /\ linesOf(r, path) \subseteq first .. last
                /\ shown[first].before \in {valueAt(data[r], path), Unknown}
                /\ field(after[r], path) = shown[last].after
        /\ \/ /\ linesOf(r, <<path[1]>>) = {}
              /\ valueAt(after[r], path) = valueAt(data[r], path)
           \/ \E last \in linesOf(r, <<path[1]>>) :
                /\ \A n \in linesOf(r, <<path[1]>>) : n <= last
                /\ valueAt(after[r], path) = walked(shown[last].after, path)
  BY <1>5, <1>6
<1>8. QED
  BY <1>7, Zenon DEF shown, after, linesOf, ShownAsApplied

-----------------------------------------------------------------------------
(* What lands was permitted and shown *)

\* A row of project_changes is a change set that passed the write policy.
RowsArePermitted ==
  \A d \in Digests : approval[d] # "absent" => PermittedIn(d.project, d.change)

LEMMA PermittedStep ==
  ASSUME ChangesInv, RowsArePermitted, [ProjectChangesNext]_changeVars
  PROVE  RowsArePermitted'
<1>1. GatewayInv /\ CallsTyped /\ approval \in [Digests -> Approvals!Approvals]
  BY DEF ChangesInv, GatewayInv, TablesTyped
<1>2. SUFFICES ASSUME NEW d \in Digests, approval'[d] # "absent"
               PROVE  PermittedIn(d.project, d.change)
  BY DEF RowsArePermitted
<1>3. CASE approval[d] # "absent"
  BY <1>3 DEF RowsArePermitted
<1>4. CASE approval[d] = "absent"
  <2>1. ASSUME NEW c \in Calls, finishPrepare(c) PROVE PermittedIn(d.project, d.change)
    <3> DEFINE e == changeDigest(calls[c].pinned, calls[c].change)
    <3>1. calls[c] \in Prepare
      BY <1>1, <2>1, PrepareRecord DEF finishPrepare
    <3>2. e \in Digests /\ e.project = calls[c].pinned.project /\ e.change = calls[c].change
      BY <3>1 DEF Prepare, Snapshot, changeDigest, Digests
    <3> HIDE DEF e
    <3>3. approval' = approval \/ approval' = [approval EXCEPT ![e] = "pending"]
      BY <2>1 DEF finishPrepare, e
    <3>4. d = e
      BY <1>1, <1>2, <1>4, <3>3
    <3>5. QED
      BY <2>1, <3>2, <3>4 DEF finishPrepare
  <2>2. ASSUME NEW e \in Digests, NEW decision \in {"approved", "rejected"},
               decidePreparedChangeSet(e, decision)
        PROVE  FALSE
    BY <1>1, <1>2, <1>4, <2>2 DEF decidePreparedChangeSet, Undecided
  <2>3. ASSUME NEW c \in Calls, consumeApproval(c) PROVE FALSE
    BY <1>1, <1>2, <1>4, <2>3 DEF consumeApproval, Consumable
  <2>4. ASSUME NEW c \in Calls, sendApply(c) PROVE FALSE
    BY <1>2, <1>4, <2>4 DEF sendApply
  <2>5. CASE UNCHANGED changeVars
    BY <1>2, <1>4, <2>5 DEF changeVars
  <2>6. QED
    BY <1>2, <1>4, <2>1, <2>2, <2>3, <2>4, <2>5, OthersKeepApprovals
<1>5. QED
  BY <1>3, <1>4

LEMMA RowsPermitted == ProjectChangesSpec => []RowsArePermitted
<1>1. ProjectChangesInit => RowsArePermitted
  BY DEF ProjectChangesInit, RowsArePermitted
<1>2. ChangesInv /\ RowsArePermitted /\ [ProjectChangesNext]_changeVars => RowsArePermitted'
  BY PermittedStep
<1>3. QED
  BY <1>1, <1>2, ChangesInvariant, PTL DEF ProjectChangesSpec

\* What landed is what the project takes.
LandingsAccepted == \A l \in landings : Accepted(l.digest.change)

LEMMA LandedAccepted == ProjectChangesSpec => []LandingsAccepted
<1>1. ProjectChangesInit => LandingsAccepted
  BY DEF ProjectChangesInit, LandingsAccepted
<1>2. ASSUME LandingsAccepted, [ProjectChangesNext]_changeVars PROVE LandingsAccepted'
  <2>1. CASE UNCHANGED landings
    BY <1>2, <2>1 DEF LandingsAccepted, Accepted
  <2>2. ASSUME NEW q \in wire, receiveApply(q) PROVE LandingsAccepted'
    BY <1>2, <2>2 DEF receiveApply, LandingsAccepted, Accepted
  <2>3. QED
    BY <1>2, <2>1, <2>2
       DEF ProjectChangesNext, changeVars, applyVars, GatewayStep, ChangeStep, prepareChange,
           applyChange, readStaleness, finishPrepare, consumeApproval, sendApply, recordReceipt,
           callFails, decidePreparedChangeSet, loseApply
<1>3. QED
  BY <1>1, <1>2, PTL DEF ProjectChangesSpec

\* Everything that lands at a project is permitted by its write policy, and does
\* to every key and every path what the lines of its diff show
\* (project-changes.ts:6-8): under a key, dots and all, the value its last line
\* showed, and along a path what its first name says.  So for change sets of any
\* length, any contents and any set of captured resources.
THEOREM DiffsAreWhatLands == ProjectChangesSpec => []DiffIsWhatLands
<1>1. ChangesInv /\ RowsArePermitted /\ LandingsAccepted => DiffIsWhatLands
  <2> SUFFICES ASSUME ChangesInv, RowsArePermitted, LandingsAccepted, NEW l \in landings
               PROVE  /\ PermittedIn(l.project, l.digest.change)
                      /\ \A data \in Contents, captured \in SUBSET Tracked :
                           ShownAsApplied(Operations[l.digest.change], data, captured)
    BY DEF DiffIsWhatLands
  <2>1. l.digest \in Digests /\ l.digest.project = l.project /\ approval[l.digest] = "used"
    BY DEF ChangesInv, TablesTyped, RecordsAreSpent, Landing
  <2>2. PermittedIn(l.project, l.digest.change)
    BY <2>1 DEF RowsArePermitted
  <2>3. l.digest.change \in ChangeSets
    BY <2>1 DEF Digests
  <2>4. /\ Len(Operations[l.digest.change]) \in Nat
        /\ DOMAIN Operations[l.digest.change] = 1 .. Len(Operations[l.digest.change])
    BY <2>3, ProjectChangesAssumption
  <2>5. \A n \in DOMAIN Operations[l.digest.change] : accepts(Operations[l.digest.change][n])
    BY DEF LandingsAccepted, Accepted
  <2>6. QED
    BY <2>2, <2>4, <2>5, DiffShowsApplied
<1>2. QED
  BY <1>1, ChangesInvariant, RowsPermitted, LandedAccepted, PTL
=============================================================================
