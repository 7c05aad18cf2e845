---------------------------- MODULE StudioProofs ----------------------------
(***************************************************************************)
(* Theorems about PieceLifecycle and about the Studio it is part of, for   *)
(* any pieces, documents, batches, kits, prompts and exports, with the     *)
(* process dying anywhere if it may.                                       *)
(*                                                                         *)
(* First the lifecycle.  The inductive invariant says of each piece how    *)
(* its pin and its flag stand to the kit (RowOK), and of every export      *)
(* under way and recorded that the rendering it was begun for had no       *)
(* blocker (CleanRendering).  That nothing changes under an export which   *)
(* forgot to look at the piece again is because documents and kits are     *)
(* versioned: a version that was rendered stays what it was                *)
(* (HistoryGrows).                                                         *)
(*                                                                         *)
(* Then the Studio, which implements the lifecycle: whatever a batch or a  *)
(* template makes of a document, the piece takes the steps the lifecycle   *)
(* allows, so what is proved of the one holds of the other.  That approved *)
(* work is painted from its kit and keeps its rendering follows from it,   *)
(* from what check_brand lets through, and from assets and kits being      *)
(* added and never changed.  Last, the overflow check_brand foresees is    *)
(* the one the renderer lays out.                                          *)
(***************************************************************************)
EXTENDS Studio, TLAPS, SequenceTheorems, FiniteSetTheorems, WellFoundedInduction


\* What is true of a piece whatever happens to it.
RowOK(row) ==
  /\ row \in PieceRow
  /\ Len(row.versions) <= MaxVersions
  /\ row.status = "absent" <=> row.versions = <<>>
  /\ row.status \notin PINNED_STATUSES \cup {"exported", "measured"} =>
       row.pin = NoKit /\ ~ row.outdated
  /\ row.pin <= kitVersion
  /\ row.outdated => row.pin < kitVersion
  /\ row.status \in PINNED_STATUSES =>
       /\ row.pin # NoKit
       /\ <<Last(row.versions), kits[row.pin]>> \notin Blocked
       /\ \A v \in audited : row.pin < v => row.outdated

\* A rendering, named by its piece and the versions of document and kit.
CleanRendering(x) ==
  /\ x.version <= docVersion(x.piece)
  /\ x.kit <= kitVersion
  /\ <<pieces[x.piece].versions[x.version], kits[x.kit]>> \notin Blocked

PieceInv ==
  /\ PieceLifecycleTypeOK
  /\ \A p \in Pieces : RowOK(pieces[p])
  /\ \A row \in exportRows : CleanRendering(row)
  /\ \A e \in Exports : exporting[e] # NotExporting => CleanRendering(exporting[e])

\* Versions of documents and kits are added and never changed.
Extends(old, new) ==
  /\ Len(old) <= Len(new)
  /\ \A n \in 1 .. Len(old) : new[n] = old[n]

HistoryGrows ==
  /\ Extends(kits, kits')
  /\ \A p \in Pieces : Extends(pieces[p].versions, pieces'[p].versions)

-----------------------------------------------------------------------------
(* The rows a step of a piece writes *)

\* The last of the versions is the one with their number.
LEMMA LastOf ==
  ASSUME NEW S, NEW s \in Seq(S), s # <<>>
  PROVE  Last(s) = s[Len(s)] /\ Last(s) \in S /\ Len(s) \in Nat \ {0}
<1>1. Len(s) \in Nat \ {0}
  BY EmptySeq
<1>2. QED
  BY <1>1, ElementOfSeq DEF Last

\* A version added is the last one, and the others stay.
LEMMA AppendExtends ==
  ASSUME NEW S, NEW s \in Seq(S), NEW x \in S
  PROVE  /\ Append(s, x) \in Seq(S)
         /\ Append(s, x) # <<>>
         /\ Len(Append(s, x)) = Len(s) + 1
         /\ Last(Append(s, x)) = x
         /\ Extends(s, Append(s, x))
<1>1. /\ Append(s, x) \in Seq(S)
      /\ Len(Append(s, x)) = Len(s) + 1
      /\ \A i \in 1 .. Len(s) : Append(s, x)[i] = s[i]
      /\ Append(s, x)[Len(s) + 1] = x
      /\ Len(s) \in Nat
  BY AppendProperties, LenProperties
<1>2. Append(s, x) # <<>>
  BY <1>1, EmptySeq
<1>3. Last(Append(s, x)) = x
  BY <1>1, <1>2, LastOf
<1>4. Extends(s, Append(s, x))
  BY <1>1 DEF Extends
<1>5. QED
  BY <1>1, <1>2, <1>3, <1>4

LEMMA ExtendsRefl ==
  ASSUME NEW S, NEW s \in Seq(S)
  PROVE  Extends(s, s)
BY LenProperties DEF Extends

\* A step of a piece writes its row and nothing else: a row that is sound, in
\* which no version has changed.
WritesRow(p) ==
  /\ \E row \in PieceRow :
       /\ RowOK(row)
       /\ Extends(pieces[p].versions, row.versions)
       /\ pieces' = [pieces EXCEPT ![p] = row]
  /\ UNCHANGED <<kitVars, exportVars>>

LEMMA Documents ==
  ASSUME PieceInv, NEW p \in Pieces,
         \/ \E doc \in Docs :
              \/ createPiece(p, doc)
              \/ \E base \in 1 .. MaxVersions : applyEditBatch(p, base, doc)
         \/ \E version \in 1 .. MaxVersions : restoreVersion(p, version)
  PROVE  WritesRow(p)
<1> USE PieceLifecycleAssumption
<1>0. /\ RowOK(pieces[p]) /\ pieces[p] \in PieceRow /\ pieces \in [Pieces -> PieceRow]
      /\ pieces[p].versions \in Seq(Docs) /\ Len(pieces[p].versions) \in Nat
  BY LenProperties DEF PieceInv, PieceLifecycleTypeOK, PieceRow
<1>1. CASE \E doc \in Docs : createPiece(p, doc)
  <2>1. PICK doc \in Docs : createPiece(p, doc)
    BY <1>1
  <2> DEFINE row == [pieces[p] EXCEPT !.status = "backlog", !.versions = <<doc>>]
  <2>2. pieces' = [pieces EXCEPT ![p] = row] /\ UNCHANGED <<kitVars, exportVars>>
    BY <2>1, <1>0 DEF createPiece, PieceRow
  <2>3. <<doc>> \in Seq(Docs) /\ Len(<<doc>>) = 1 /\ <<doc>> # <<>>
    OBVIOUS
  <2>4. row \in PieceRow
    BY <1>0, <2>3 DEF PieceRow, Statuses
  <2>5. RowOK(row)
    <3>1. /\ row.status = "backlog" /\ row.versions = <<doc>>
          /\ row.pin = pieces[p].pin /\ row.outdated = pieces[p].outdated
      BY <1>0 DEF PieceRow
    <3>2. pieces[p].pin = NoKit /\ ~ pieces[p].outdated /\ pieces[p].pin <= kitVersion
      BY <1>0, <2>1 DEF RowOK, createPiece, status, PINNED_STATUSES
    <3>3. Len(<<doc>>) <= MaxVersions
      BY <2>3
    <3> HIDE DEF row
    <3>4. QED
      BY <2>3, <2>4, <3>1, <3>2, <3>3 DEF RowOK, PINNED_STATUSES
  <2>6. Extends(pieces[p].versions, row.versions)
    <3>1. pieces[p].versions = <<>>
      BY <1>0, <2>1 DEF RowOK, createPiece, status
    <3>2. QED
      BY <3>1, <1>0, <2>3 DEF Extends, PieceRow
  <2>7. QED
    BY <2>2, <2>4, <2>5, <2>6 DEF WritesRow
<1>2. ASSUME NEW doc \in Docs, Editable(p), persistNewVersion(p, doc), status(p) # "absent"
      PROVE  WritesRow(p)
  <2> DEFINE row == [pieces[p] EXCEPT !.versions = Append(@, doc)]
  <2>1. pieces' = [pieces EXCEPT ![p] = row] /\ UNCHANGED <<kitVars, exportVars>>
    BY <1>2, <1>0 DEF persistNewVersion, PieceRow
  <2>2. /\ Append(pieces[p].versions, doc) \in Seq(Docs)
        /\ Append(pieces[p].versions, doc) # <<>>
        /\ Len(Append(pieces[p].versions, doc)) = Len(pieces[p].versions) + 1
        /\ Extends(pieces[p].versions, Append(pieces[p].versions, doc))
    BY <1>0, AppendExtends
  <2>3. row \in PieceRow
    BY <1>0, <2>2 DEF PieceRow
  <2>4. Len(row.versions) <= MaxVersions
    BY <1>0, <1>2, <2>2 DEF persistNewVersion, docVersion, PieceRow
  <2>5. RowOK(row)
    BY <1>0, <1>2, <2>2, <2>3, <2>4
    DEF RowOK, Editable, EDITABLE_STATUSES, status, PINNED_STATUSES, PieceRow
  <2>6. QED
    BY <1>0, <2>1, <2>2, <2>3, <2>5 DEF WritesRow, PieceRow
<1>3. Editable(p) => status(p) # "absent"
  BY DEF Editable, EDITABLE_STATUSES
<1>4. CASE \E doc \in Docs, base \in 1 .. MaxVersions : applyEditBatch(p, base, doc)
  BY <1>2, <1>3, <1>4 DEF applyEditBatch
<1>5. CASE \E version \in 1 .. MaxVersions : restoreVersion(p, version)
  <2>1. PICK version \in 1 .. MaxVersions : restoreVersion(p, version)
    BY <1>5
  <2>2. pieces[p].versions[version] \in Docs
    BY <1>0, <2>1, ElementOfSeq DEF restoreVersion, docVersion
  <2>3. QED
    BY <1>2, <1>3, <2>1, <2>2 DEF restoreVersion
<1>6. QED
  BY <1>1, <1>4, <1>5

LEMMA Moves ==
  ASSUME PieceInv, NEW p \in Pieces,
         \/ startDraftingPiece(p) \/ submitPieceForReview(p) \/ requestPieceChanges(p)
         \/ approvePiece(p) \/ reapprovePiece(p) \/ reopenPiece(p)
         \/ planPiece(p) \/ unplanPiece(p) \/ recordOutcome(p)
  PROVE  WritesRow(p)
<1> USE PieceLifecycleAssumption
<1>0. /\ RowOK(pieces[p]) /\ pieces[p] \in PieceRow /\ pieces \in [Pieces -> PieceRow]
      /\ pieces[p].versions \in Seq(Docs) /\ Len(pieces[p].versions) \in Nat
      /\ Extends(pieces[p].versions, pieces[p].versions)
      /\ kitVersion \in KitVersions /\ kitVersion >= 1 /\ audited \subseteq 2 .. kitVersion
  BY LenProperties, ExtendsRefl
  DEF PieceInv, PieceLifecycleTypeOK, PieceRow, kitVersion, KitVersions
<1>1. ASSUME NEW row, writeStatus(p, row), row \in PieceRow, RowOK(row),
             row.versions = pieces[p].versions
      PROVE  WritesRow(p)
  BY <1>0, <1>1 DEF writeStatus, WritesRow
<1>2. ASSUME NEW to \in Statuses, to # "absent", status(p) # "absent",
             writeStatus(p, [pieces[p] EXCEPT !.status = to]),
             \/ to \notin PINNED_STATUSES /\ status(p) \notin PINNED_STATUSES \cup {"exported", "measured"}
             \/ to = "measured"
      PROVE  WritesRow(p)
  <2> DEFINE row == [pieces[p] EXCEPT !.status = to]
  <2>1. row \in PieceRow /\ row.versions = pieces[p].versions
    BY <1>0 DEF PieceRow
  <2>2. RowOK(row)
    BY <1>0, <1>2, <2>1 DEF RowOK, status, Statuses, PINNED_STATUSES, PieceRow
  <2>3. QED
    BY <1>1, <1>2, <2>1, <2>2
<1>3. CASE startDraftingPiece(p) \/ submitPieceForReview(p) \/ requestPieceChanges(p) \/ recordOutcome(p)
  BY <1>2, <1>3
  DEF startDraftingPiece, submitPieceForReview, requestPieceChanges, recordOutcome, Keep,
      Statuses, PINNED_STATUSES
<1>4. ASSUME NEW to \in Statuses, to # "absent", status(p) # "absent", ~ isBlocked(p),
             to = status(p) \/ to = "approved", writeStatus(p, Pinned(p, to)),
             to \in PINNED_STATUSES \cup {"exported", "measured"}
      PROVE  WritesRow(p)
  <2> DEFINE row == Pinned(p, to)
  <2>1. row \in PieceRow /\ row.versions = pieces[p].versions
    BY <1>0 DEF PieceRow, Pinned
  <2>2. row.pin = kitVersion /\ row.outdated = FALSE /\ row.status = to
    BY <1>0 DEF PieceRow, Pinned
  <2>3. <<Last(row.versions), kits[row.pin]>> \notin Blocked
    BY <1>4, <2>1, <2>2 DEF isBlocked
  <2>4. \A v \in audited : ~ (row.pin < v)
    BY <1>0, <2>2 DEF KitVersions
  <2>5. /\ Len(row.versions) <= MaxVersions
        /\ row.status = "absent" <=> row.versions = <<>>
        /\ row.pin <= kitVersion /\ row.pin # NoKit
    BY <1>0, <1>4, <2>1, <2>2 DEF RowOK, status, NoKit, KitVersions
  <2> HIDE DEF row
  <2>6. RowOK(row)
    BY <1>4, <2>1, <2>2, <2>3, <2>4, <2>5 DEF RowOK
  <2> USE DEF row
  <2>7. QED
    BY <1>1, <1>4, <2>1, <2>6
<1>5. CASE approvePiece(p)
  BY <1>4, <1>5 DEF approvePiece, Statuses, PINNED_STATUSES
<1>6. CASE reapprovePiece(p)
  <2>1. status(p) \in PINNED_STATUSES \cup {"exported", "measured"}
    BY <1>0, <1>6 DEF reapprovePiece, RowOK, status
  <2>2. QED
    BY <1>4, <1>6, <2>1 DEF reapprovePiece, Statuses, PINNED_STATUSES
<1>7. CASE reopenPiece(p)
  <2> DEFINE row == [pieces[p] EXCEPT !.status = "drafting", !.pin = NoKit,
                       !.outdated = FALSE, !.dated = FALSE]
  <2>1. row \in PieceRow /\ row.versions = pieces[p].versions
    BY <1>0 DEF PieceRow, Statuses
  <2>2. RowOK(row)
    BY <1>0, <1>7, <2>1
    DEF RowOK, reopenPiece, REOPENABLE_STATUSES, status, PINNED_STATUSES, PieceRow, NoKit, KitVersions
  <2>3. QED
    BY <1>1, <1>7, <2>1, <2>2 DEF reopenPiece
<1>8. ASSUME NEW to \in PINNED_STATUSES, NEW dated \in BOOLEAN, status(p) \in PINNED_STATUSES,
             writeStatus(p, [pieces[p] EXCEPT !.status = to, !.dated = dated])
      PROVE  WritesRow(p)
  <2> DEFINE row == [pieces[p] EXCEPT !.status = to, !.dated = dated]
  <2>1. row \in PieceRow /\ row.versions = pieces[p].versions
    BY <1>0 DEF PieceRow, Statuses, PINNED_STATUSES
  <2>2. RowOK(row)
    BY <1>0, <1>8, <2>1 DEF RowOK, status, PINNED_STATUSES, PieceRow
  <2>3. QED
    BY <1>1, <1>8, <2>1, <2>2
<1>9. CASE planPiece(p) \/ unplanPiece(p)
  BY <1>8, <1>9 DEF planPiece, unplanPiece, PINNED_STATUSES
<1>10. QED
  BY <1>3, <1>5, <1>6, <1>7, <1>9

LEMMA PieceStepWritesRow ==
  ASSUME PieceInv, NEW p \in Pieces, PieceStep(p)
  PROVE  WritesRow(p)
BY Documents, Moves DEF PieceStep

-----------------------------------------------------------------------------
(* What was clean stays clean *)

\* Versions are added and never changed, so a clean rendering stays one.
LEMMA CleanStays ==
  ASSUME PieceInv, HistoryGrows, NEW x,
         x.piece \in Pieces, x.version \in 1 .. MaxVersions, x.kit \in KitVersions,
         CleanRendering(x),
         kits' \in Seq(Kits), \A p \in Pieces : pieces'[p].versions \in Seq(Docs)
  PROVE  CleanRendering(x)'
<1>1. /\ Len(kits) \in Nat /\ Len(kits') \in Nat
      /\ Len(pieces[x.piece].versions) \in Nat /\ Len(pieces'[x.piece].versions) \in Nat
  BY LenProperties DEF PieceInv, PieceLifecycleTypeOK, PieceRow
<1>2. x.version \in 1 .. Len(pieces[x.piece].versions) /\ x.kit \in 1 .. Len(kits)
  BY <1>1, PieceLifecycleAssumption DEF CleanRendering, docVersion, kitVersion, KitVersions
<1>3. /\ pieces'[x.piece].versions[x.version] = pieces[x.piece].versions[x.version]
      /\ kits'[x.kit] = kits[x.kit]
      /\ Len(kits) <= Len(kits')
      /\ Len(pieces[x.piece].versions) <= Len(pieces'[x.piece].versions)
  BY <1>2 DEF HistoryGrows, Extends
<1>4. x.version <= Len(pieces'[x.piece].versions) /\ x.kit <= Len(kits')
  <2>1. x.version <= Len(pieces[x.piece].versions) /\ x.kit <= Len(kits)
    BY <1>1, <1>2
  <2>2. x.version \in Nat /\ x.kit \in Nat
    BY <1>1, <1>2
  <2>3. \A a, b, c \in Nat : a <= b /\ b <= c => a <= c
    OBVIOUS
  <2>4. QED
    BY <1>1, <1>3, <2>1, <2>2, <2>3, Zenon
<1>5. <<pieces'[x.piece].versions[x.version], kits'[x.kit]>> \notin Blocked
  BY <1>3 DEF CleanRendering
<1>6. QED
  BY <1>4, <1>5 DEF CleanRendering, docVersion, kitVersion

\* The exports and their rows stay clean under a step that adds none.
LEMMA RenderingsStayClean ==
  ASSUME PieceInv, HistoryGrows,
         kits' \in Seq(Kits), \A p \in Pieces : pieces'[p].versions \in Seq(Docs),
         exportRows' = exportRows,
         \A e \in Exports : exporting'[e] \in {exporting[e], NotExporting}
  PROVE  (/\ \A row \in exportRows : CleanRendering(row)
          /\ \A e \in Exports : exporting[e] # NotExporting => CleanRendering(exporting[e]))'
<1>1. ASSUME NEW row \in exportRows
      PROVE  CleanRendering(row)'
  <2>1. row \in ExportRow /\ CleanRendering(row)
    BY DEF PieceInv, PieceLifecycleTypeOK
  <2>2. QED
    BY <2>1, CleanStays DEF ExportRow
<1>2. ASSUME NEW e \in Exports, NEW x, x = exporting[e], x # NotExporting
      PROVE  CleanRendering(x)'
  <2>1. x \in Exporting /\ CleanRendering(x)
    BY <1>2 DEF PieceInv, PieceLifecycleTypeOK
  <2>2. QED
    BY <2>1, CleanStays DEF Exporting
<1>3. ASSUME NEW e \in Exports, exporting'[e] # NotExporting
      PROVE  CleanRendering(exporting[e])'
  <2>1. exporting'[e] = exporting[e]
    BY <1>3
  <2>2. QED
    BY <1>2, <1>3, <2>1 DEF CleanRendering
<1>4. QED
  BY <1>1, <1>3

-----------------------------------------------------------------------------
(* Each step keeps the invariant *)

\* A sound row written where a sound row was.
LEMMA RowKeeps ==
  ASSUME PieceInv, NEW p \in Pieces, WritesRow(p)
  PROVE  PieceInv' /\ HistoryGrows
<1>1. PICK row \in PieceRow :
        /\ RowOK(row)
        /\ Extends(pieces[p].versions, row.versions)
        /\ pieces' = [pieces EXCEPT ![p] = row]
  BY DEF WritesRow
<1>2. UNCHANGED <<kits, audited, exportRows, files, exporting>>
  BY DEF WritesRow, kitVars, exportVars
<1>3. pieces \in [Pieces -> PieceRow] /\ kits \in Seq(Kits)
  BY DEF PieceInv, PieceLifecycleTypeOK
<1>4. \A q \in Pieces : pieces'[q] = IF q = p THEN row ELSE pieces[q]
  BY <1>1, <1>3
<1>5. \A q \in Pieces : RowOK(pieces'[q])
  BY <1>1, <1>4 DEF PieceInv
<1>6. PieceLifecycleTypeOK'
  BY <1>1, <1>2, <1>3, <1>5 DEF PieceInv, PieceLifecycleTypeOK, RowOK
<1>7. HistoryGrows
  <2>1. Extends(kits, kits')
    BY <1>2, <1>3, ExtendsRefl
  <2>2. \A q \in Pieces : Extends(pieces[q].versions, pieces[q].versions)
    BY <1>3, ExtendsRefl DEF PieceRow
  <2>3. QED
    BY <1>1, <1>4, <2>1, <2>2 DEF HistoryGrows
<1>8. (\A q \in Pieces : RowOK(pieces[q]))'
  BY <1>2, <1>5 DEF RowOK, kitVersion
<1>9. \A q \in Pieces : pieces'[q].versions \in Seq(Docs)
  BY <1>6 DEF PieceLifecycleTypeOK, PieceRow
<1>10. QED
  BY <1>2, <1>3, <1>6, <1>7, <1>8, <1>9, RenderingsStayClean DEF PieceInv

\* The rows an update of the kit leaves: flagged where it signed something off.
LEMMA FlaggedRow ==
  ASSUME PieceInv, NEW p \in Pieces, NEW kit \in Kits, kitVersion < MaxKits
  PROVE  [pieces[p] EXCEPT !.outdated = @ \/ status(p) \in PINNED_STATUSES] \in PieceRow
<1>1. pieces[p] \in PieceRow
  BY DEF PieceInv, PieceLifecycleTypeOK
<1>2. (pieces[p].outdated \/ status(p) \in PINNED_STATUSES) \in BOOLEAN
  OBVIOUS
<1>3. QED
  BY <1>1, <1>2 DEF PieceRow

LEMMA UpdateKitKeeps ==
  ASSUME PieceInv, NEW kit \in Kits, updateKit(kit)
  PROVE  PieceInv' /\ HistoryGrows
<1> USE PieceLifecycleAssumption
<1>1. /\ kits \in Seq(Kits) /\ pieces \in [Pieces -> PieceRow]
      /\ kits' = Append(kits, kit) /\ Len(kits) \in Nat /\ Len(kits) >= 1
      /\ kits' \in Seq(Kits) /\ Len(kits') = Len(kits) + 1 /\ Len(kits) < MaxKits
      /\ Extends(kits, kits')
      /\ audited \subseteq 2 .. Len(kits)
      /\ UNCHANGED <<exportRows, files>>
  BY AppendExtends, LenProperties
  DEF updateKit, insertKit, kitVersion, PieceInv, PieceLifecycleTypeOK, KitVersions
<1>2. \/ flagBrandOutdated /\ audited' = audited \cup {Len(kits) + 1}
      \/ (flagBrandOutdated \/ UNCHANGED pieces) /\ UNCHANGED audited
  BY DEF updateKit, kitVersion
<1>3. audited' \subseteq 2 .. Len(kits')
  <2>1. audited \subseteq 2 .. Len(kits) + 1
    BY <1>1
  <2>2. Len(kits) + 1 \in 2 .. Len(kits) + 1
    BY <1>1
  <2>3. Len(kits') = Len(kits) + 1
    BY <1>1
  <2>4. CASE audited' = audited
    BY <2>1, <2>3, <2>4
  <2>5. CASE audited' = audited \cup {Len(kits) + 1}
    BY <2>1, <2>2, <2>3, <2>5
  <2>6. QED
    BY <1>2, <2>4, <2>5
<1>4. \A e \in Exports : exporting'[e] \in {exporting[e], NotExporting}
  BY DEF updateKit, Die
<1>5. exporting' \in [Exports -> {NotExporting} \cup Exporting]
  BY DEF updateKit, Die, PieceInv, PieceLifecycleTypeOK
<1>6. pieces' \in [Pieces -> PieceRow]
  BY <1>1, <1>2, FlaggedRow DEF flagBrandOutdated, updateKit
<1>7. \A p \in Pieces :
        /\ pieces'[p].versions = pieces[p].versions /\ pieces'[p].status = pieces[p].status
        /\ pieces'[p].pin = pieces[p].pin
        /\ pieces'[p].outdated => pieces[p].outdated \/ pieces[p].status \in PINNED_STATUSES
        /\ pieces[p].outdated => pieces'[p].outdated
        /\ audited' # audited /\ pieces[p].status \in PINNED_STATUSES => pieces'[p].outdated
  <2>1. CASE UNCHANGED <<pieces, audited>>
    BY <2>1
  <2>2. CASE flagBrandOutdated
    <3>1. \A p \in Pieces :
            /\ pieces[p] \in PieceRow
            /\ pieces'[p] = [pieces[p] EXCEPT !.outdated = @ \/ status(p) \in PINNED_STATUSES]
      BY <1>1, <2>2 DEF flagBrandOutdated
    <3>2. \A p \in Pieces :
            /\ pieces'[p].versions = pieces[p].versions /\ pieces'[p].status = pieces[p].status
            /\ pieces'[p].pin = pieces[p].pin
      BY <3>1 DEF PieceRow
    <3>3. \A p \in Pieces :
            pieces'[p].outdated <=> pieces[p].outdated \/ pieces[p].status \in PINNED_STATUSES
      BY <3>1 DEF PieceRow, status
    <3>4. QED
      BY <3>2, <3>3
  <2>3. QED
    BY <1>2, <2>1, <2>2
<1>8. HistoryGrows
  BY <1>1, <1>7, ExtendsRefl DEF HistoryGrows, PieceRow
<1>9. PieceLifecycleTypeOK'
  BY <1>1, <1>3, <1>5, <1>6, <1>7 DEF PieceInv, PieceLifecycleTypeOK, KitVersions
<1>10. ASSUME NEW p \in Pieces
       PROVE  RowOK(pieces[p])'
  <2>1. RowOK(pieces[p]) /\ pieces[p].pin \in Nat /\ pieces'[p] \in PieceRow
    BY <1>1, <1>6 DEF PieceInv, PieceRow, NoKit, KitVersions
  <2>2. Len(pieces'[p].versions) <= MaxVersions
    BY <1>7, <2>1 DEF RowOK
  <2>3. pieces'[p].pin <= Len(kits') /\ (pieces'[p].outdated => pieces'[p].pin < Len(kits'))
    BY <1>1, <1>7, <2>1 DEF RowOK, kitVersion
  <2>4. CASE pieces[p].status \in PINNED_STATUSES
    <3>1. pieces[p].pin \in 1 .. Len(kits) /\ kits'[pieces[p].pin] = kits[pieces[p].pin]
      BY <1>1, <2>1, <2>4 DEF RowOK, kitVersion, NoKit, Extends
    <3>2. <<Last(pieces'[p].versions), kits'[pieces'[p].pin]>> \notin Blocked
      BY <1>7, <2>1, <2>4, <3>1 DEF RowOK
    <3>3. ASSUME NEW v \in audited', pieces'[p].pin < v PROVE pieces'[p].outdated
      BY <1>7, <2>1, <2>4, <3>3 DEF RowOK
    <3>4. QED
      BY <1>7, <2>1, <2>2, <2>3, <2>4, <3>2, <3>3 DEF RowOK, kitVersion
  <2>5. CASE pieces[p].status \notin PINNED_STATUSES
    BY <1>7, <2>1, <2>2, <2>3, <2>5 DEF RowOK, kitVersion
  <2>6. QED
    BY <2>4, <2>5
<1>11. \A p \in Pieces : pieces'[p].versions \in Seq(Docs)
  BY <1>6 DEF PieceRow
<1>12. QED
  BY <1>1, <1>4, <1>8, <1>9, <1>10, <1>11, RenderingsStayClean DEF PieceInv

\* A step that leaves documents and kits alone leaves every version alone.
LEMMA NothingWritten ==
  ASSUME PieceInv, UNCHANGED <<kits, audited, pieces>>
  PROVE  /\ HistoryGrows
         /\ (\A p \in Pieces : RowOK(pieces[p]))'
         /\ kits' \in Seq(Kits)
         /\ \A p \in Pieces : pieces'[p].versions \in Seq(Docs)
<1>1. kits \in Seq(Kits) /\ \A p \in Pieces : pieces[p].versions \in Seq(Docs)
  BY DEF PieceInv, PieceLifecycleTypeOK, PieceRow
<1>2. HistoryGrows
  BY <1>1, ExtendsRefl DEF HistoryGrows
<1>3. (\A p \in Pieces : RowOK(pieces[p]))'
  BY DEF PieceInv, RowOK, kitVersion
<1>4. QED
  BY <1>1, <1>2, <1>3

\* A planned piece without a flag renders clean in the kit it is pinned to.
LEMMA PlannedIsClean ==
  ASSUME PieceInv, NEW e \in Exports, NEW p \in Pieces, exportPieceRecord(e, p)
  PROVE  /\ exporting'[e] \in Exporting
         /\ CleanRendering(exporting'[e])
<1> USE PieceLifecycleAssumption
<1> DEFINE x == [piece |-> p, version |-> docVersion(p), kit |-> exportKit(p),
                 slides |-> SlideCount[Last(pieces[p].versions)], rendered |-> 0]
<1>1. /\ RowOK(pieces[p]) /\ pieces[p] \in PieceRow /\ status(p) = "planned"
      /\ Len(kits) \in KitVersions /\ kits \in Seq(Kits)
      /\ exporting \in [Exports -> {NotExporting} \cup Exporting]
  BY DEF PieceInv, PieceLifecycleTypeOK, exportPieceRecord, Exportable
<1>2. pieces[p].pin \in KitVersions /\ pieces[p].pin <= Len(kits) /\ exportKit(p) = pieces[p].pin
  BY <1>1 DEF RowOK, PINNED_STATUSES, status, PieceRow, exportKit, kitVersion
<1>3. /\ pieces[p].versions \in Seq(Docs) /\ pieces[p].versions # <<>>
      /\ Len(pieces[p].versions) <= MaxVersions
  BY <1>1 DEF RowOK, status, PieceRow
<1>4. /\ docVersion(p) \in 1 .. MaxVersions
      /\ Last(pieces[p].versions) = pieces[p].versions[docVersion(p)]
  BY <1>3, LastOf DEF docVersion
<1>5. x \in Exporting
  <2>1. Last(pieces[p].versions) \in Docs
    BY <1>3, LastOf
  <2>2. SlideCount[Last(pieces[p].versions)] \in 1 .. MaxSlides
    BY <2>1, SlideCountAssumption
  <2>3. 0 \in 0 .. MaxSlides - 1
    BY SlideCountAssumption
  <2>4. QED
    BY <1>2, <1>4, <2>2, <2>3 DEF Exporting
<1>6. exporting'[e] = x
  BY <1>1 DEF exportPieceRecord
<1>7. <<Last(pieces[p].versions), kits[pieces[p].pin]>> \notin Blocked
  BY <1>1 DEF RowOK, PINNED_STATUSES, status
<1>8. /\ x.piece = p /\ x.version = docVersion(p) /\ x.kit = pieces[p].pin
  BY <1>2
<1> HIDE DEF x
<1>9. CleanRendering(x)
  BY <1>2, <1>4, <1>7, <1>8 DEF CleanRendering, kitVersion
<1>10. QED
  BY <1>5, <1>6, <1>9

LEMMA WriteSlideTyped ==
  ASSUME PieceInv, NEW e \in Exports, exporting[e] # NotExporting, writeSlide(e)
  PROVE  files' \in [Pieces \X (1 .. MaxVersions) \X (1 .. MaxSlides) -> {NoKit} \cup KitVersions]
<1>1. exporting[e] \in Exporting
  BY DEF PieceInv, PieceLifecycleTypeOK
<1>2. exporting[e].kit \in KitVersions
  BY <1>1 DEF Exporting
<1>3. QED
  BY <1>2 DEF writeSlide, PieceInv, PieceLifecycleTypeOK

LEMMA ExportStepKeeps ==
  ASSUME PieceInv, NEW e \in Exports, ExportStep(e)
  PROVE  PieceInv' /\ HistoryGrows
<1> USE PieceLifecycleAssumption
<1>0. /\ exporting \in [Exports -> {NotExporting} \cup Exporting]
      /\ \A d \in Exports : exporting[d] # NotExporting => CleanRendering(exporting[d])
      /\ pieces \in [Pieces -> PieceRow]
  BY DEF PieceInv, PieceLifecycleTypeOK
<1>1. ASSUME NEW p \in Pieces, exportPieceRecord(e, p)
      PROVE  PieceInv' /\ HistoryGrows
  <2>1. UNCHANGED <<kits, audited, pieces, exportRows, files>>
    BY <1>1 DEF exportPieceRecord, kitVars
  <2>2. exporting' \in [Exports -> {NotExporting} \cup Exporting]
        /\ \A d \in Exports : d # e => exporting'[d] = exporting[d]
    BY <1>0, <1>1, PlannedIsClean DEF exportPieceRecord
  <2>3. PieceLifecycleTypeOK'
    BY <2>1, <2>2 DEF PieceInv, PieceLifecycleTypeOK
  <2>4. (\A d \in Exports : exporting[d] # NotExporting => CleanRendering(exporting[d]))'
    BY <1>0, <1>1, <2>1, <2>2, PlannedIsClean DEF CleanRendering, docVersion, kitVersion
  <2>5. (\A row \in exportRows : CleanRendering(row))'
    BY <2>1 DEF PieceInv, CleanRendering, docVersion, kitVersion
  <2>6. QED
    BY <2>1, <2>3, <2>4, <2>5, NothingWritten DEF PieceInv
<1>2. CASE slideRendered(e)
  <2>1. UNCHANGED <<kits, audited, pieces, exportRows>>
    BY <1>2 DEF slideRendered, kitVars
  <2>2. exporting[e] \in Exporting /\ exporting[e].rendered + 1 < exporting[e].slides
    BY <1>0, <1>2 DEF slideRendered
  <2>3. [exporting[e] EXCEPT !.rendered = @ + 1] \in Exporting
    BY <2>2, SlideCountAssumption DEF Exporting
  <2>4. exporting' \in [Exports -> {NotExporting} \cup Exporting]
    BY <1>0, <1>2, <2>3 DEF slideRendered
  <2>5. \A d \in Exports : exporting'[d] # NotExporting =>
          /\ exporting[d] # NotExporting /\ exporting'[d].piece = exporting[d].piece
          /\ exporting'[d].version = exporting[d].version /\ exporting'[d].kit = exporting[d].kit
    BY <1>0, <1>2, <2>2 DEF slideRendered, Exporting
  <2>6. PieceLifecycleTypeOK'
    BY <1>2, <2>1, <2>4, WriteSlideTyped DEF PieceInv, PieceLifecycleTypeOK, slideRendered
  <2>7. (\A d \in Exports : exporting[d] # NotExporting => CleanRendering(exporting[d]))'
    BY <1>0, <2>1, <2>5 DEF CleanRendering, docVersion, kitVersion
  <2>8. (\A row \in exportRows : CleanRendering(row))'
    BY <2>1 DEF PieceInv, CleanRendering, docVersion, kitVersion
  <2>9. QED
    BY <2>1, <2>6, <2>7, <2>8, NothingWritten DEF PieceInv
<1>3. CASE exportFinishes(e)
  <2> DEFINE x == exporting[e]
  <2>1. /\ x \in Exporting /\ CleanRendering(x) /\ UNCHANGED <<kits, audited>>
        /\ exportRows' = exportRows \cup {BundleRow(x)}
        /\ BundleRow(x) \in ExportRow
    BY <1>0, <1>3 DEF exportFinishes, kitVars, BundleRow, Exporting, ExportRow
  <2>2. exporting' \in [Exports -> {NotExporting} \cup Exporting]
        /\ \A d \in Exports : exporting'[d] \in {exporting[d], NotExporting}
    BY <1>0, <1>3 DEF exportFinishes, Die
  <2>3. pieces' = pieces \/ pieces' = [pieces EXCEPT ![x.piece].status = "exported"]
    BY <1>3 DEF exportFinishes
  <2>4. pieces' \in [Pieces -> PieceRow]
    <3>1. x.piece \in Pieces
      BY <2>1 DEF Exporting
    <3> HIDE DEF x
    <3>2. \A row \in PieceRow : [row EXCEPT !.status = "exported"] \in PieceRow
      BY DEF PieceRow, Statuses
    <3>3. QED
      BY <1>0, <2>3, <3>1, <3>2
  <2>5. \A q \in Pieces :
          /\ pieces'[q].versions = pieces[q].versions /\ pieces'[q].pin = pieces[q].pin
          /\ pieces'[q].outdated = pieces[q].outdated
          /\ \/ pieces'[q].status = pieces[q].status
             \/ pieces'[q].status = "exported" /\ q = x.piece
    BY <1>0, <2>3 DEF PieceRow
  <2>6. HistoryGrows
    BY <1>0, <2>1, <2>5, ExtendsRefl DEF HistoryGrows, PieceInv, PieceLifecycleTypeOK, PieceRow
  <2>7. pieces[x.piece].versions # <<>> /\ x.piece \in Pieces
    <3>1. x.version >= 1 /\ x.version <= Len(pieces[x.piece].versions) /\ x.piece \in Pieces
      BY <2>1 DEF Exporting, CleanRendering, docVersion
    <3>2. pieces[x.piece].versions = <<>> => Len(pieces[x.piece].versions) = 0
      BY EmptySeq
    <3>3. QED
      BY <2>1, <3>1, <3>2 DEF Exporting
  <2>8. ASSUME NEW q \in Pieces PROVE RowOK(pieces[q])'
    <3>1. RowOK(pieces[q]) /\ pieces'[q] \in PieceRow
      BY <2>4 DEF PieceInv
    <3>2. CASE pieces'[q].status = pieces[q].status
      BY <2>1, <2>5, <3>1, <3>2 DEF RowOK, kitVersion
    <3>3. CASE pieces'[q].status = "exported" /\ q = x.piece
      BY <2>1, <2>5, <2>7, <3>1, <3>3 DEF RowOK, kitVersion, PINNED_STATUSES
    <3>4. QED
      BY <2>5, <3>2, <3>3
  <2>9. PieceLifecycleTypeOK'
    BY <1>3, <2>1, <2>2, <2>4, <2>5, WriteSlideTyped
    DEF PieceInv, PieceLifecycleTypeOK, exportFinishes
  <2>10. ASSUME NEW row, CleanRendering(row), row.piece \in Pieces
         PROVE  CleanRendering(row)'
    BY <2>1, <2>5, <2>10 DEF CleanRendering, docVersion, kitVersion
  <2>11. (\A row \in exportRows : CleanRendering(row))'
    <3>1. \A row \in exportRows : row.piece \in Pieces /\ CleanRendering(row)
      BY DEF PieceInv, PieceLifecycleTypeOK, ExportRow
    <3>2. CleanRendering(BundleRow(x)) /\ BundleRow(x).piece \in Pieces
      BY <2>1 DEF CleanRendering, BundleRow, ExportRow
    <3>3. QED
      BY <2>1, <2>10, <3>1, <3>2
  <2>12. ASSUME NEW d \in Exports, exporting'[d] # NotExporting
         PROVE  CleanRendering(exporting[d])'
    <3>1. exporting'[d] = exporting[d] /\ CleanRendering(exporting[d]) /\ exporting[d].piece \in Pieces
      BY <1>0, <2>2, <2>12 DEF Exporting
    <3>2. QED
      BY <2>1, <2>5, <3>1 DEF CleanRendering, docVersion, kitVersion
  <2>13. QED
    BY <2>6, <2>8, <2>9, <2>11, <2>12 DEF PieceInv
<1>4. CASE exportFails(e)
  <2>1. UNCHANGED <<kits, audited, pieces, exportRows, files>>
        /\ exporting' \in [Exports -> {NotExporting} \cup Exporting]
        /\ \A d \in Exports : exporting'[d] \in {exporting[d], NotExporting}
    BY <1>0, <1>4 DEF exportFails, kitVars
  <2>2. QED
    BY <2>1, NothingWritten, RenderingsStayClean DEF PieceInv, PieceLifecycleTypeOK
<1>5. QED
  BY <1>1, <1>2, <1>3, <1>4 DEF ExportStep

LEMMA DeathKeeps ==
  ASSUME PieceInv, processDies
  PROVE  PieceInv' /\ HistoryGrows
<1>1. UNCHANGED <<kits, audited, pieces, exportRows, files>>
      /\ exporting' \in [Exports -> {NotExporting} \cup Exporting]
      /\ \A d \in Exports : exporting'[d] \in {exporting[d], NotExporting}
  BY DEF processDies, Die, kitVars
<1>2. QED
  BY <1>1, NothingWritten, RenderingsStayClean DEF PieceInv, PieceLifecycleTypeOK

LEMMA PieceInvStep ==
  ASSUME PieceInv, [PieceLifecycleNext]_pieceVars
  PROVE  PieceInv' /\ HistoryGrows
<1>1. CASE UNCHANGED pieceVars
  <2>1. UNCHANGED <<kits, audited, pieces, exportRows, files, exporting>>
    BY <1>1 DEF pieceVars
  <2>2. PieceLifecycleTypeOK'
    BY <2>1 DEF PieceInv, PieceLifecycleTypeOK
  <2>3. \A e \in Exports : exporting'[e] \in {exporting[e], NotExporting}
    BY <2>1
  <2>4. QED
    BY <2>1, <2>2, <2>3, NothingWritten, RenderingsStayClean DEF PieceInv
<1>2. QED
  BY <1>1, PieceStepWritesRow, RowKeeps, UpdateKitKeeps, ExportStepKeeps, DeathKeeps
  DEF PieceLifecycleNext

LEMMA PieceInvInit ==
  ASSUME PieceLifecycleInit
  PROVE  PieceInv
<1> USE PieceLifecycleAssumption
<1>1. <<>> \in Seq(Docs) /\ Len(<<>>) = 0 /\ <<SeedKit>> \in Seq(Kits) /\ Len(<<SeedKit>>) = 1
  BY EmptySeq
<1>2. PieceLifecycleTypeOK
  BY <1>1
  DEF PieceLifecycleInit, PieceLifecycleTypeOK, PieceRow, Statuses, KitVersions
<1>3. \A p \in Pieces : RowOK(pieces[p])
  BY <1>1, <1>2
  DEF PieceLifecycleInit, PieceLifecycleTypeOK, RowOK, PINNED_STATUSES, NoKit, kitVersion
<1>4. QED
  BY <1>2, <1>3 DEF PieceInv, PieceLifecycleInit

-----------------------------------------------------------------------------
(* The theorems *)

LEMMA PieceInvariance == PieceLifecycleSpec => []PieceInv
<1>1. PieceLifecycleInit => PieceInv
  BY PieceInvInit
<1>2. PieceInv /\ [PieceLifecycleNext]_pieceVars => PieceInv'
  BY PieceInvStep
<1>3. QED
  BY <1>1, <1>2, PTL DEF PieceLifecycleSpec

\* Type correctness: the tables, the files and the record of every export.
THEOREM PieceTypeCorrect == PieceLifecycleSpec => []PieceLifecycleTypeOK
<1>1. PieceInv => PieceLifecycleTypeOK
  BY DEF PieceInv
<1>2. QED
  BY <1>1, PieceInvariance, PTL

LEMMA PieceInvGives ==
  ASSUME PieceInv
  PROVE  ApprovedRenderingIsClean /\ FlagIsExact /\ BundlesAreCleanRenderings
<1> USE PieceLifecycleAssumption
<1>1. ASSUME NEW p \in Pieces, status(p) \in PINNED_STATUSES
      PROVE  /\ pieces[p].pin \in 1 .. kitVersion
             /\ <<Last(pieces[p].versions), kits[pieces[p].pin]>> \notin Blocked
             /\ pieces[p].outdated => pieces[p].pin < kitVersion
             /\ (\E v \in audited : pieces[p].pin < v) => pieces[p].outdated
  <2>1. RowOK(pieces[p]) /\ pieces[p] \in PieceRow /\ kitVersion \in Nat
    BY DEF PieceInv, PieceLifecycleTypeOK, kitVersion, KitVersions
  <2>2. pieces[p].pin \in KitVersions /\ pieces[p].pin <= kitVersion
    BY <1>1, <2>1 DEF RowOK, status, PieceRow
  <2>3. QED
    BY <1>1, <2>1, <2>2 DEF RowOK, status, KitVersions
<1>2. ASSUME NEW row \in exportRows
      PROVE  /\ row.version \in 1 .. docVersion(row.piece)
             /\ <<pieces[row.piece].versions[row.version], kits[row.kit]>> \notin Blocked
  <2>1. CleanRendering(row) /\ row \in ExportRow
    BY DEF PieceInv, PieceLifecycleTypeOK
  <2>2. pieces[row.piece].versions \in Seq(Docs)
    BY <2>1 DEF PieceInv, PieceLifecycleTypeOK, ExportRow, PieceRow
  <2>3. docVersion(row.piece) \in Nat
    BY <2>2, LenProperties DEF docVersion
  <2>4. QED
    BY <2>1, <2>3 DEF CleanRendering, ExportRow
<1>3. {"approved", "planned"} = PINNED_STATUSES
  BY DEF PINNED_STATUSES
<1>4. QED
  BY <1>1, <1>2, <1>3 DEF ApprovedRenderingIsClean, FlagIsExact, BundlesAreCleanRenderings

\* The current document of an approved or planned piece has no blocker in the
\* kit version its approval pinned, whatever updates, re-approvals and exports
\* came since (piece-lifecycle.ts:8); a piece in review carries no check.
THEOREM SignedOffIsClean == PieceLifecycleSpec => []ApprovedRenderingIsClean
BY PieceInvGives, PieceInvariance, PTL

\* The brand-outdated flag says of signed-off work that its kit is not the
\* current one, and is there once the update reported it (brand-kit.ts:190).
THEOREM FlagsAreExact == PieceLifecycleSpec => []FlagIsExact
BY PieceInvGives, PieceInvariance, PTL

\* Every bundle recorded was begun for a rendering without blockers, though the
\* piece is not looked at again after its slides were awaited (renderer.ts:316).
THEOREM BundlesAreClean == PieceLifecycleSpec => []BundlesAreCleanRenderings
BY PieceInvGives, PieceInvariance, PTL

\* Documents and kits are append-only: no step changes a version that exists
\* (pieces.ts and brand-kit.ts insert, and never update, a version).
THEOREM HistoryIsKept == PieceLifecycleSpec => [][HistoryGrows]_pieceVars
<1>1. PieceInv /\ [PieceLifecycleNext]_pieceVars => [HistoryGrows]_pieceVars
  BY PieceInvStep
<1>2. QED
  BY <1>1, PieceInvariance, PTL DEF PieceLifecycleSpec

-----------------------------------------------------------------------------
(* The Studio *)


StudioInv ==
  /\ PieceInv
  /\ assets \in Seq(AssetRow)
  /\ DOMAIN handoff = Pieces
  /\ \A p \in Pieces : handoff[p].prompt \in Prompts \cup {NoPrompt}
  /\ templates \in Seq(Docs)
  /\ AttachedImageIsItsOwn

-----------------------------------------------------------------------------
(* The Studio implements the lifecycle *)

LEMMA InvTypes ==
  ASSUME StudioInv
  PROVE  /\ kits \in Seq(Kits)
         /\ pieces \in [Pieces -> PieceRow]
         /\ \A p \in Pieces :
              /\ pieces[p].versions \in Seq(Docs)
              /\ status(p) # "absent" <=> pieces[p].versions # <<>>
              /\ docVersion(p) \in Nat
              /\ docVersion(p) > 0 <=> pieces[p].versions # <<>>
              /\ pieces[p].versions # <<>> =>
                   /\ Last(pieces[p].versions) = pieces[p].versions[docVersion(p)]
                   /\ Last(pieces[p].versions) \in Docs
                   /\ docVersion(p) \in 1 .. MaxVersions
<1>1. /\ kits \in Seq(Kits) /\ pieces \in [Pieces -> PieceRow]
      /\ \A p \in Pieces : RowOK(pieces[p])
  BY DEF StudioInv, PieceInv, PieceLifecycleTypeOK
<1>2. ASSUME NEW p \in Pieces
      PROVE  /\ pieces[p].versions \in Seq(Docs)
             /\ status(p) # "absent" <=> pieces[p].versions # <<>>
             /\ docVersion(p) \in Nat /\ docVersion(p) <= MaxVersions
    BY <1>1, LenProperties DEF PieceRow, RowOK, status, docVersion
<1>3. ASSUME NEW p \in Pieces
      PROVE  docVersion(p) > 0 <=> pieces[p].versions # <<>>
    BY <1>2, EmptySeq DEF docVersion
<1>4. ASSUME NEW p \in Pieces, pieces[p].versions # <<>>
      PROVE  /\ Last(pieces[p].versions) = pieces[p].versions[docVersion(p)]
             /\ Last(pieces[p].versions) \in Docs
             /\ docVersion(p) \in 1 .. MaxVersions
    BY <1>2, <1>4, LastOf, PieceLifecycleAssumption DEF docVersion
<1>5. QED
  BY <1>1, <1>2, <1>3, <1>4

\* Every document a step of a piece writes is one the lifecycle knows.
LEMMA DocumentStepIsLifecycle ==
  ASSUME StudioInv, NEW p \in Pieces, DocumentStep(p)
  PROVE  /\ PieceStep(p) \/ UNCHANGED pieceVars
         /\ UNCHANGED <<assets, handoff>>
         /\ templates' \in Seq(Docs)
<1> USE StudioAssumption
<1>0. templates \in Seq(Docs)
  BY DEF StudioInv
<1>1. CASE \E doc \in Starters : createFrom(p, doc)
  BY <1>0, <1>1 DEF createFrom, PieceStep, studioVars
<1>2. CASE \E b \in DOMAIN Batches : editBatch(p, Batches[b])
  <2>1. PICK b \in DOMAIN Batches : editBatch(p, Batches[b])
    BY <1>2
  <2>2. Last(pieces[p].versions) \in Docs /\ docVersion(p) \in 1 .. MaxVersions
    BY <2>1, InvTypes DEF editBatch
  <2>3. \A doc \in batchResults(Last(pieces[p].versions), Batches[b]) : doc \in Docs
    BY <2>2
  <2>4. \E doc \in Docs : applyEditBatch(p, docVersion(p), doc)
    BY <2>1, <2>3 DEF editBatch
  <2>5. QED
    BY <1>0, <2>1, <2>2, <2>4 DEF PieceStep, editBatch, studioVars
<1>3. CASE saveAsTemplate(p)
  <2>1. Last(pieces[p].versions) \in Docs
    BY <1>3, InvTypes DEF saveAsTemplate
  <2>2. stripToTemplate(Last(pieces[p].versions)) \in Docs
    BY <2>1
  <2>3. QED
    BY <1>0, <1>3, <2>2, AppendProperties DEF saveAsTemplate
<1>4. CASE \E n \in DOMAIN templates : instantiateTemplate(p, n)
  <2>1. PICK n \in DOMAIN templates : instantiateTemplate(p, n)
    BY <1>4
  <2>2. templates[n] \in Docs
    BY <1>0, <2>1, ElementOfSeq, LenProperties
  <2>3. QED
    BY <1>0, <2>1, <2>2 DEF instantiateTemplate, PieceStep, studioVars
<1>5. QED
  BY <1>1, <1>2, <1>3, <1>4 DEF DocumentStep

\* An asset is added, and the piece it is for learns of it with a prompt that
\* does not contradict the asset's, or not at all.
AssetAdded ==
  \E row \in AssetRow :
    /\ assets' = Append(assets, row)
    /\ \/ handoff' = handoff
       \/ \E p \in Pieces, prompt \in Prompts \cup {NoPrompt} :
            /\ row.own
            /\ row.prompt \in {NoPrompt, prompt}
            /\ setImageState(p, "asset_attached", Len(assets) + 1, prompt)

HandoffPrepared ==
  /\ UNCHANGED assets
  /\ \E p \in Pieces, prompt \in Prompts \cup {NoPrompt} :
       setImageState(p, "prompt_prepared", NoRef, prompt)

LEMMA ImageStepIsLifecycle ==
  ASSUME StudioInv, NEW p \in Pieces, ImageStep(p)
  PROVE  /\ processDies \/ UNCHANGED pieceVars
         /\ AssetAdded \/ HandoffPrepared
         /\ UNCHANGED templates
<1>0. /\ NoPrompt \notin Prompts /\ handoff[p].prompt \in Prompts \cup {NoPrompt}
  BY StudioAssumption DEF StudioInv
<1>1. \A prompt \in Prompts \cup {NoPrompt} :
        /\ lineage(p, prompt) \in Prompts \cup {NoPrompt}
        /\ prompt \in {NoPrompt, lineage(p, prompt)}
  BY <1>0 DEF lineage, Given
<1>2. ASSUME NEW own \in BOOLEAN, NEW prompt \in Prompts \cup {NoPrompt}, own,
             insertAsset(own, prompt), attachToPiece(p, prompt),
             UNCHANGED <<kitVars, pieces, exportRows, files, templates>>
      PROVE  (processDies \/ UNCHANGED pieceVars) /\ AssetAdded
  <2> DEFINE row == [own |-> own, prompt |-> prompt]
  <2>1. row \in AssetRow /\ row.own /\ row.prompt = prompt /\ assets' = Append(assets, row)
    BY <1>2 DEF insertAsset, AssetRow
  <2>2. CASE setImageState(p, "asset_attached", Len(assets) + 1, lineage(p, prompt)) /\ UNCHANGED exporting
    <3>1. UNCHANGED pieceVars
      BY <1>2, <2>2 DEF pieceVars, kitVars
    <3> HIDE DEF row
    <3>2. AssetAdded
      BY <1>1, <2>1, <2>2 DEF AssetAdded
    <3>3. QED
      BY <3>1, <3>2
  <2>3. CASE Crashes /\ Die /\ UNCHANGED handoff
    <3>1. processDies
      BY <1>2, <2>3 DEF processDies
    <3> HIDE DEF row
    <3>2. AssetAdded
      BY <2>1, <2>3 DEF AssetAdded
    <3>3. QED
      BY <3>1, <3>2
  <2>4. QED
    BY <1>2, <2>2, <2>3 DEF attachToPiece
<1>3. ASSUME NEW prompt \in Prompts \cup {NoPrompt}, prepareHandoff(p, prompt)
      PROVE  UNCHANGED pieceVars /\ HandoffPrepared /\ UNCHANGED templates
  BY <1>3 DEF prepareHandoff, HandoffPrepared, pieceVars, kitVars
<1>4. ASSUME NEW prompt \in Prompts \cup {NoPrompt}, uploadAsset(p, prompt)
      PROVE  (processDies \/ UNCHANGED pieceVars) /\ AssetAdded /\ UNCHANGED templates
  BY <1>1, <1>2, <1>4 DEF uploadAsset
<1>5. ASSUME NEW own \in BOOLEAN, NEW generated \in BOOLEAN, NEW prompt \in Prompts \cup {NoPrompt},
             registerAsset(p, own, generated, prompt)
      PROVE  (processDies \/ UNCHANGED pieceVars) /\ AssetAdded /\ UNCHANGED templates
  <2>1. CASE InScope(p, own)
    BY <1>2, <1>5, <2>1 DEF registerAsset, InScope
  <2>2. CASE ~ InScope(p, own)
    <3>1. UNCHANGED <<handoff, exporting>> /\ insertAsset(own, prompt) /\ UNCHANGED templates
      BY <1>5, <2>2 DEF registerAsset
    <3>2. UNCHANGED pieceVars
      BY <1>5, <3>1 DEF registerAsset, pieceVars, kitVars
    <3>3. AssetAdded
      BY <3>1 DEF AssetAdded, insertAsset, AssetRow
    <3>4. QED
      BY <3>1, <3>2, <3>3
  <2>3. QED
    BY <2>1, <2>2
<1>6. QED
  BY <1>3, <1>4, <1>5 DEF ImageStep

\* What the images may do.
ImagesMove == AssetAdded \/ HandoffPrepared \/ UNCHANGED <<assets, handoff>>

\* A step of the Studio is a step of the lifecycle, or none.
LEMMA StudioStepIsLifecycle ==
  ASSUME StudioInv, [StudioNext]_allVars
  PROVE  /\ [PieceLifecycleNext]_pieceVars
         /\ ImagesMove
         /\ templates' \in Seq(Docs)
<1>0. templates \in Seq(Docs)
  BY DEF StudioInv
<1>1. CASE \E p \in Pieces : DocumentStep(p)
  BY <1>1, DocumentStepIsLifecycle DEF PieceLifecycleNext, ImagesMove
<1>2. CASE \E p \in Pieces : ImageStep(p)
  BY <1>0, <1>2, ImageStepIsLifecycle DEF PieceLifecycleNext, ImagesMove
<1>3. CASE \E p \in Pieces : LifecycleStep(p)
  BY <1>0, <1>3 DEF LifecycleStep, PieceStep, PieceLifecycleNext, ImagesMove, studioVars
<1>4. CASE \E own \in BOOLEAN, prompt \in Prompts \cup {NoPrompt} : uploadLoose(own, prompt)
  <2>1. PICK own \in BOOLEAN, prompt \in Prompts \cup {NoPrompt} : uploadLoose(own, prompt)
    BY <1>4
  <2>2. AssetAdded
    BY <2>1 DEF uploadLoose, AssetAdded, insertAsset, AssetRow
  <2>3. QED
    BY <1>0, <2>1, <2>2 DEF uploadLoose, ImagesMove
<1>5. CASE /\ \/ \E kit \in Kits : updateKit(kit)
              \/ \E e \in Exports : ExportStep(e)
              \/ processDies
           /\ UNCHANGED studioVars
  BY <1>0, <1>5 DEF PieceLifecycleNext, ImagesMove, studioVars
<1>6. CASE UNCHANGED allVars
  BY <1>0, <1>6 DEF allVars, studioVars, ImagesMove
<1>7. QED
  BY <1>1, <1>2, <1>3, <1>4, <1>5, <1>6 DEF StudioNext

-----------------------------------------------------------------------------
(* Images *)

\* Assets are added and never changed, and a piece names one of its project.
LEMMA ImagesKeep ==
  ASSUME StudioInv, ImagesMove
  PROVE  /\ assets' \in Seq(AssetRow)
         /\ Extends(assets, assets')
         /\ DOMAIN handoff' = Pieces
         /\ \A p \in Pieces : handoff'[p].prompt \in Prompts \cup {NoPrompt}
         /\ AttachedImageIsItsOwn'
<1>0. /\ assets \in Seq(AssetRow) /\ DOMAIN assets = 1 .. Len(assets) /\ Len(assets) \in Nat
      /\ DOMAIN handoff = Pieces
      /\ \A p \in Pieces : handoff[p].prompt \in Prompts \cup {NoPrompt}
      /\ \A p \in Pieces : handoff[p].state = "asset_attached" =>
           /\ handoff[p].asset \in DOMAIN assets /\ assets[handoff[p].asset].own
           /\ assets[handoff[p].asset].prompt \in {NoPrompt, handoff[p].prompt}
  BY LenProperties DEF StudioInv, AttachedImageIsItsOwn, refExists, resolveAssetRef
<1>2. CASE AssetAdded
  <2>1. PICK row \in AssetRow :
          /\ assets' = Append(assets, row)
          /\ \/ handoff' = handoff
             \/ \E p \in Pieces, prompt \in Prompts \cup {NoPrompt} :
                  /\ row.own
                  /\ row.prompt \in {NoPrompt, prompt}
                  /\ setImageState(p, "asset_attached", Len(assets) + 1, prompt)
    BY <1>2 DEF AssetAdded
  <2>2. /\ assets' \in Seq(AssetRow) /\ Extends(assets, assets')
        /\ Len(assets') = Len(assets) + 1 /\ assets'[Len(assets) + 1] = row
    BY <1>0, <2>1, AppendExtends, AppendProperties
  <2>3. DOMAIN assets' = 1 .. Len(assets) + 1
    BY <2>2, LenProperties
  <2>4. ASSUME NEW a, a \in DOMAIN assets
        PROVE  a \in DOMAIN assets' /\ assets'[a] = assets[a]
    BY <1>0, <2>2, <2>3, <2>4 DEF Extends
  <2>5. CASE handoff' = handoff
    BY <1>0, <2>2, <2>4, <2>5 DEF AttachedImageIsItsOwn, refExists, resolveAssetRef
  <2>6. ASSUME NEW p \in Pieces, NEW prompt \in Prompts \cup {NoPrompt}, row.own,
               row.prompt \in {NoPrompt, prompt},
               setImageState(p, "asset_attached", Len(assets) + 1, prompt)
        PROVE  /\ DOMAIN handoff' = Pieces
               /\ \A q \in Pieces : handoff'[q].prompt \in Prompts \cup {NoPrompt}
               /\ AttachedImageIsItsOwn'
    <3>1. /\ handoff'[p].asset = Len(assets) + 1 /\ handoff'[p].prompt = prompt
          /\ DOMAIN handoff' = Pieces
          /\ \A q \in Pieces \ {p} : handoff'[q] = handoff[q]
      BY <1>0, <2>6 DEF setImageState
    <3>2. Len(assets) + 1 \in DOMAIN assets'
      BY <1>0, <2>3
    <3>3. ASSUME NEW q \in Pieces, handoff'[q].state = "asset_attached"
          PROVE  /\ handoff'[q].asset \in DOMAIN assets' /\ assets'[handoff'[q].asset].own
                 /\ assets'[handoff'[q].asset].prompt \in {NoPrompt, handoff'[q].prompt}
      <4>1. CASE q = p
        BY <2>2, <2>6, <3>1, <3>2, <4>1
      <4>2. CASE q # p
        <5>1. handoff'[q] = handoff[q]
          BY <3>1, <4>2
        <5>2. QED
          BY <1>0, <2>4, <3>3, <5>1
      <4>3. QED
        BY <4>1, <4>2
    <3>4. QED
      BY <1>0, <2>6, <3>1, <3>3 DEF AttachedImageIsItsOwn, refExists, resolveAssetRef
  <2>7. QED
    BY <1>0, <2>1, <2>2, <2>5, <2>6
<1>3. CASE HandoffPrepared
  <2>1. PICK p \in Pieces, prompt \in Prompts \cup {NoPrompt} :
          UNCHANGED assets /\ setImageState(p, "prompt_prepared", NoRef, prompt)
    BY <1>3 DEF HandoffPrepared
  <2>2. /\ DOMAIN handoff' = Pieces
        /\ \A q \in Pieces : handoff'[q].prompt \in Prompts \cup {NoPrompt}
        /\ \A q \in Pieces : handoff'[q].state = "asset_attached" => handoff'[q] = handoff[q]
    BY <1>0, <2>1 DEF setImageState
  <2>3. QED
    BY <1>0, <2>1, <2>2, ExtendsRefl DEF AttachedImageIsItsOwn, refExists, resolveAssetRef
<1>4. CASE UNCHANGED <<assets, handoff>>
  BY <1>0, <1>4, ExtendsRefl DEF AttachedImageIsItsOwn, refExists, resolveAssetRef
<1>5. QED
  BY <1>2, <1>3, <1>4 DEF ImagesMove

-----------------------------------------------------------------------------
(* The invariant *)

LEMMA StudioInvInit ==
  ASSUME StudioInit
  PROVE  StudioInv
<1>1. PieceInv
  BY PieceInvInit DEF StudioInit
<1>2. QED
  BY <1>1 DEF StudioInit, StudioInv, AttachedImageIsItsOwn

LEMMA StudioInvStep ==
  ASSUME StudioInv, [StudioNext]_allVars
  PROVE  StudioInv' /\ HistoryGrows /\ Extends(assets, assets')
<1>1. PieceInv' /\ HistoryGrows
  BY StudioStepIsLifecycle, PieceInvStep DEF StudioInv
<1>2. QED
  BY <1>1, StudioStepIsLifecycle, ImagesKeep DEF StudioInv

LEMMA StudioInvariance == StudioSpec => []StudioInv
<1>1. StudioInit => StudioInv
  BY StudioInvInit
<1>2. StudioInv /\ [StudioNext]_allVars => StudioInv'
  BY StudioInvStep
<1>3. QED
  BY <1>1, <1>2, PTL DEF StudioSpec

\* The Studio implements the lifecycle of pieces, kit and exports: what the
\* batches of piece-edits.ts, the templates and the images do to a piece is
\* what piece-lifecycle.ts and pieces.ts let happen to one.
THEOREM StudioDrivesLifecycle == StudioSpec => PieceLifecycleSpec
<1>1. StudioInit => PieceLifecycleInit
  BY DEF StudioInit
<1>2. StudioInv /\ [StudioNext]_allVars => [PieceLifecycleNext]_pieceVars
  BY StudioStepIsLifecycle
<1>3. QED
  BY <1>1, <1>2, StudioInvariance, PTL DEF StudioSpec, PieceLifecycleSpec

\* Hence what is proved of the lifecycle holds of the Studio.
THEOREM StudioStaysSound ==
  StudioSpec => [](ApprovedRenderingIsClean /\ FlagIsExact /\ BundlesAreCleanRenderings)
BY StudioDrivesLifecycle, SignedOffIsClean, FlagsAreExact, BundlesAreClean, PTL

\* The image a piece's hand-over record names is an asset of its project, and
\* when that asset has a prompt it is the one the record holds
\* (assets.ts:225-229).
THEOREM ImagesAreOwn == StudioSpec => []AttachedImageIsItsOwn
<1>1. StudioInv => AttachedImageIsItsOwn
  BY DEF StudioInv
<1>2. QED
  BY <1>1, StudioInvariance, PTL

-----------------------------------------------------------------------------
(* What check_brand lets through is painted from the kit *)

\* A value check_brand has nothing to say about is a token of the kit.
LEMMA CleanLayer ==
  ASSUME NEW doc, NEW kit, ~ approvalBlockers(doc, kit),
         NEW s \in DOMAIN doc.slides, NEW n \in DOMAIN doc.slides[s]
  PROVE  /\ ~ offKit(doc.slides[s][n].color, ColorTokens, kit)
         /\ ~ offKit(doc.slides[s][n].fill, ColorTokens, kit)
         /\ ~ offKit(doc.slides[s][n].font, FontTokens, kit)
<1> DEFINE layer == doc.slides[s][n]
<1>1. checkBrandDoc(doc, kit) = {}
  BY DEF approvalBlockers
<1>2. \A code \in checkLayer(layer, kit) : <<code, s, n>> \in checkBrandDoc(doc, kit)
  BY DEF checkBrandDoc
<1>3. checkLayer(layer, kit) = {}
  BY <1>1, <1>2
<1>4. offKitFindings(layer, kit) = {}
  BY <1>3 DEF checkLayer
<1>5. /\ "color" \in {"fill", "color", "font"} /\ "fill" \in {"fill", "color", "font"}
      /\ "font" \in {"fill", "color", "font"}
  OBVIOUS
<1>6. QED
  BY <1>4, <1>5 DEF offKitFindings

LEMMA KitPaints ==
  ASSUME NEW layer, IsLayer(layer), NEW kit, IsKit(kit),
         ~ offKit(layer.color, ColorTokens, kit),
         ~ offKit(layer.fill, ColorTokens, kit),
         ~ offKit(layer.font, FontTokens, kit),
         NEW resolved
  PROVE  /\ layer.color # Unset => /\ layer.color \in DOMAIN kit
                                   /\ layerView(layer, kit, resolved).color = kit[layer.color]
         /\ layer.fill # Unset => /\ layer.fill \in DOMAIN kit
                                  /\ layerView(layer, kit, resolved).color = kit[layer.fill]
         /\ layer.font # Unset => /\ layer.font \in DOMAIN kit
                                  /\ layerView(layer, kit, resolved).font = kit[layer.font]
<1>1. ASSUME layer.color # Unset
      PROVE  /\ layer.color \in DOMAIN kit
             /\ layerView(layer, kit, resolved).color = kit[layer.color]
  <2>1. layer.type = "text" /\ layer.color \in DOMAIN kit \cap ColorTokens
    BY <1>1 DEF IsLayer, offKit
  <2>2. resolveColor(layer.color, kit) = kit[layer.color]
    BY <2>1, SlideLayoutAssumption DEF resolveColor
  <2>3. QED
    BY <1>1, <2>1, <2>2 DEF layerView
<1>2. ASSUME layer.fill # Unset
      PROVE  /\ layer.fill \in DOMAIN kit
             /\ layerView(layer, kit, resolved).color = kit[layer.fill]
  <2>1. layer.type = "shape" /\ layer.fill \in DOMAIN kit \cap ColorTokens
    BY <1>2 DEF IsLayer, offKit
  <2>2. resolveColor(layer.fill, kit) = kit[layer.fill]
    BY <2>1, SlideLayoutAssumption DEF resolveColor
  <2>3. QED
    BY <2>1, <2>2 DEF layerView
<1>3. ASSUME layer.font # Unset
      PROVE  /\ layer.font \in DOMAIN kit
             /\ layerView(layer, kit, resolved).font = kit[layer.font]
  <2>1. layer.type = "text" /\ layer.font \in DOMAIN kit \cap FontTokens
    BY <1>3 DEF IsLayer, offKit
  <2>2. resolveFont(layer.font, defaultFontToken(layer.role), kit) = kit[layer.font]
    BY <1>3, <2>1, SlideLayoutAssumption DEF resolveFont
  <2>3. QED
    BY <2>1, <2>2 DEF layerView
<1>4. QED
  BY <1>1, <1>2, <1>3

LEMMA StudioPaints ==
  ASSUME StudioInv
  PROVE  ApprovedPaintsFromKit
<1> USE StudioAssumption
<1>1. SUFFICES ASSUME NEW p \in Pieces, status(p) \in PINNED_STATUSES,
                      NEW s \in DOMAIN slidesOf(p), NEW n \in DOMAIN slidesOf(p)[s]
               PROVE  LET kit == kits[pieces[p].pin]
                          Value(name) == {kit[t] : t \in DOMAIN kit \cap {name}}
                          layer == slidesOf(p)[s][n]
                          view == layerView(layer, kit, resolveAssetRef)
                      IN /\ layer.color # Unset => view.color \in Value(layer.color)
                         /\ layer.fill # Unset => view.color \in Value(layer.fill)
                         /\ layer.font # Unset => view.font \in Value(layer.font)
  BY DEF ApprovedPaintsFromKit
<1> DEFINE kit == kits[pieces[p].pin]
           doc == Last(pieces[p].versions)
           layer == slidesOf(p)[s][n]
<1>2. pieces[p].pin \in 1 .. Len(kits) /\ <<doc, kit>> \notin Blocked
  BY <1>1, PieceInvGives DEF StudioInv, ApprovedRenderingIsClean, kitVersion
<1>3. kit \in Kits
  BY <1>2, InvTypes, ElementOfSeq
<1>4. doc \in Docs
  BY <1>1, InvTypes DEF PINNED_STATUSES
<1>5. ~ approvalBlockers(doc, kit)
  <2>1. <<doc, kit>> \in Docs \X Kits
    BY <1>3, <1>4
  <2>2. <<doc, kit>>[1] = doc /\ <<doc, kit>>[2] = kit
    OBVIOUS
  <2> HIDE DEF doc, kit
  <2>3. QED
    BY <1>2, <2>1, <2>2
<1>6. layer = doc.slides[s][n] /\ s \in DOMAIN doc.slides /\ n \in DOMAIN doc.slides[s]
  BY <1>1 DEF slidesOf
<1>7. IsLayer(layer) /\ IsKit(kit)
  BY <1>3, <1>4, <1>6
<1> HIDE DEF doc, kit, layer
<1>8. /\ ~ offKit(layer.color, ColorTokens, kit)
      /\ ~ offKit(layer.fill, ColorTokens, kit)
      /\ ~ offKit(layer.font, FontTokens, kit)
  BY <1>5, <1>6, CleanLayer
<1>9. /\ layer.color # Unset => /\ layer.color \in DOMAIN kit
                                /\ layerView(layer, kit, resolveAssetRef).color = kit[layer.color]
      /\ layer.fill # Unset => /\ layer.fill \in DOMAIN kit
                               /\ layerView(layer, kit, resolveAssetRef).color = kit[layer.fill]
      /\ layer.font # Unset => /\ layer.font \in DOMAIN kit
                               /\ layerView(layer, kit, resolveAssetRef).font = kit[layer.font]
  BY <1>7, <1>8, KitPaints
<1>10. QED
  BY <1>9 DEF kit, layer

\* Signed-off work is painted from the kit it is pinned to, never as a fallback
\* or as a raw value: check_brand and the renderer agree (checks.ts:93-94).
THEOREM PaintedFromTheKit == StudioSpec => []ApprovedPaintsFromKit
BY StudioPaints, StudioInvariance, PTL

-----------------------------------------------------------------------------
(* What was signed off keeps its rendering *)

LEMMA SlidesStay ==
  ASSUME StudioInv, HistoryGrows, NEW p \in Pieces,
         status(p) \in PINNED_STATUSES, (status(p) \in PINNED_STATUSES)', StudioInv',
         Signed(p)' = Signed(p)
  PROVE  /\ slidesOf(p)' = slidesOf(p)
         /\ pieces'[p].pin = pieces[p].pin
         /\ kits'[pieces[p].pin] = kits[pieces[p].pin]
<1>1. docVersion(p)' = docVersion(p) /\ pieces'[p].pin = pieces[p].pin
  BY DEF Signed
<1>2. /\ Last(pieces[p].versions) = pieces[p].versions[docVersion(p)]
      /\ docVersion(p) \in 1 .. Len(pieces[p].versions)
  BY InvTypes DEF docVersion, PINNED_STATUSES
<1>3. Last(pieces'[p].versions) = pieces'[p].versions[docVersion(p)']
  <2>1. pieces'[p].versions \in Seq(Docs) /\ pieces'[p].versions # <<>>
    <3>1. RowOK(pieces[p])' /\ pieces'[p] \in PieceRow
      BY DEF StudioInv, PieceInv, PieceLifecycleTypeOK
    <3>2. pieces'[p].status # "absent"
      BY DEF status, PINNED_STATUSES
    <3>3. QED
      BY <3>1, <3>2 DEF RowOK, PieceRow
  <2>2. QED
    BY <2>1, LastOf DEF docVersion
<1>4. Last(pieces'[p].versions) = Last(pieces[p].versions)
  BY <1>1, <1>2, <1>3 DEF HistoryGrows, Extends
<1>5. pieces[p].pin \in 1 .. Len(kits)
  BY PieceInvGives DEF StudioInv, ApprovedRenderingIsClean, kitVersion
<1>6. kits'[pieces[p].pin] = kits[pieces[p].pin]
  BY <1>5 DEF HistoryGrows, Extends
<1>7. QED
  BY <1>1, <1>4, <1>6 DEF slidesOf

LEMMA RenderingStays ==
  ASSUME StudioInv, [StudioNext]_allVars, NEW p \in Pieces,
         status(p) \in PINNED_STATUSES, (status(p) \in PINNED_STATUSES)',
         Signed(p)' = Signed(p), ImagesResolve(p)
  PROVE  Rendering(p)' = Rendering(p)
<1>1. StudioInv' /\ HistoryGrows /\ Extends(assets, assets')
  BY StudioInvStep
<1>2. /\ slidesOf(p)' = slidesOf(p)
      /\ pieces'[p].pin = pieces[p].pin
      /\ kits'[pieces[p].pin] = kits[pieces[p].pin]
  BY <1>1, SlidesStay
<1>3. /\ assets \in Seq(AssetRow) /\ assets' \in Seq(AssetRow)
      /\ DOMAIN assets = 1 .. Len(assets) /\ DOMAIN assets' = 1 .. Len(assets')
      /\ Len(assets) \in Nat /\ Len(assets') \in Nat
  BY <1>1, LenProperties DEF StudioInv
<1>4. resolveAssetRef \subseteq resolveAssetRef'
  <2>1. \A a \in DOMAIN assets : a \in DOMAIN assets' /\ assets'[a] = assets[a]
    BY <1>1, <1>3 DEF Extends
  <2>2. QED
    BY <2>1 DEF resolveAssetRef
<1>5. NoRef \notin resolveAssetRef'
  BY <1>3 DEF NoRef, resolveAssetRef
<1>6. ASSUME NEW s \in DOMAIN slidesOf(p), NEW n \in DOMAIN slidesOf(p)[s]
      PROVE  layerView(slidesOf(p)[s][n], kits[pieces[p].pin], resolveAssetRef')
               = layerView(slidesOf(p)[s][n], kits[pieces[p].pin], resolveAssetRef)
  <2> DEFINE ref == slidesOf(p)[s][n].ref
  <2>1. ref = NoRef \/ ref \in resolveAssetRef
    BY DEF ImagesResolve, refExists
  <2>2. ref \in resolveAssetRef' <=> ref \in resolveAssetRef
    BY <1>4, <1>5, <2>1
  <2>3. QED
    BY <2>2 DEF layerView
<1>7. ASSUME NEW s \in DOMAIN slidesOf(p)
      PROVE  SlideView(slidesOf(p)[s], kits[pieces[p].pin], resolveAssetRef')
               = SlideView(slidesOf(p)[s], kits[pieces[p].pin], resolveAssetRef)
  BY <1>6 DEF SlideView
<1>8. QED
  BY <1>2, <1>7 DEF Rendering

\* "The artifact that leaves is the one that was approved"
\* (piece-lifecycle.ts:16-17), for any documents, kits and assets.
THEOREM RenderingsStand == StudioSpec => ApprovedRenderingStands
<1>1. StudioInv /\ [StudioNext]_allVars
        => [\A p \in Pieces :
              (/\ status(p) \in PINNED_STATUSES /\ status(p)' \in PINNED_STATUSES
               /\ Signed(p)' = Signed(p)
               /\ ImagesResolve(p))
              => Rendering(p)' = Rendering(p)]_allVars
  <2>1. \A p : (status(p) \in PINNED_STATUSES)' <=> status(p)' \in PINNED_STATUSES
    BY DEF PINNED_STATUSES
  <2>2. QED
    BY <2>1, RenderingStays
<1>2. QED
  BY <1>1, StudioInvariance, PTL DEF StudioSpec, ApprovedRenderingStands

-----------------------------------------------------------------------------
(* The overflow estimate adds up what the renderer lays out, each text      *)
(* rounded up to a pixel.  The recursion of Total is reasoned about by its  *)
(* least counterexample: the running totals exist for each number of terms, *)
(* and one that grew otherwise than the terms say would have a first place  *)
(* where it does.                                                           *)

LEMMA LeastOf ==
  ASSUME NEW T \in SUBSET Nat, T # {}
  PROVE  \E m \in T : \A n \in T : m <= n
<1>1. PICK m \in T : \A n \in T : <<n, m>> \notin OpToRel(<, Nat)
  BY NatLessThanWellFounded, WFMin
<1>2. ASSUME NEW n \in T PROVE m <= n
  <2>1. <<n, m>> \in Nat \X Nat /\ ~ (n < m)
    BY <1>1 DEF OpToRel
  <2>2. QED
    BY <2>1
<1>3. QED
  BY <1>2

\* The running totals of the first n terms.
Totals(total, terms, n) ==
  total = [k \in 0 .. n |-> IF k = 0 THEN 0 ELSE total[k - 1] + terms[k]]

LEMMA TotalsOfEach ==
  ASSUME NEW terms, NEW n \in Nat
  PROVE  \E total : Totals(total, terms, n)
<1> DEFINE T == {k \in Nat : ~ \E total : Totals(total, terms, k)}
<1>1. SUFFICES ASSUME T # {} PROVE FALSE
  OBVIOUS
<1>2. PICK m \in T : \A k \in T : m <= k
  BY <1>1, LeastOf
<1>3. CASE m = 0
  <2>1. Totals([k \in 0 .. 0 |-> 0], terms, 0)
    BY DEF Totals
  <2>2. QED
    BY <1>2, <1>3, <2>1
<1>4. CASE m # 0
  <2>1. m - 1 \in Nat /\ m - 1 \notin T
    BY <1>2, <1>4
  <2>2. PICK total : Totals(total, terms, m - 1)
    BY <2>1
  <2> DEFINE longer == [k \in 0 .. m |-> IF k = m THEN total[m - 1] + terms[m] ELSE total[k]]
  <2>3. ASSUME NEW k \in 0 .. m
        PROVE longer[k] = IF k = 0 THEN 0 ELSE longer[k - 1] + terms[k]
    <3>1. CASE k = m
      <4>1. m - 1 \in 0 .. m /\ m - 1 # m
        BY <1>4
      <4>2. longer[m - 1] = total[m - 1] /\ longer[m] = total[m - 1] + terms[m]
        BY <4>1
      <4>3. QED
        BY <1>4, <3>1, <4>2
    <3>2. CASE k # m
      <4>1. k \in 0 .. m - 1 /\ (k # 0 => k - 1 \in 0 .. m - 1)
        BY <2>1, <3>2
      <4>2. total[k] = IF k = 0 THEN 0 ELSE total[k - 1] + terms[k]
        BY <2>2, <4>1 DEF Totals
      <4>3. longer[k] = total[k] /\ (k # 0 => longer[k - 1] = total[k - 1])
        BY <3>2, <4>1
      <4>4. QED
        BY <4>2, <4>3
    <3>3. QED
      BY <3>1, <3>2
  <2>4. longer = [k \in 0 .. m |-> longer[k]]
    OBVIOUS
  <2> HIDE DEF longer
  <2>5. Totals(longer, terms, m)
    BY <2>3, <2>4 DEF Totals
  <2>6. QED
    BY <1>2, <2>5
<1>5. QED
  BY <1>3, <1>4

\* Total adds up: the running totals grow by a term, and are integers.
LEMMA TotalAddsUp ==
  ASSUME NEW terms \in Seq(Int)
  PROVE  \E total \in [0 .. Len(terms) -> Int] :
           /\ total[0] = 0
           /\ \A k \in 1 .. Len(terms) : total[k] = total[k - 1] + terms[k]
           /\ Total(terms) = total[Len(terms)]
<1>1. Len(terms) \in Nat /\ \A k \in 1 .. Len(terms) : terms[k] \in Int
  OBVIOUS
<1> DEFINE total == CHOOSE f : Totals(f, terms, Len(terms))
           T == {k \in 0 .. Len(terms) : total[k] \notin Int}
<1>2. Totals(total, terms, Len(terms))
  BY <1>1, TotalsOfEach
<1>3. Total(terms) = total[Len(terms)]
  BY DEF Total, Totals
<1> HIDE DEF total
<1>4. /\ total[0] = 0
      /\ \A k \in 1 .. Len(terms) : total[k] = total[k - 1] + terms[k]
      /\ DOMAIN total = 0 .. Len(terms)
      /\ total = [k \in 0 .. Len(terms) |-> total[k]]
  BY <1>1, <1>2 DEF Totals
<1>5. T = {}
  <2>1. SUFFICES ASSUME T # {} PROVE FALSE
    OBVIOUS
  <2>2. PICK m \in T : \A k \in T : m <= k
    <3>1. T \in SUBSET Nat
      OBVIOUS
    <3> HIDE DEF T
    <3>2. QED
      BY <2>1, <3>1, LeastOf
  <2>3. m # 0 /\ m \in 0 .. Len(terms)
    BY <1>4, <2>2
  <2>4. m - 1 \in 0 .. Len(terms) /\ m - 1 \notin T
    BY <2>2, <2>3
  <2>5. /\ total[m - 1] \in Int /\ terms[m] \in Int
        /\ total[m] = total[m - 1] + terms[m]
    <3>1. m \in 1 .. Len(terms)
      BY <1>1, <2>3
    <3>2. QED
      BY <1>1, <1>4, <2>4, <3>1
  <2>6. total[m] \in Int
    BY <2>5
  <2>7. QED
    BY <2>2, <2>6
<1>6. QED
  BY <1>3, <1>4, <1>5

\* Larger terms, a larger total.
LEMMA TotalsCompare ==
  ASSUME NEW low \in Seq(Int), NEW high \in Seq(Int), Len(low) = Len(high),
         \A n \in DOMAIN low : low[n] <= high[n]
  PROVE  Total(low) \in Int /\ Total(high) \in Int /\ Total(low) <= Total(high)
<1> DEFINE N == Len(low)
<1>1. PICK less \in [0 .. N -> Int] :
        /\ less[0] = 0
        /\ \A k \in 1 .. N : less[k] = less[k - 1] + low[k]
        /\ Total(low) = less[N]
  BY TotalAddsUp
<1>2. PICK more \in [0 .. N -> Int] :
        /\ more[0] = 0
        /\ \A k \in 1 .. N : more[k] = more[k - 1] + high[k]
        /\ Total(high) = more[N]
  BY TotalAddsUp
<1>3. N \in Nat /\ \A k \in 1 .. N : low[k] \in Int /\ high[k] \in Int /\ low[k] <= high[k]
  OBVIOUS
<1> DEFINE T == {k \in 0 .. N : ~ (less[k] <= more[k])}
<1> HIDE DEF N
<1>4. T = {}
  <2>1. SUFFICES ASSUME T # {} PROVE FALSE
    OBVIOUS
  <2>2. PICK m \in T : \A k \in T : m <= k
    <3>1. T \in SUBSET Nat
      OBVIOUS
    <3> HIDE DEF T
    <3>2. QED
      BY <2>1, <3>1, LeastOf
  <2>3. m # 0
    BY <1>1, <1>2, <2>2
  <2>4. m \in 1 .. N /\ m - 1 \in 0 .. N /\ m - 1 \notin T
    BY <1>3, <2>2, <2>3
  <2>5. /\ less[m] = less[m - 1] + low[m] /\ more[m] = more[m - 1] + high[m]
        /\ less[m - 1] \in Int /\ more[m - 1] \in Int /\ less[m - 1] <= more[m - 1]
        /\ low[m] \in Int /\ high[m] \in Int /\ low[m] <= high[m]
    BY <1>1, <1>2, <1>3, <2>4
  <2>6. less[m] <= more[m]
    BY <2>5
  <2>7. QED
    BY <2>2, <2>6
<1>5. N \in 0 .. N
  BY <1>3
<1>6. less[N] \in Int /\ more[N] \in Int /\ less[N] <= more[N]
  BY <1>1, <1>2, <1>4, <1>5
<1>7. QED
  BY <1>1, <1>2, <1>6

\* A total in quarters.
LEMMA TotalInQuarters ==
  ASSUME NEW terms \in Seq(Int), NEW fours \in Seq(Int), Len(fours) = Len(terms),
         \A n \in DOMAIN terms : fours[n] = 4 * terms[n]
  PROVE  Total(fours) = 4 * Total(terms)
<1> DEFINE N == Len(terms)
<1>1. PICK one \in [0 .. N -> Int] :
        /\ one[0] = 0
        /\ \A k \in 1 .. N : one[k] = one[k - 1] + terms[k]
        /\ Total(terms) = one[N]
  BY TotalAddsUp
<1>2. PICK four \in [0 .. N -> Int] :
        /\ four[0] = 0
        /\ \A k \in 1 .. N : four[k] = four[k - 1] + fours[k]
        /\ Total(fours) = four[N]
  BY TotalAddsUp
<1>3. N \in Nat /\ \A k \in 1 .. N : terms[k] \in Int /\ fours[k] = 4 * terms[k]
  <2>1. DOMAIN terms = 1 .. N /\ N \in Nat
    OBVIOUS
  <2>2. \A k \in DOMAIN terms : terms[k] \in Int
    OBVIOUS
  <2>3. QED
    BY <2>1, <2>2
<1> DEFINE T == {k \in 0 .. N : four[k] # 4 * one[k]}
<1> HIDE DEF N
<1>4. T = {}
  <2>1. SUFFICES ASSUME T # {} PROVE FALSE
    OBVIOUS
  <2>2. PICK m \in T : \A k \in T : m <= k
    <3>1. T \in SUBSET Nat
      OBVIOUS
    <3> HIDE DEF T
    <3>2. QED
      BY <2>1, <3>1, LeastOf
  <2>3. m # 0
    BY <1>1, <1>2, <2>2
  <2>4. m \in 1 .. N /\ m - 1 \in 0 .. N /\ m - 1 \notin T
    BY <1>3, <2>2, <2>3
  <2>5. /\ one[m] = one[m - 1] + terms[m] /\ four[m] = four[m - 1] + 4 * terms[m]
        /\ one[m - 1] \in Int /\ four[m - 1] = 4 * one[m - 1] /\ terms[m] \in Int
    BY <1>1, <1>2, <1>3, <2>4
  <2>6. four[m] = 4 * one[m]
    BY <2>5
  <2>7. QED
    BY <2>2, <2>6
<1>5. N \in 0 .. N
  BY <1>3
<1>6. four[N] = 4 * one[N]
  BY <1>4, <1>5
<1>7. QED
  BY <1>1, <1>2, <1>6

\* A term of gap more for each index of a set adds up to as many gaps.
LEMMA GapsAddUp ==
  ASSUME NEW heights \in Seq(Int), NEW gap \in Int, NEW stacked \in SUBSET DOMAIN heights,
         NEW padded \in Seq(Int), Len(padded) = Len(heights),
         \A n \in DOMAIN heights :
           padded[n] = IF n \in stacked THEN gap + heights[n] ELSE heights[n]
  PROVE  /\ IsFiniteSet(stacked)
         /\ Total(heights) \in Int /\ Total(padded) \in Int
         /\ Total(padded) = Total(heights) + Cardinality(stacked) * gap
<1> DEFINE N == Len(heights)
           Upto(k) == stacked \cap (1 .. k)
<1>1. PICK bare \in [0 .. N -> Int] :
        /\ bare[0] = 0
        /\ \A k \in 1 .. N : bare[k] = bare[k - 1] + heights[k]
        /\ Total(heights) = bare[N]
  BY TotalAddsUp
<1>2. PICK full \in [0 .. N -> Int] :
        /\ full[0] = 0
        /\ \A k \in 1 .. N : full[k] = full[k - 1] + padded[k]
        /\ Total(padded) = full[N]
  BY TotalAddsUp
<1>3. N \in Nat /\ DOMAIN heights = 1 .. N /\ \A k \in 1 .. N : heights[k] \in Int
  OBVIOUS
<1>4. \A k \in 0 .. N : IsFiniteSet(Upto(k)) /\ Cardinality(Upto(k)) \in Nat
  <2>1. \A k \in 0 .. N : IsFiniteSet(1 .. k)
    BY <1>3, FS_Interval
  <2>2. \A k \in 0 .. N : IsFiniteSet(Upto(k))
    BY <2>1, FS_Subset
  <2>3. QED
    BY <2>2, FS_CardinalityType
<1>5. Upto(0) = {} /\ Cardinality(Upto(0)) = 0
  BY <1>3, FS_EmptySet
<1>6. ASSUME NEW k \in 1 .. N
      PROVE  Cardinality(Upto(k)) = Cardinality(Upto(k - 1)) + (IF k \in stacked THEN 1 ELSE 0)
  <2>1. k - 1 \in 0 .. N
    BY <1>3
  <2>2. CASE k \in stacked
    <3>1. Upto(k) = Upto(k - 1) \cup {k} /\ k \notin Upto(k - 1)
      BY <1>3, <2>2
    <3>2. Cardinality(Upto(k)) = Cardinality(Upto(k - 1)) + 1
      BY <1>4, <2>1, <3>1, FS_AddElement
    <3>3. QED
      BY <2>2, <3>2
  <2>3. CASE k \notin stacked
    <3>1. Upto(k) = Upto(k - 1)
      BY <1>3, <2>3
    <3>2. Cardinality(Upto(k - 1)) \in Nat
      BY <1>4, <2>1
    <3> HIDE DEF Upto
    <3>3. QED
      BY <2>3, <3>1, <3>2
  <2>4. QED
    BY <2>2, <2>3
<1>7. Upto(N) = stacked
  BY <1>3
<1> DEFINE T == {k \in 0 .. N : full[k] # bare[k] + Cardinality(Upto(k)) * gap}
<1> HIDE DEF N, Upto
<1>8. T = {}
  <2>1. SUFFICES ASSUME T # {} PROVE FALSE
    OBVIOUS
  <2>2. PICK m \in T : \A k \in T : m <= k
    <3>1. T \in SUBSET Nat
      OBVIOUS
    <3> HIDE DEF T
    <3>2. QED
      BY <2>1, <3>1, LeastOf
  <2>3. m # 0
    BY <1>1, <1>2, <1>5, <2>2
  <2>4. m \in 1 .. N /\ m - 1 \in 0 .. N /\ m - 1 \notin T
    BY <1>3, <2>2, <2>3
  <2> DEFINE c == Cardinality(Upto(m - 1))
  <2>5. c \in Nat /\ full[m - 1] = bare[m - 1] + c * gap
    BY <1>4, <2>4
  <2>6. /\ full[m] = full[m - 1] + padded[m]
        /\ bare[m] = bare[m - 1] + heights[m]
        /\ full[m - 1] \in Int /\ bare[m - 1] \in Int /\ heights[m] \in Int
        /\ padded[m] = IF m \in stacked THEN gap + heights[m] ELSE heights[m]
    BY <1>1, <1>2, <1>3, <2>4
  <2>7. Cardinality(Upto(m)) = c + (IF m \in stacked THEN 1 ELSE 0)
    BY <1>6, <2>4
  <2>8. c * gap \in Int /\ (c + 1) * gap = c * gap + gap /\ c + 0 = c
    BY <2>5
  <2> HIDE DEF c
  <2>9. full[m] = bare[m] + Cardinality(Upto(m)) * gap
    <3>1. CASE m \in stacked
      <4>1. Cardinality(Upto(m)) * gap = c * gap + gap
        BY <2>7, <2>8, <3>1
      <4> DEFINE cg == c * gap
                 gaps == Cardinality(Upto(m)) * gap
      <4>2. cg \in Int /\ gaps = cg + gap /\ full[m - 1] = bare[m - 1] + cg
        BY <2>5, <2>8, <4>1
      <4> HIDE DEF cg, gaps, T
      <4>3. full[m] = bare[m] + gaps
        BY <2>6, <3>1, <4>2
      <4>4. QED
        BY <4>3 DEF gaps
    <3>2. CASE m \notin stacked
      <4>1. Cardinality(Upto(m)) = c
        BY <2>7, <2>8, <3>2
      <4>2. QED
        BY <2>5, <2>6, <2>8, <3>2, <4>1
    <3>3. QED
      BY <3>1, <3>2
  <2>10. QED
    BY <2>2, <2>9
<1>9. N \in 0 .. N /\ full[N] = bare[N] + Cardinality(Upto(N)) * gap
  BY <1>3, <1>8
<1>10. QED
  BY <1>1, <1>2, <1>3, <1>4, <1>7, <1>9

\* The dimensions of the canvases, computed.
LEMMA Canvas ==
  ASSUME NEW format \in Formats
  PROVE  /\ FORMAT_DIMENSIONS(format).height \in {1080, 1350, 1920}
         /\ padding(format) \in Int /\ stackGap(format) \in Int
         /\ stackGap(format) > 0 /\ 2 * padding(format) < FORMAT_DIMENSIONS(format).height
         /\ slideContentBox(format).height = FORMAT_DIMENSIONS(format).height - 2 * padding(format)
         /\ slideContentBox(format).width \in Nat
<1> DEFINE d == FORMAT_DIMENSIONS(format)
<1>1. /\ format = "4:5" => d.width = 1080 /\ d.height = 1350
      /\ format = "1:1" => d.width = 1080 /\ d.height = 1080
      /\ format = "9:16" => d.width = 1080 /\ d.height = 1920
      /\ format = "16:9" => d.width = 1920 /\ d.height = 1080
  BY DEF FORMAT_DIMENSIONS
<1>2. format \in {"4:5", "1:1", "9:16", "16:9"}
  BY DEF Formats
<1>3. /\ d.height \in {1080, 1350, 1920} /\ d.width \in {1080, 1920}
  BY <1>1, <1>2
<1> HIDE DEF d
<1>4. /\ padding(format) = (50 * d.height + 500) \div 1000
      /\ stackGap(format) = (20 * d.height + 500) \div 1000
  BY DEF padding, stackGap, Permille, d
<1>5. /\ padding(format) \in 0 .. 100 /\ stackGap(format) \in 1 .. 100
      /\ 2 * padding(format) < d.height
  BY <1>3, <1>4
<1>6. QED
  BY <1>3, <1>5 DEF slideContentBox, d

LEMMA Quotient ==
  ASSUME NEW n \in Int, NEW d \in Int, d > 0
  PROVE  n \div d \in Int /\ (n >= d => n \div d >= 1)
OBVIOUS

LEMMA RoundedUp ==
  ASSUME NEW quarters \in Int
  PROVE  LET pixels == (quarters + 3) \div 4
         IN pixels \in Int /\ quarters <= 4 * pixels /\ 4 * pixels <= quarters + 3
OBVIOUS

\* The estimate of a layer is what it is laid out in, a text rounded up.
LEMMA HeightsAgree ==
  ASSUME NEW layer, IsLayer(layer), NEW format \in Formats
  PROVE  /\ layerHeight(layer, format) \in Int /\ laidOut(layer, format) \in Int
         /\ laidOut(layer, format) <= 4 * layerHeight(layer, format)
         /\ 4 * layerHeight(layer, format)
              <= laidOut(layer, format) + (IF layer.type = "text" THEN 3 ELSE 0)
<1> DEFINE height == FORMAT_DIMENSIONS(format).height
           size == textSize(layer.role, height)
           width == slideContentBox(format).width
           perLine == IF width * 100 < size * 55 THEN 1 ELSE (width * 100) \div (size * 55)
           rows == [n \in DOMAIN layer.text.lines |-> lineRows(layer.text.lines[n], perLine)]
<1>1. height \in {1080, 1350, 1920} /\ width \in Nat
  BY Canvas
<1>2. layer.text.lines \in Seq(Nat) /\ layer.type \in LayerTypes
  BY DEF IsLayer
<1> HIDE DEF height, width
<1>3. size \in Int /\ size > 0
  BY <1>1 DEF textSize, Permille
<1> HIDE DEF size
<1>4. perLine \in Int /\ perLine > 0
  <2>1. CASE width * 100 < size * 55
    BY <2>1
  <2>2. CASE ~ (width * 100 < size * 55)
    <3> DEFINE n == width * 100
               d == size * 55
    <3>1. n \in Int /\ d \in Int /\ d > 0 /\ n >= d /\ perLine = n \div d
      BY <1>1, <1>3, <2>2
    <3> HIDE DEF n, d
    <3>2. n \div d \in Int /\ n \div d >= 1
      BY <3>1, Quotient
    <3>3. QED
      BY <3>1, <3>2
  <2>3. QED
    BY <2>1, <2>2
<1> HIDE DEF perLine
<1>5. \A n \in DOMAIN layer.text.lines : lineRows(layer.text.lines[n], perLine) \in Int
  <2> SUFFICES ASSUME NEW n \in DOMAIN layer.text.lines
               PROVE  lineRows(layer.text.lines[n], perLine) \in Int
    OBVIOUS
  <2>1. layer.text.lines[n] \in Nat
    BY <1>2
  <2>2. layer.text.lines[n] + perLine - 1 \in Int
    BY <1>4, <2>1
  <2>3. (layer.text.lines[n] + perLine - 1) \div perLine \in Int
    BY <1>4, <2>2, Quotient
  <2>4. QED
    BY <2>3 DEF lineRows
<1>6. rows \in Seq(Int)
  <2>1. DOMAIN layer.text.lines = 1 .. Len(layer.text.lines) /\ Len(layer.text.lines) \in Nat
    BY <1>2
  <2>2. QED
    BY <1>5, <2>1, IsASeq
<1>7. Total(rows) \in Int
  <2> HIDE DEF rows
  <2>1. Len(rows) \in Nat
    BY <1>6
  <2>2. QED
    BY <1>6, <2>1, TotalAddsUp
<1>8. CASE layer.type = "text"
  <2> DEFINE total == Total(rows)
             quarters == total * size * 5
  <2>1. wrappedRows(layer, format, width) = total
    BY DEF wrappedRows, rows, perLine, size, height
  <2> HIDE DEF rows, total
  <2>2. laidOut(layer, format) = quarters
    BY <1>8, <2>1 DEF laidOut, TEXT_LINE_HEIGHT, width, size, height
  <2>3. layerHeight(layer, format) = (quarters + 3) \div 4
    BY <1>8, <2>1 DEF layerHeight, textHeight, TEXT_LINE_HEIGHT, width, size, height
  <2>4. quarters \in Int
    BY <1>3, <1>7 DEF total
  <2> HIDE DEF quarters
  <2>5. QED
    BY <1>8, <2>2, <2>3, <2>4, RoundedUp
<1>9. CASE layer.type # "text"
  <2>1. intrinsicLayerHeight(layer, format) \in Int
    BY <1>1 DEF intrinsicLayerHeight, Permille, height
  <2>2. /\ layerHeight(layer, format) = intrinsicLayerHeight(layer, format)
        /\ laidOut(layer, format) = 4 * intrinsicLayerHeight(layer, format)
    BY <1>9 DEF layerHeight, laidOut
  <2>3. QED
    BY <1>9, <2>1, <2>2
<1>10. QED
  BY <1>8, <1>9

LEMMA OverflowIsExact ==
  ASSUME NEW S, NEW slide \in Seq(S), \A n \in DOMAIN slide : IsLayer(slide[n]),
         NEW format \in Formats
  PROVE  LET written == {n \in unframed(slide) : slide[n].type = "text"}
             bottom == 4 * (FORMAT_DIMENSIONS(format).height - padding(format))
         IN /\ columnEnds(slide, format) > bottom
                 => stackedHeight(slide, format) > slideContentBox(format).height
            /\ stackedHeight(slide, format) > slideContentBox(format).height
                 => columnEnds(slide, format) + 3 * Cardinality(written) > bottom
<1> DEFINE U == unframed(slide)
           V == {n \in unframed(slide) : slide[n].type = "text"}
           gap == stackGap(format)
           gaps == 4 * gap
           heights == [n \in DOMAIN slide |-> IF n \in U THEN layerHeight(slide[n], format) ELSE 0]
           fours == [n \in DOMAIN slide |-> 4 * heights[n]]
           laid == [n \in DOMAIN slide |-> IF n \in U THEN laidOut(slide[n], format) ELSE 0]
           padded == [n \in DOMAIN slide |->
                        IF n \in U THEN 4 * stackGap(format) + laidOut(slide[n], format) ELSE 0]
           rounded == [n \in DOMAIN slide |-> IF n \in V THEN 3 + laid[n] ELSE laid[n]]
<1>1. \A n \in DOMAIN slide :
        /\ layerHeight(slide[n], format) \in Int /\ laidOut(slide[n], format) \in Int
        /\ laidOut(slide[n], format) <= 4 * layerHeight(slide[n], format)
        /\ 4 * layerHeight(slide[n], format)
             <= laidOut(slide[n], format) + (IF slide[n].type = "text" THEN 3 ELSE 0)
  BY HeightsAgree
<1>2. /\ DOMAIN slide = 1 .. Len(slide) /\ Len(slide) \in Nat /\ U \subseteq DOMAIN slide
      /\ V \subseteq U /\ \A n \in U : n \in V <=> slide[n].type = "text"
  BY DEF unframed
<1>3. gap \in Int /\ gap > 0 /\ gaps \in Int
  BY Canvas
<1> HIDE DEF U, V
<1>4. \A n \in DOMAIN slide :
        /\ heights[n] \in Int /\ fours[n] \in Int /\ laid[n] \in Int
        /\ padded[n] \in Int /\ rounded[n] \in Int
        /\ fours[n] = 4 * heights[n]
        /\ laid[n] <= fours[n] /\ fours[n] <= rounded[n]
        /\ padded[n] = IF n \in U THEN gaps + laid[n] ELSE laid[n]
  <2> SUFFICES ASSUME NEW n \in DOMAIN slide
               PROVE  /\ heights[n] \in Int /\ fours[n] \in Int /\ laid[n] \in Int
                      /\ padded[n] \in Int /\ rounded[n] \in Int
                      /\ fours[n] = 4 * heights[n]
                      /\ laid[n] <= fours[n] /\ fours[n] <= rounded[n]
                      /\ padded[n] = IF n \in U THEN gaps + laid[n] ELSE laid[n]
    OBVIOUS
  <2>1. CASE n \in U
    BY <1>1, <1>2, <1>3, <2>1
  <2>2. CASE n \notin U
    BY <1>2, <1>3, <2>2
  <2>3. QED
    BY <2>1, <2>2
<1>5. /\ heights \in Seq(Int) /\ fours \in Seq(Int) /\ laid \in Seq(Int)
      /\ padded \in Seq(Int) /\ rounded \in Seq(Int)
  <2> HIDE DEF gaps
  <2>1. heights \in Seq(Int) /\ fours \in Seq(Int)
    BY <1>2, <1>4, IsASeq
  <2>2. laid \in Seq(Int) /\ padded \in Seq(Int) /\ rounded \in Seq(Int)
    BY <1>2, <1>4, IsASeq
  <2>3. QED
    BY <2>1, <2>2
<1>6. /\ DOMAIN heights = DOMAIN slide /\ DOMAIN laid = DOMAIN slide /\ DOMAIN fours = DOMAIN slide
      /\ Len(heights) = Len(slide) /\ Len(fours) = Len(slide) /\ Len(laid) = Len(slide)
      /\ Len(padded) = Len(slide) /\ Len(rounded) = Len(slide)
  BY <1>2, <1>5
<1>7. \A n \in DOMAIN slide : rounded[n] = IF n \in V THEN 3 + laid[n] ELSE laid[n]
  OBVIOUS
<1>8. U = {} => fours = heights /\ padded = heights
  BY <1>4
<1>9. /\ stackedHeight(slide, format)
           = Total(heights) + (IF U # {} THEN Cardinality(U) - 1 ELSE 0) * gap
      /\ columnEnds(slide, format) = 4 * (padding(format) - gap) + Total(padded)
  BY DEF stackedHeight, stackedLayers, columnEnds, U
<1> HIDE DEF heights, fours, laid, padded, rounded, gap, gaps
<1>10. /\ Total(fours) = 4 * Total(heights)
       /\ Total(laid) <= Total(fours) /\ Total(fours) <= Total(rounded)
       /\ Total(heights) \in Int
  <2>1. Total(fours) = 4 * Total(heights)
    BY <1>4, <1>5, <1>6, TotalInQuarters
  <2>2. Total(laid) <= Total(fours)
    BY <1>4, <1>5, <1>6, TotalsCompare
  <2>3. Total(fours) <= Total(rounded)
    BY <1>4, <1>5, <1>6, TotalsCompare
  <2>4. Total(heights) \in Int
    <3>1. \A n \in DOMAIN heights : heights[n] <= heights[n]
      BY <1>4, <1>6
    <3>2. QED
      BY <1>5, <3>1, TotalsCompare
  <2>5. QED
    BY <2>1, <2>2, <2>3, <2>4
<1>11. /\ IsFiniteSet(U) /\ Total(laid) \in Int
       /\ Total(padded) = Total(laid) + Cardinality(U) * gaps
  <2>1. U \in SUBSET DOMAIN laid /\ Len(padded) = Len(laid)
    BY <1>2, <1>6
  <2>2. \A n \in DOMAIN laid : padded[n] = IF n \in U THEN gaps + laid[n] ELSE laid[n]
    BY <1>4, <1>6
  <2>3. laid \in Seq(Int) /\ padded \in Seq(Int) /\ gaps \in Int
    BY <1>3, <1>5
  <2>4. QED
    BY <2>1, <2>2, <2>3, GapsAddUp
<1>12. IsFiniteSet(V) /\ Total(rounded) = Total(laid) + Cardinality(V) * 3
  <2>1. V \in SUBSET DOMAIN laid /\ Len(rounded) = Len(laid)
    BY <1>2, <1>6
  <2>2. \A n \in DOMAIN laid : rounded[n] = IF n \in V THEN 3 + laid[n] ELSE laid[n]
    BY <1>6, <1>7
  <2>3. laid \in Seq(Int) /\ rounded \in Seq(Int) /\ 3 \in Int
    BY <1>5
  <2>4. QED
    BY <2>1, <2>2, <2>3, GapsAddUp
<1>13. /\ Cardinality(U) \in Nat /\ (U = {} <=> Cardinality(U) = 0)
       /\ Cardinality(V) \in Nat
  BY <1>11, <1>12, FS_CardinalityType, FS_EmptySet
<1> DEFINE c == Cardinality(U)
           v == Cardinality(V)
           p == padding(format)
           h == FORMAT_DIMENSIONS(format).height
           t == Total(heights)
           l == Total(laid)
           g == c * gap
<1>14. /\ p \in Int /\ h \in Int /\ t \in Int /\ l \in Int /\ g \in Int /\ v \in Nat
       /\ gap \in Int /\ gap > 0 /\ 2 * p < h
       /\ slideContentBox(format).height = h - 2 * p
  <2>1. p \in Int /\ h \in Int /\ gap \in Int /\ gap > 0 /\ 2 * p < h
        /\ slideContentBox(format).height = h - 2 * p
    BY Canvas DEF gap
  <2>2. t \in Int /\ l \in Int /\ v \in Nat /\ c \in Nat
    BY <1>10, <1>11, <1>13
  <2> HIDE DEF c, v, p, h, t, l
  <2>3. g \in Int
    BY <2>1, <2>2
  <2>4. QED
    BY <2>1, <2>2, <2>3
<1>15. l <= 4 * t /\ 4 * t <= l + 3 * v
  BY <1>10, <1>12, <1>14
<1>16. Total(padded) = l + 4 * g
  <2>1. c * gaps = 4 * g
    BY <1>3, <1>13 DEF gaps
  <2>2. QED
    BY <1>11, <2>1
<1>17. CASE U = {}
  <2>1. t = 0 /\ Total(padded) = 0
    <3>1. t = 4 * t
      BY <1>8, <1>10, <1>17
    <3>2. t = 0
      BY <1>14, <3>1
    <3>3. QED
      BY <1>8, <1>17, <3>2
  <2>2. stackedHeight(slide, format) = 0
    <3>1. stackedHeight(slide, format) = t + 0 * gap
      BY <1>9, <1>17
    <3>2. QED
      BY <1>14, <2>1, <3>1
  <2>3. columnEnds(slide, format) = 4 * (p - gap)
    BY <1>9, <1>14, <2>1
  <2> HIDE DEF c, v, g, p, h, t, l
  <2>4. ~ (0 > h - 2 * p) /\ ~ (4 * (p - gap) > 4 * (h - p))
    BY <1>14
  <2>5. QED
    BY <1>14, <2>2, <2>3, <2>4 DEF p, h
<1>18. CASE U # {}
  <2>1. (c - 1) * gap = g - gap
    BY <1>3, <1>13
  <2>2. /\ stackedHeight(slide, format) = t + (g - gap)
        /\ columnEnds(slide, format) = 4 * (p - gap) + (l + 4 * g)
    BY <1>9, <1>16, <1>18, <2>1
  <2> HIDE DEF c, v, g, p, h, t, l
  <2>3. /\ 4 * (p - gap) + (l + 4 * g) > 4 * (h - p) => t + (g - gap) > h - 2 * p
        /\ t + (g - gap) > h - 2 * p
             => 4 * (p - gap) + (l + 4 * g) + 3 * v > 4 * (h - p)
    BY <1>14, <1>15
  <2>4. QED
    BY <1>14, <2>2, <2>3 DEF p, h, v, V
<1>19. QED
  BY <1>17, <1>18

\* check_brand warns of every slide whose stack runs into the bottom padding,
\* and of no other but for the rounding of its texts (piece-slide.tsx:132), in
\* every format and for any number of layers and lines.
THEOREM OverflowsAreReported == StudioSpec => []OverflowIsReported
<1>1. StudioInv => OverflowIsReported
  <2> SUFFICES ASSUME StudioInv, NEW p \in Pieces, status(p) # "absent",
                      NEW s \in DOMAIN Last(pieces[p].versions).slides
               PROVE  LET doc == Last(pieces[p].versions)
                          bottom == 4 * (FORMAT_DIMENSIONS(doc.format).height - padding(doc.format))
                          Warned(t) == <<"overflow", t, 0>> \in brandWarnings(doc, resolveAssetRef)
                          Texts(slide) == {n \in unframed(slide) : slide[n].type = "text"}
                          ends == columnEnds(doc.slides[s], doc.format)
                      IN /\ ends > bottom => Warned(s)
                         /\ Warned(s) => ends + 3 * Cardinality(Texts(doc.slides[s])) > bottom
    BY DEF OverflowIsReported
  <2> DEFINE doc == Last(pieces[p].versions)
             slide == doc.slides[s]
  <2>1. doc \in Docs
    BY InvTypes
  <2> HIDE DEF doc
  <2>2. /\ doc.format \in Formats
        /\ slide \in Seq(Range(slide)) /\ \A n \in DOMAIN slide : IsLayer(slide[n])
    BY <2>1, StudioAssumption DEF doc
  <2>3. <<"overflow", s, 0>> \in brandWarnings(doc, resolveAssetRef)
        <=> stackedHeight(slide, doc.format) > slideContentBox(doc.format).height
    <3>1. ASSUME NEW t \in DOMAIN doc.slides, NEW n, NEW k,
                 <<"overflow", s, 0>> = <<"overflow", t, n>> \/ <<"overflow", s, 0>> = <<"unresolved_asset", t, k>>
          PROVE  t = s /\ n = 0
      BY <3>1
    <3>2. <<"overflow", s, 0>> \in brandWarnings(doc, resolveAssetRef)
          <=> 0 \in overflowFindings(slide, doc.format)
      BY <3>1 DEF brandWarnings, doc
    <3>3. 0 \notin DOMAIN slide
      BY <2>2
    <3> HIDE DEF slide
    <3>4. QED
      BY <3>2, <3>3 DEF overflowFindings
  <2>4. LET written == {n \in unframed(slide) : slide[n].type = "text"}
            bottom == 4 * (FORMAT_DIMENSIONS(doc.format).height - padding(doc.format))
        IN /\ columnEnds(slide, doc.format) > bottom
                => stackedHeight(slide, doc.format) > slideContentBox(doc.format).height
           /\ stackedHeight(slide, doc.format) > slideContentBox(doc.format).height
                => columnEnds(slide, doc.format) + 3 * Cardinality(written) > bottom
    BY <2>2, OverflowIsExact
  <2>5. QED
    BY <2>3, <2>4 DEF doc
<1>2. QED
  BY <1>1, StudioInvariance, PTL
=============================================================================
