--------------------------- MODULE PieceLifecycle ---------------------------
(***************************************************************************)
(* Creative Pieces of one project: their documents and versions            *)
(* (server/pieces.ts, piece-edits.ts), their lifecycle                     *)
(* (piece-lifecycle.ts), the Brand Kit they render through (brand-kit.ts)  *)
(* and the export that renders a bundle of files (renderer.ts).            *)
(*                                                                         *)
(* Every handler is synchronous but the export: it awaits the rendering of *)
(* each slide, and any handler may run in between.  With Crashes = TRUE    *)
(* the process may also die between the statements of a handler.           *)
(***************************************************************************)
EXTENDS Naturals, Sequences, SequencesExt

CONSTANTS
  Pieces,         \* the pieces rows that may be created
  Docs,           \* documents
  Kits,           \* token tables of the Brand Kit, the seeded one among them
  SeedKit,
  Blocked,        \* <<doc, kit>> that check_brand or a [NEED: ...] refuses
  Exports,        \* the exports under way at once
  MaxSlides,      \* bound on the slides of a document
  SlideCount,     \* the slides of each document
  MaxVersions,    \* bound on the versions of a piece
  MaxKits,        \* bound on the versions of the kit
  Crashes         \* whether the process may die inside a handler

ASSUME PieceLifecycleAssumption ==
  /\ SeedKit \in Kits
  /\ Blocked \subseteq Docs \X Kits
  /\ MaxVersions \in Nat \ {0}
  /\ MaxKits \in Nat \ {0}
  /\ Crashes \in BOOLEAN

ASSUME SlideCountAssumption ==
  /\ MaxSlides \in 1 .. 20
  /\ SlideCount \in [Docs -> 1 .. MaxSlides]

VARIABLES
  kits,           \* brand_kits in version order
  audited,        \* the kit versions with a brand-kit.updated row in audit_log
  pieces,         \* pieces, each with its piece_versions
  exportRows,     \* piece_exports
  files,          \* external: the kit each slide file of a bundle was rendered in
  exporting       \* the exports under way

kitVars == <<kits, audited>>
pieceVars == <<kits, audited, pieces, exportRows, files, exporting>>

-----------------------------------------------------------------------------
Statuses ==
  {"absent", "backlog", "drafting", "review", "approved", "planned", "exported", "measured"}

EDITABLE_STATUSES == {"backlog", "drafting"}

REOPENABLE_STATUSES == {"review", "approved", "planned"}

\* Faulty variant of PINNED_STATUSES: planned work is forgotten.
PinnedApprovedOnly == {"approved"}

PINNED_STATUSES == {"approved", "planned"}

NoKit == 0

KitVersions == 1 .. MaxKits

PieceRow ==
  [status : Statuses, versions : Seq(Docs), pin : {NoKit} \cup KitVersions,
   outdated : BOOLEAN, dated : BOOLEAN]

ExportRow == [piece : Pieces, version : 1 .. MaxVersions, kit : KitVersions]

NotExporting == [rendered |-> "none"]

Exporting ==
  [piece : Pieces, version : 1 .. MaxVersions, kit : KitVersions,
   slides : 1 .. MaxSlides, rendered : 0 .. MaxSlides - 1]

PieceLifecycleTypeOK ==
  /\ kits \in Seq(Kits) /\ Len(kits) \in KitVersions
  /\ audited \subseteq 2 .. Len(kits)
  /\ pieces \in [Pieces -> PieceRow]
  /\ \A p \in Pieces : Len(pieces[p].versions) <= MaxVersions
  /\ exportRows \subseteq ExportRow
  /\ files \in [Pieces \X (1 .. MaxVersions) \X (1 .. MaxSlides) -> {NoKit} \cup KitVersions]
  /\ exporting \in [Exports -> {NotExporting} \cup Exporting]

PieceLifecycleInit ==
  /\ kits = <<SeedKit>>
  /\ audited = {}
  /\ pieces = [p \in Pieces |->
       [status |-> "absent", versions |-> <<>>, pin |-> NoKit,
        outdated |-> FALSE, dated |-> FALSE]]
  /\ exportRows = {}
  /\ files = [f \in Pieces \X (1 .. MaxVersions) \X (1 .. MaxSlides) |-> NoKit]
  /\ exporting = [e \in Exports |-> NotExporting]

status(p) == pieces[p].status

docVersion(p) == Len(pieces[p].versions)

kitVersion == Len(kits)

isBlocked(p) == <<Last(pieces[p].versions), kits[kitVersion]>> \in Blocked

exportVars == <<exportRows, files, exporting>>

-----------------------------------------------------------------------------
(* Documents *)

createPiece(p, doc) ==
  /\ status(p) = "absent"
  /\ pieces' = [pieces EXCEPT ![p].status = "backlog", ![p].versions = <<doc>>]
  /\ UNCHANGED <<kitVars, exportVars>>

\* Faulty variant of Editable: a piece in review can still be edited.
EditableInReview(p) == status(p) \in EDITABLE_STATUSES \cup {"review", "approved"}

Editable(p) == status(p) \in EDITABLE_STATUSES

persistNewVersion(p, doc) ==
  /\ docVersion(p) < MaxVersions
  /\ pieces' = [pieces EXCEPT ![p].versions = Append(@, doc)]
  /\ UNCHANGED <<kitVars, exportVars>>

applyEditBatch(p, baseVersion, doc) ==
  /\ Editable(p)
  /\ baseVersion = docVersion(p)
  /\ persistNewVersion(p, doc)

restoreVersion(p, version) ==
  /\ Editable(p)
  /\ version \in 1 .. docVersion(p)
  /\ persistNewVersion(p, pieces[p].versions[version])

-----------------------------------------------------------------------------
(* The lifecycle.  A move writes the status and, by its kind, the pin with  *)
(* the flag, or the plan.                                                   *)

writeStatus(p, row) ==
  /\ pieces' = [pieces EXCEPT ![p] = row]
  /\ UNCHANGED <<kitVars, exportVars>>

Keep(p, from, to) ==
  /\ status(p) = from
  /\ writeStatus(p, [pieces[p] EXCEPT !.status = to])

startDraftingPiece(p) == Keep(p, "backlog", "drafting")
submitPieceForReview(p) == Keep(p, "drafting", "review")
requestPieceChanges(p) == Keep(p, "review", "drafting")
recordOutcome(p) == Keep(p, "exported", "measured")

Pinned(p, to) ==
  [pieces[p] EXCEPT !.status = to, !.pin = kitVersion, !.outdated = FALSE]

approvePiece(p) ==
  /\ status(p) = "review"
  /\ ~ isBlocked(p)
  /\ writeStatus(p, Pinned(p, "approved"))

\* The status and the planned date are left as they are.
reapprovePiece(p) ==
  /\ pieces[p].outdated
  /\ ~ isBlocked(p)
  /\ writeStatus(p, Pinned(p, status(p)))

reopenPiece(p) ==
  /\ status(p) \in REOPENABLE_STATUSES
  /\ writeStatus(p, [pieces[p] EXCEPT !.status = "drafting", !.pin = NoKit,
                       !.outdated = FALSE, !.dated = FALSE])

planPiece(p) ==
  /\ status(p) = "approved"
  /\ writeStatus(p, [pieces[p] EXCEPT !.status = "planned", !.dated = TRUE])

unplanPiece(p) ==
  /\ status(p) = "planned"
  /\ writeStatus(p, [pieces[p] EXCEPT !.status = "approved", !.dated = FALSE])

-----------------------------------------------------------------------------
(* The Brand Kit *)

flagBrandOutdated ==
  pieces' = [p \in Pieces |->
    [pieces[p] EXCEPT !.outdated = @ \/ status(p) \in PINNED_STATUSES]]

Die == exporting' = [e \in Exports |-> NotExporting]

\* Faulty variant of insertKit: the current version is overwritten.
insertKitInPlace(kit) == kits' = [kits EXCEPT ![kitVersion] = kit]

insertKit(kit) == kits' = Append(kits, kit)

\* Tokens that change nothing mint no version.  The process may die after the
\* insertion of the kit, or after the flags and before the audit row.
updateKit(kit) ==
  /\ kit # kits[kitVersion]
  /\ kitVersion < MaxKits
  /\ insertKit(kit)
  /\ \/ /\ flagBrandOutdated
        /\ audited' = audited \cup {kitVersion + 1}
        /\ UNCHANGED exporting
     \/ /\ Crashes /\ Die
        /\ flagBrandOutdated \/ UNCHANGED pieces
        /\ UNCHANGED audited
  /\ UNCHANGED <<exportRows, files>>

-----------------------------------------------------------------------------
(* The export *)

\* Faulty variant of Exportable: the piece need not be planned.
ExportableFromReview(p) == status(p) \in {"review", "planned"} /\ ~ pieces[p].outdated

\* exportRefusal has nothing to say.
Exportable(p) == status(p) = "planned" /\ ~ pieces[p].outdated

exportKit(p) == IF pieces[p].pin = NoKit THEN kitVersion ELSE pieces[p].pin

exportPieceRecord(e, p) ==
  /\ exporting[e] = NotExporting
  /\ Exportable(p)
  /\ exporting' = [exporting EXCEPT ![e] =
       [piece |-> p, version |-> docVersion(p), kit |-> exportKit(p),
        slides |-> SlideCount[Last(pieces[p].versions)], rendered |-> 0]]
  /\ UNCHANGED <<kitVars, pieces, exportRows, files>>

\* A rendered slide is written to the directory of the piece and version.
writeSlide(e) ==
  LET x == exporting[e]
  IN files' = [files EXCEPT ![<<x.piece, x.version, x.rendered + 1>>] = x.kit]

slideRendered(e) ==
  /\ exporting[e] # NotExporting
  /\ exporting[e].rendered + 1 < exporting[e].slides
  /\ writeSlide(e)
  /\ exporting' = [exporting EXCEPT ![e].rendered = @ + 1]
  /\ UNCHANGED <<kitVars, pieces, exportRows>>

BundleRow(x) == [piece |-> x.piece, version |-> x.version, kit |-> x.kit]

\* After the last slide nothing is awaited: the row is inserted and the piece
\* marked exported, whatever became of it since the export began.
exportFinishes(e) ==
  LET x == exporting[e] IN
  /\ x # NotExporting
  /\ x.rendered + 1 = x.slides
  /\ writeSlide(e)
  /\ exportRows' = exportRows \cup {BundleRow(x)}
  /\ \/ /\ pieces' = [pieces EXCEPT ![x.piece].status = "exported"]
        /\ exporting' = [exporting EXCEPT ![e] = NotExporting]
     \/ Crashes /\ Die /\ UNCHANGED pieces
  /\ UNCHANGED kitVars

exportFails(e) ==
  /\ exporting[e] # NotExporting
  /\ exporting' = [exporting EXCEPT ![e] = NotExporting]
  /\ UNCHANGED <<kitVars, pieces, exportRows, files>>

processDies ==
  /\ Crashes
  /\ Die
  /\ UNCHANGED <<kitVars, pieces, exportRows, files>>

PieceStep(p) ==
  \/ \E doc \in Docs :
       \/ createPiece(p, doc)
       \/ \E base \in 1 .. MaxVersions : applyEditBatch(p, base, doc)
  \/ \E version \in 1 .. MaxVersions : restoreVersion(p, version)
  \/ startDraftingPiece(p) \/ submitPieceForReview(p) \/ requestPieceChanges(p)
  \/ approvePiece(p) \/ reapprovePiece(p) \/ reopenPiece(p)
  \/ planPiece(p) \/ unplanPiece(p) \/ recordOutcome(p)

ExportStep(e) ==
  \/ \E p \in Pieces : exportPieceRecord(e, p)
  \/ slideRendered(e) \/ exportFinishes(e) \/ exportFails(e)

PieceLifecycleNext ==
  \/ \E p \in Pieces : PieceStep(p)
  \/ \E kit \in Kits : updateKit(kit)
  \/ \E e \in Exports : ExportStep(e)
  \/ processDies

PieceLifecycleSpec == PieceLifecycleInit /\ [][PieceLifecycleNext]_pieceVars

-----------------------------------------------------------------------------
(* Properties *)

\* "The Operator saw THIS document rendered through THIS Brand Kit"
\* (piece-lifecycle.ts:8-13): the current document of an approved or planned
\* piece, in the kit version its approval pinned, had no blocker.
ApprovedRenderingIsClean ==
  \A p \in Pieces : status(p) \in PINNED_STATUSES =>
    /\ pieces[p].pin \in 1 .. kitVersion
    /\ <<Last(pieces[p].versions), kits[pieces[p].pin]>> \notin Blocked

\* "A later kit change flags approved and planned work brand-outdated"
\* (piece-lifecycle.ts:14): a flagged piece is pinned to a version that is no
\* longer the current one, and once an update reports the pieces it flagged
\* (brand-kit.ts:194) no pinned work on an earlier version is without a flag,
\* through plans, re-approvals, reopenings and crashes.
FlagIsExact ==
  \A p \in Pieces : status(p) \in {"approved", "planned"} =>
    /\ pieces[p].outdated => pieces[p].pin < kitVersion
    /\ (\E v \in audited : pieces[p].pin < v) => pieces[p].outdated

\* "The artifact that leaves is the one that was approved"
\* (piece-lifecycle.ts:16-17): every bundle was begun for a rendering without
\* blockers, and carries the document version and kit version of it.
BundlesAreCleanRenderings ==
  \A row \in exportRows :
    /\ row.version \in 1 .. docVersion(row.piece)
    /\ <<pieces[row.piece].versions[row.version], kits[row.kit]>> \notin Blocked

\* A release names "exactly the bytes that were approved" (db.ts:361-364): the
\* files of a bundle are those its row was written for.
BundleKeepsItsBytes ==
  \A row \in exportRows : \A n \in 1 .. SlideCount[pieces[row.piece].versions[row.version]] :
    files[row.piece, row.version, n] = row.kit
=============================================================================
