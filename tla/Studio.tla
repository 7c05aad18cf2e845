-------------------------------- MODULE Studio --------------------------------
(***************************************************************************)
(* The Studio of one project: the lifecycle of its Creative Pieces over    *)
(* real documents, edited in batches (piece-edits.ts), checked (checks.ts) *)
(* and painted (piece-slide.tsx); the images handed over for them          *)
(* (assets.ts); the templates they leave and start from (templates.ts).    *)
(*                                                                         *)
(* Assets are numbered over all projects; the rest is of this project.     *)
(***************************************************************************)
EXTENDS PieceLifecycle, PieceEdits

CONSTANTS
  Starters,       \* the documents a host creates a piece with
  Batches,        \* the batches a host sends, in a sequence
  Prompts,        \* the prompts images are generated from
  NoPrompt,
  MaxRows         \* bound on the documents, kits, assets, templates and bundles

ASSUME StudioAssumption ==
  /\ Starters \subseteq Docs
  /\ \A doc \in Docs :
       /\ doc.format \in Formats
       /\ \A s \in DOMAIN doc.slides :
            /\ doc.slides[s] \in Seq(Range(doc.slides[s]))
            /\ \A n \in DOMAIN doc.slides[s] : IsLayer(doc.slides[s][n])
       /\ \A b \in DOMAIN Batches : batchResults(doc, Batches[b]) \subseteq Docs
       /\ stripToTemplate(doc) \in Docs
  /\ \A kit \in Kits : IsKit(kit)
  /\ Blocked = {r \in Docs \X Kits : approvalBlockers(r[1], r[2])}
  /\ NoPrompt \notin Prompts
  /\ MaxRows \in Nat

ASSUME SlidesAreCounted == \A doc \in Docs : Len(doc.slides) = SlideCount[doc]

VARIABLES
  assets,         \* the assets of every project
  handoff,        \* image_state and image_prompt of each piece
  templates       \* the documents of creative_templates

studioVars == <<assets, handoff, templates>>

allVars == <<pieceVars, studioVars>>

-----------------------------------------------------------------------------
\* An asset of this project or another.  Its origin is judged on the way in.
AssetRow == [own : BOOLEAN, prompt : Prompts \cup {NoPrompt}]

ImageState ==
  [state : {"none", "prompt_prepared", "asset_attached"}, asset : 0 .. MaxRows,
   prompt : Prompts \cup {NoPrompt}]

StudioTypeOK ==
  /\ PieceLifecycleTypeOK
  /\ assets \in Seq(AssetRow)
  /\ handoff \in [Pieces -> ImageState]
  /\ \A n \in DOMAIN templates : stripToTemplate(templates[n]) = templates[n]

StudioInit ==
  /\ PieceLifecycleInit
  /\ assets = <<>>
  /\ handoff = [p \in Pieces |-> [state |-> "none", asset |-> NoRef, prompt |-> NoPrompt]]
  /\ templates = <<>>

-----------------------------------------------------------------------------
(* Documents *)

createFrom(p, doc) == createPiece(p, doc) /\ UNCHANGED studioVars

editBatch(p, ops) ==
  /\ docVersion(p) > 0
  /\ \E doc \in batchResults(Last(pieces[p].versions), ops) : applyEditBatch(p, docVersion(p), doc)
  /\ UNCHANGED studioVars

saveAsTemplate(p) ==
  /\ status(p) # "absent"
  /\ templates' = Append(templates, stripToTemplate(Last(pieces[p].versions)))
  /\ UNCHANGED <<pieceVars, assets, handoff>>

instantiateTemplate(p, n) ==
  /\ createPiece(p, templates[n])
  /\ UNCHANGED studioVars

-----------------------------------------------------------------------------
(* Images *)

Given(prompt, otherwise) == IF prompt = NoPrompt THEN otherwise ELSE prompt

\* The references resolveAssetRef finds an asset of the project for.
resolveAssetRef == {ref \in DOMAIN assets : assets[ref].own}

refExists(ref) == ref \in resolveAssetRef

setImageState(p, state, asset, prompt) ==
  handoff' = [handoff EXCEPT ![p] = [state |-> state, asset |-> asset, prompt |-> prompt]]

\* No payload, or one over the cap: the piece forgets what it had.
prepareHandoff(p, prompt) ==
  /\ status(p) # "absent"
  /\ setImageState(p, "prompt_prepared", NoRef, prompt)
  /\ UNCHANGED <<pieceVars, assets, templates>>

insertAsset(own, prompt) == assets' = Append(assets, [own |-> own, prompt |-> prompt])

\* Faulty variant of lineage: what the piece remembers wins.
lineageOfPiece(p, prompt) == Given(handoff[p].prompt, prompt)

lineage(p, prompt) == Given(prompt, handoff[p].prompt)

\* With Crashes the process may die between the asset and the piece.
attachToPiece(p, prompt) ==
  \/ setImageState(p, "asset_attached", Len(assets) + 1, lineage(p, prompt)) /\ UNCHANGED exporting
  \/ Crashes /\ Die /\ UNCHANGED handoff

\* Faulty variant of InScope: any piece is found by its number.
InScopeOfAll(p, own) == status(p) # "absent"

InScope(p, own) == own /\ status(p) # "absent"

\* A session of this project (own) or of another names the piece; a piece it
\* cannot see is as good as none.  What is generated (origin ai_host) comes
\* with its prompt.
registerAsset(p, own, generated, prompt) ==
  /\ generated => prompt # NoPrompt
  /\ insertAsset(own, prompt)
  /\ IF InScope(p, own) THEN attachToPiece(p, prompt) ELSE UNCHANGED <<handoff, exporting>>
  /\ UNCHANGED <<kitVars, pieces, exportRows, files, templates>>

uploadAsset(p, prompt) ==
  /\ status(p) # "absent"
  /\ insertAsset(TRUE, lineage(p, prompt))
  /\ attachToPiece(p, lineage(p, prompt))
  /\ UNCHANGED <<kitVars, pieces, exportRows, files, templates>>

uploadLoose(own, prompt) ==
  /\ insertAsset(own, prompt)
  /\ UNCHANGED <<pieceVars, handoff, templates>>

-----------------------------------------------------------------------------
ImageStep(p) ==
  \E prompt \in Prompts \cup {NoPrompt} :
    \/ prepareHandoff(p, prompt)
    \/ uploadAsset(p, prompt)
    \/ \E own, generated \in BOOLEAN : registerAsset(p, own, generated, prompt)

DocumentStep(p) ==
  \/ \E doc \in Starters : createFrom(p, doc)
  \/ \E b \in DOMAIN Batches : editBatch(p, Batches[b])
  \/ saveAsTemplate(p)
  \/ \E n \in DOMAIN templates : instantiateTemplate(p, n)

LifecycleStep(p) ==
  /\ \/ \E version \in 1 .. MaxVersions : restoreVersion(p, version)
     \/ startDraftingPiece(p) \/ submitPieceForReview(p) \/ requestPieceChanges(p)
     \/ approvePiece(p) \/ reapprovePiece(p) \/ reopenPiece(p)
     \/ planPiece(p) \/ unplanPiece(p) \/ recordOutcome(p)
  /\ UNCHANGED studioVars

Rows ==
  Len(kits) + Len(assets) + Len(templates) + Cardinality(exportRows)
    + MapThenSumSet(LAMBDA p : docVersion(p), Pieces)

StudioNext ==
  /\ \/ \E p \in Pieces : DocumentStep(p) \/ ImageStep(p) \/ LifecycleStep(p)
     \/ \E own \in BOOLEAN, prompt \in Prompts \cup {NoPrompt} : uploadLoose(own, prompt)
     \/ /\ \/ \E kit \in Kits : updateKit(kit)
           \/ \E e \in Exports : ExportStep(e)
           \/ processDies
        /\ UNCHANGED studioVars
  /\ Rows' <= MaxRows

StudioSpec == StudioInit /\ [][StudioNext]_allVars

-----------------------------------------------------------------------------
(* Properties *)

slidesOf(p) == Last(pieces[p].versions).slides

\* "Pieces reference tokens, never copied values" (checks.ts:93-94): every
\* colour and family named in an approved or planned piece is painted, by the
\* other module (piece-slide.tsx:86-107) and in the kit its approval pinned, as
\* that kit's value for it, never as a fallback or as itself.
ApprovedPaintsFromKit ==
  \A p \in Pieces : status(p) \in PINNED_STATUSES =>
    LET kit == kits[pieces[p].pin]
        Value(name) == {kit[t] : t \in DOMAIN kit \cap {name}}
    IN \A s \in DOMAIN slidesOf(p) : \A n \in DOMAIN slidesOf(p)[s] :
         LET layer == slidesOf(p)[s][n]
             view == layerView(layer, kit, resolveAssetRef)
         IN /\ layer.color # Unset => view.color \in Value(layer.color)
            /\ layer.fill # Unset => view.color \in Value(layer.fill)
            /\ layer.font # Unset => view.font \in Value(layer.font)

\* "One line-height for the renderer and for check_brand's overflow estimate,
\* so the warning cannot drift away" (piece-slide.tsx:132): whatever batches,
\* restores and templates made of a document, no slide runs into its bottom
\* padding, as it is laid out, without a warning, and a slide that is warned of
\* does, but for the part of a pixel each text is rounded up by.
OverflowIsReported ==
  \A p \in Pieces : status(p) # "absent" =>
    LET doc == Last(pieces[p].versions)
        bottom == 4 * (FORMAT_DIMENSIONS(doc.format).height - padding(doc.format))
        Warned(s) == <<"overflow", s, 0>> \in brandWarnings(doc, resolveAssetRef)
        Texts(slide) == {n \in unframed(slide) : slide[n].type = "text"}
    IN \A s \in DOMAIN doc.slides :
         LET ends == columnEnds(doc.slides[s], doc.format)
         IN /\ ends > bottom => Warned(s)
            /\ Warned(s) => ends + 3 * Cardinality(Texts(doc.slides[s])) > bottom

\* The image a piece says it has is an asset of the project, and when that
\* asset has a prompt the piece's is the same: "the asset's own prompt wins"
\* (assets.ts:225-227), through retries, uploads, crashes and other projects.
AttachedImageIsItsOwn ==
  \A p \in Pieces : handoff[p].state = "asset_attached" =>
    /\ refExists(handoff[p].asset)
    /\ assets[handoff[p].asset].prompt \in {NoPrompt, handoff[p].prompt}

Rendering(p) ==
  [s \in DOMAIN slidesOf(p) |->
     SlideView(slidesOf(p)[s], kits[pieces[p].pin], resolveAssetRef)]

Signed(p) == [version |-> docVersion(p), pin |-> pieces[p].pin]

ImagesResolve(p) ==
  \A s \in DOMAIN slidesOf(p) : \A n \in DOMAIN slidesOf(p)[s] :
    slidesOf(p)[s][n].ref = NoRef \/ refExists(slidesOf(p)[s][n].ref)

\* "The artifact that leaves is the one that was approved"
\* (piece-lifecycle.ts:16-17): while a piece stays approved or planned on one
\* document and kit, it renders as what the Operator saw, whatever kits, assets
\* and templates come after.  Of an image that did not resolve the Operator saw
\* a placeholder, and checks.ts:220-224 lets it be approved: the rendering of
\* such a piece changes when its asset lands.
ApprovedRenderingStands ==
  [][\A p \in Pieces :
       (/\ status(p) \in PINNED_STATUSES /\ status(p)' \in PINNED_STATUSES
        /\ Signed(p)' = Signed(p)
        /\ ImagesResolve(p))
       => Rendering(p)' = Rendering(p)]_allVars
=============================================================================
