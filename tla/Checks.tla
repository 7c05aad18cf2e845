-------------------------------- MODULE Checks --------------------------------
(***************************************************************************)
(* The deterministic checks of a document: check_brand (server/checks.ts)  *)
(* and the unsupported claims (piece-lifecycle.ts).                        *)
(*                                                                         *)
(* A document is [format, slides, captions]: a slide is a sequence of      *)
(* layers, captions the texts for each network.  A finding is its code,    *)
(* the number of its slide and the index of its layer; 0 for no slide, or  *)
(* for a finding about a whole slide.                                      *)
(***************************************************************************)
EXTENDS SlideLayout

CAPTION_NETWORKS == {"instagram", "x", "linkedin", "tiktok"}

-----------------------------------------------------------------------------
(* check_brand *)

\* Faulty variant of offKit: a well-formed token name is taken for a token.
offKitByName(value, tokens, kit) == value \notin {Unset} \cup tokens

\* A value that is set and no token of the kit: raw, or unknown to it.
offKit(value, tokens, kit) == value # Unset /\ value \notin tokens \cap DOMAIN kit

offKitFindings(layer, kit) ==
  {f \in {"fill", "color", "font"} :
     offKit(layer[f], IF f = "font" THEN FontTokens ELSE ColorTokens, kit)}

\* Rounded up to a pixel.
textHeight(layer, format, boxWidth) ==
  LET size == textSize(layer.role, FORMAT_DIMENSIONS(format).height)
  IN (wrappedRows(layer, format, boxWidth) * size * TEXT_LINE_HEIGHT + 3) \div 4

layerHeight(layer, format) ==
  IF layer.type = "text"
    THEN textHeight(layer, format, slideContentBox(format).width)
    ELSE intrinsicLayerHeight(layer, format)

stackedLayers(slide, format) ==
  Total([n \in DOMAIN slide |-> IF n \in unframed(slide) THEN layerHeight(slide[n], format) ELSE 0])

stackedHeight(slide, format) ==
  LET gaps == IF unframed(slide) # {} THEN Cardinality(unframed(slide)) - 1 ELSE 0
  IN stackedLayers(slide, format) + gaps * stackGap(format)

overflowsItsFrame(layer, format) ==
  /\ layer.frame # <<>>
  /\ layer.type = "text"
  /\ LET box == layerBox(layer, format)
     IN textHeight(layer, format, box.width) > box.height

\* Faulty variant of overflowFindings: each layer against the whole box.
overflowOneByOne(slide, format) ==
  {n \in DOMAIN slide : overflowsItsFrame(slide[n], format)}
  \cup {n \in {0} : \E k \in unframed(slide) :
                     layerHeight(slide[k], format) > slideContentBox(format).height}

\* The framed texts that overflow their frame; 0 when the stack overflows.
overflowFindings(slide, format) ==
  {n \in DOMAIN slide : overflowsItsFrame(slide[n], format)}
  \cup {n \in {0} : stackedHeight(slide, format) > slideContentBox(format).height}

checkLayer(layer, kit) ==
  offKitFindings(layer, kit)
  \cup {code \in {"empty_text"} : layer.type = "text" /\ layer.text.lines = <<>>}
  \cup {code \in {"missing_asset"} : layer.type = "image" /\ layer.ref = NoRef}

\* The findings that are errors.
checkBrandDoc(doc, kit) ==
  UNION {UNION {{<<code, s, n>> : code \in checkLayer(doc.slides[s][n], kit)} :
                  n \in DOMAIN doc.slides[s]} : s \in DOMAIN doc.slides}

\* The findings that are warnings; existing are the references that name an
\* asset of the project.
brandWarnings(doc, existing) ==
  UNION {
    {<<"overflow", s, n>> : n \in overflowFindings(doc.slides[s], doc.format)}
    \cup {<<"unresolved_asset", s, n>> :
            n \in {k \in DOMAIN doc.slides[s] :
                     LET layer == doc.slides[s][k]
                     IN layer.type = "image" /\ layer.ref \notin {NoRef} \cup existing}}
    : s \in DOMAIN doc.slides}

-----------------------------------------------------------------------------
(* What stands between a piece and approval *)

texts(doc) ==
  UNION {{doc.slides[s][n].text : n \in DOMAIN doc.slides[s]} : s \in DOMAIN doc.slides}
  \cup Range(doc.captions)

needTokens(doc) == {text \in texts(doc) : text.need}

approvalBlockers(doc, kit) == checkBrandDoc(doc, kit) # {} \/ needTokens(doc) # {}
=============================================================================
