------------------------------ MODULE PieceEdits ------------------------------
(***************************************************************************)
(* What a batch of typed operations makes of a document                    *)
(* (server/piece-edits.ts), and a document of a template                   *)
(* (server/templates.ts).                                                  *)
(*                                                                         *)
(* An operation is [op, slide, layer, value]: slides and layers are        *)
(* counted from 1, value is a text, a colour, a family or a layer, and the *)
(* layer of a set_caption is the network.                                  *)
(***************************************************************************)
EXTENDS Checks

MAX_BATCH_OPS == 20

isValidFill(value) == value \in HexColors \cup ColorTokens

isValidFont(value) == value \in Families \cup FontTokens

Targets ==
  [set_text |-> {"text"}, set_fill |-> {"shape", "text"}, set_font |-> {"text"},
   remove_layer |-> LayerTypes]

\* Every operation is judged by the document the batch was sent for.
structuralError(doc, op) ==
  /\ op.op # "set_caption"
  /\ \/ op.slide \notin DOMAIN doc.slides
     \/ /\ op.op # "add_layer"
        /\ \/ op.layer \notin DOMAIN doc.slides[op.slide]
           \/ doc.slides[op.slide][op.layer].type \notin Targets[op.op]

Fallback(value, valid, fallback) == IF valid THEN value ELSE fallback

\* The layer an operation leaves.  By then the layers may have moved: on a
\* layer of another type it changes nothing, or another field.
setLayer(layer, op) ==
  CASE op.op = "set_text" /\ layer.type = "text" -> [layer EXCEPT !.text = op.value]
    [] op.op = "set_fill" /\ layer.type = "shape" ->
         [layer EXCEPT !.fill = Fallback(op.value, isValidFill(op.value), "brand.ink")]
    [] op.op = "set_fill" /\ layer.type = "text" ->
         [layer EXCEPT !.color = Fallback(op.value, isValidFill(op.value), "brand.ink")]
    [] op.op = "set_font" /\ layer.type = "text" ->
         [layer EXCEPT !.font = Fallback(op.value, isValidFont(op.value), "font.body")]
    [] OTHER -> layer

\* The handler throws on a layer that is gone.
Thrown == [thrown |-> TRUE]

\* A layer that is gone is removed without a word.
applyOp(doc, op) ==
  CASE op.op = "set_caption" -> [doc EXCEPT !.captions[op.layer] = op.value]
    [] op.op = "add_layer" -> [doc EXCEPT !.slides[op.slide] = Append(@, op.value)]
    [] op.op = "remove_layer" ->
         IF op.layer \in DOMAIN doc.slides[op.slide]
           THEN [doc EXCEPT !.slides[op.slide] = RemoveAt(@, op.layer)]
           ELSE doc
    [] OTHER ->
         IF op.layer \in DOMAIN doc.slides[op.slide]
           THEN [doc EXCEPT !.slides[op.slide][op.layer] = setLayer(@, op)]
           ELSE Thrown

applyOps(doc, ops) ==
  FoldLeft(LAMBDA d, op : IF d = Thrown THEN d ELSE applyOp(d, op), doc, ops)

\* The documents a batch leaves behind: none when it is refused or throws.
batchResults(doc, ops) ==
  IF Len(ops) \in 1 .. MAX_BATCH_OPS /\ \A n \in DOMAIN ops : ~structuralError(doc, ops[n])
    THEN {applyOps(doc, ops)} \ {Thrown}
    ELSE {}

-----------------------------------------------------------------------------
stripToTemplate(doc) ==
  [doc EXCEPT
     !.slides = [s \in DOMAIN doc.slides |->
        [n \in DOMAIN doc.slides[s] |-> [doc.slides[s][n] EXCEPT !.text = Blank]]],
     !.captions = [network \in CAPTION_NETWORKS |-> Blank]]
=============================================================================
