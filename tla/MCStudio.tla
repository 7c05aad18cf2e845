------------------------------ MODULE MCStudio ------------------------------
(* Instances of Studio for TLC. *)
EXTENDS Studio, TLC

CONSTANTS coined, reworded

Layer(type) ==
  [type |-> type, text |-> Blank, role |-> Unset, color |-> Unset, font |-> Unset,
   fill |-> Unset, ref |-> NoRef, frame |-> <<>>]

Text(lengths) == [lines |-> lengths, need |-> FALSE]

Copy(length) == [Layer("text") EXCEPT !.text = Text(<<length>>), !.color = "brand.ink"]

\* The glowing kit holds a token more than the seeded one.
Seeded ==
  [t \in RequiredTokens |->
     CASE t = "brand.ink"    -> "#1f1b16"
       [] t = "brand.paper"  -> "#f6f1e7"
       [] t = "brand.accent" -> "#1a6b54"
       [] OTHER              -> "Arial"]

Glowing ==
  [t \in RequiredTokens \cup {"brand.glow"} |->
     IF t = "brand.glow" THEN "#ffcc00" ELSE Seeded[t]]

SeededAndGlowing == {Seeded, Glowing}

\* One shape glows.  The image, the paragraph of twelve rows and the shape just
\* fit on a square canvas.
Collage ==
  [format |-> "1:1",
   slides |-> <<<<[Layer("image") EXCEPT !.ref = 1], Copy(12 * 46),
                  [Layer("shape") EXCEPT !.fill = "brand.glow"]>>,
                <<[Copy(20) EXCEPT !.font = "font.display", !.frame = <<50, 10>>]>>>>,
   captions |-> [n \in CAPTION_NETWORKS |-> IF n = "x" THEN Text(<<12>>) ELSE Blank]]

OnlyCollage == {Collage}

Op(op, slide, layer, value) == [op |-> op, slide |-> slide, layer |-> layer, value |-> value]

\* The font is no token's name and gives way to the fallback.
Rewrite ==
  <<Op("set_text", 2, 1, [lines |-> <<30>>, need |-> TRUE]), Op("set_font", 2, 1, "font.Display"),
    Op("set_fill", 1, 3, "brand.accent")>>

\* The layers move under the later operations: of the third nothing is left to
\* remove.  With the paragraph that is added the slide overflows.
Swap ==
  <<Op("remove_layer", 1, 1, Unset), Op("remove_layer", 1, 3, Unset),
    Op("add_layer", 1, 0, Copy(12 * 46)), Op("set_fill", 1, 2, "brand.ink")>>

SomeBatches == <<Rewrite, Swap>>

\* The documents batches and templates make of the starters.
GrownOnce(docs) ==
  docs \cup {stripToTemplate(d) : d \in docs}
       \cup UNION {batchResults(d, SomeBatches[b]) : d \in docs, b \in DOMAIN SomeBatches}

GrownTwice(docs) == GrownOnce(GrownOnce(docs))

Reachable == GrownTwice(GrownTwice(GrownTwice(OnlyCollage)))

CountOfEach == [d \in Reachable |-> Len(d.slides)]

Refused == {r \in Reachable \X SeededAndGlowing : approvalBlockers(r[1], r[2])}

Colours == {"brand.ink", "brand.paper", "brand.accent", "brand.glow"}

Hexes == {"#1f1b16", "#f6f1e7", "#1a6b54", "#ffcc00", "#00ff00"}

Symmetry == Permutations(Pieces) \cup Permutations(Prompts)
=============================================================================
