----------------------------- MODULE SlideLayout -----------------------------
(***************************************************************************)
(* The slide renderer of render/piece-slide.tsx: the boxes it lays layers  *)
(* out in and the colours and families it paints them with.                *)
(*                                                                         *)
(* The text of a layer or caption is the sequence of the lengths of its    *)
(* lines, and whether it carries a [NEED: ...]; blank text has no lines.   *)
(* Every layer is a record with all the fields, those it lacks being       *)
(* Unset, and a frame is a width and a height in percent of the canvas.    *)
(***************************************************************************)
EXTENDS Integers, Sequences, FiniteSets, SequencesExt, Functions

CONSTANTS
  ColorTokens,    \* well-formed names brand.<name>
  FontTokens,     \* well-formed names font.<name>
  IllNamed,       \* values that begin with font. and are no well-formed name
  HexColors,      \* #rrggbb values
  Families,       \* font families that may be written as a raw value
  Junk            \* values that are none of these

ASSUME SlideLayoutAssumption ==
  /\ {"brand.ink", "brand.paper", "brand.accent"} \subseteq ColorTokens
  /\ {"font.display", "font.body"} \subseteq FontTokens
  /\ ColorTokens \cap (HexColors \cup Junk) = {}
  /\ FontTokens \cap (Families \cup Junk \cup IllNamed) = {}
  /\ IllNamed \cap (Families \cup Junk) = {}

-----------------------------------------------------------------------------
Unset == "unset"

\* An image layer refers to an asset by its number, or to none.
NoRef == 0

Blank == [lines |-> <<>>, need |-> FALSE]

Formats == {"4:5", "1:1", "9:16", "16:9"}

LayerTypes == {"text", "image", "shape", "logo"}

\* A layer has the fields of its type.
IsLayer(layer) ==
  /\ layer.type \in LayerTypes
  /\ layer.text.lines \in Seq(Nat)
  /\ layer.type # "text" => layer.color = Unset /\ layer.font = Unset
  /\ layer.type # "shape" => layer.fill = Unset
  /\ layer.type # "image" => layer.ref = NoRef

RequiredTokens == {"brand.ink", "brand.paper", "brand.accent", "font.display", "font.body"}

\* A table of tokens: the seeded table, or one validateTokens lets through.
IsKit(kit) ==
  /\ RequiredTokens \subseteq DOMAIN kit
  /\ DOMAIN kit \subseteq ColorTokens \cup FontTokens
  /\ \A t \in DOMAIN kit \cap ColorTokens : kit[t] \in HexColors
  /\ \A t \in DOMAIN kit \cap FontTokens : kit[t] \in Families

Permille(ratio, length) == (ratio * length + 500) \div 1000

FORMAT_DIMENSIONS(format) ==
  CASE format = "4:5"  -> [width |-> 1080, height |-> 1350]
    [] format = "1:1"  -> [width |-> 1080, height |-> 1080]
    [] format = "9:16" -> [width |-> 1080, height |-> 1920]
    [] format = "16:9" -> [width |-> 1920, height |-> 1080]

resolveColor(value, kit) ==
  CASE value \in DOMAIN kit \cap ColorTokens -> kit[value]
    [] value \in HexColors                   -> value
    [] OTHER                                 -> kit["brand.ink"]

defaultFontToken(role) == IF role = "headline" THEN "font.display" ELSE "font.body"

\* A value is taken for a token by how it begins.
isFontToken(value) == value \in FontTokens \cup IllNamed

resolveFont(value, fallback, kit) ==
  CASE value \in DOMAIN kit \cap FontTokens                         -> kit[value]
    [] value \notin DOMAIN kit /\ (isFontToken(value) \/ value = Unset) -> kit[fallback]
    [] OTHER                                                      -> value

textSize(role, height) ==
  CASE role = "headline" -> Permille(60, height)
    [] role = "kicker"   -> Permille(25, height)
    [] OTHER             -> Permille(35, height)

stackGap(format) == Permille(20, FORMAT_DIMENSIONS(format).height)

padding(format) == Permille(50, FORMAT_DIMENSIONS(format).height)

slideContentBox(format) ==
  LET canvas == FORMAT_DIMENSIONS(format)
  IN [width |-> canvas.width - 2 * padding(format),
      height |-> canvas.height - 2 * padding(format)]

layerBox(layer, format) ==
  LET canvas == FORMAT_DIMENSIONS(format) IN
  IF layer.frame = <<>> THEN slideContentBox(format)
  ELSE [width |-> Permille(10 * layer.frame[1], canvas.width),
        height |-> Permille(10 * layer.frame[2], canvas.height)]

intrinsicLayerHeight(layer, format) ==
  LET height == FORMAT_DIMENSIONS(format).height IN
  CASE layer.type = "image" -> Permille(250, height)
    [] layer.type = "shape" -> Permille(80, height)
    [] layer.type = "logo"  -> Permille(30, height)
    [] OTHER                -> 0

Total(terms) ==
  LET total[n \in 0 .. Len(terms)] == IF n = 0 THEN 0 ELSE total[n - 1] + terms[n]
  IN total[Len(terms)]

\* The layers that are stacked in the one content box of the slide.
unframed(slide) == {n \in DOMAIN slide : slide[n].frame = <<>>}

\* In quarters.
TEXT_LINE_HEIGHT == 5

\* External: how the browser wraps, as check_brand estimates it, a character
\* being 0.55 of the type size wide.
lineRows(length, charsPerLine) ==
  IF length = 0 THEN 1 ELSE (length + charsPerLine - 1) \div charsPerLine

wrappedRows(layer, format, boxWidth) ==
  LET size == textSize(layer.role, FORMAT_DIMENSIONS(format).height)
      perLine == IF boxWidth * 100 < size * 55 THEN 1 ELSE (boxWidth * 100) \div (size * 55)
  IN Total([n \in DOMAIN layer.text.lines |-> lineRows(layer.text.lines[n], perLine)])

\* The quarter pixels an unframed layer takes in the slide's column: the rows
\* of a text at its line height, unrounded, and of the others the min-height.
laidOut(layer, format) ==
  IF layer.type = "text"
    THEN wrappedRows(layer, format, slideContentBox(format).width)
           * textSize(layer.role, FORMAT_DIMENSIONS(format).height) * TEXT_LINE_HEIGHT
    ELSE 4 * intrinsicLayerHeight(layer, format)

\* Where the column ends, in quarter pixels from the top: it begins under the
\* padding and has a gap before each layer but the first.
columnEnds(slide, format) ==
  4 * (padding(format) - stackGap(format))
  + Total([n \in DOMAIN slide |->
             IF n \in unframed(slide) THEN 4 * stackGap(format) + laidOut(slide[n], format) ELSE 0])

-----------------------------------------------------------------------------
(* What is painted: the colours and families of a layer, and the assets an  *)
(* image layer draws, those of the set resolved that the caller resolves;   *)
(* another reference draws a placeholder in ink.                            *)

Placeholder == 0

layerView(layer, kit, resolved) ==
  CASE layer.type = "text" ->
         [color |-> IF layer.color = Unset THEN kit["brand.ink"] ELSE resolveColor(layer.color, kit),
          font |-> resolveFont(layer.font, defaultFontToken(layer.role), kit),
          src |-> Placeholder]
    [] layer.type = "image" ->
         [color |-> kit["brand.ink"], font |-> kit["font.body"],
          src |-> IF layer.ref \in resolved THEN layer.ref ELSE Placeholder]
    [] layer.type = "shape" ->
         [color |-> resolveColor(layer.fill, kit), font |-> kit["font.body"], src |-> Placeholder]
    [] layer.type = "logo" ->
         [color |-> kit["brand.ink"], font |-> kit["font.display"], src |-> Placeholder,
          dot |-> kit["brand.accent"]]

SlideView(slide, kit, resolved) ==
  [n \in DOMAIN slide |-> layerView(slide[n], kit, resolved)]
=============================================================================
