-------------------------- MODULE MCProjectChanges --------------------------
(* Instances of ProjectChanges for TLC. *)
EXTENDS ProjectChanges

CONSTANT reword

OnlyBrand == <<"brand">>
NoResource == <<>>

Text(words) == <<>> :> words

voice == <<"voice">>
colors == <<"colors">>
primary == <<"colors", "primary">>

BrandFields == {voice, colors, primary, <<"tagline">>}

Palette(words) == <<"primary">> :> Text(words)

BrandValues == UNION {{Text(words), Palette(words)} : words \in {"plain", "warm", "bold"}}

Set(path, value) == [op |-> "set_field", resource |-> "brand", path |-> path, value |-> value]

\* A rewording takes its first operation back where the voice was plain, and
\* sets a colour by its path before it sets them all.
OperationsOf ==
  [change \in ChangeSets |->
     IF change = reword
       THEN <<Set(voice, Text("warm")), Set(primary, Text("bold")),
              Set(colors, Palette("warm")), Set(voice, Text("plain"))>>
     ELSE <<[op |-> "add_claim", claim |-> Text("bold")]>>]

\* The claims are not editable.
FieldsOfBrand ==
  [p \in Projects |->
     [operations |-> {"set_field", "add_claim"}, editableTargets |-> {"brand"},
      protectedResources |-> {}]]

\* A brand with a voice and colours; one with colours in a word and, left by an
\* earlier change, a colour under its whole path; and one with neither.
Brands ==
  LET tagline == <<"tagline">> :> Text("bold")
  IN {[brand |-> (voice :> Text("plain")) @@ (colors :> Palette("plain")) @@ tagline],
      [brand |-> (colors :> Text("warm")) @@ (primary :> Text("plain")) @@ tagline],
      [brand |-> tagline]}

Symmetry == Permutations(Projects) \cup Permutations(Sessions) \cup Permutations(Calls)
=============================================================================
