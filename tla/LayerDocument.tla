--------------------------- MODULE LayerDocument ---------------------------
(***************************************************************************)
(* The layer and lighting blocks of a document: keys by name, three layers *)
(* by name, colours by CSS text or theme alias.  export-hcl prints them    *)
(* from the raw buffers of a keyboard; import-hcl checks them, resolves    *)
(* every name and compiles them to buffers again.                          *)
(*                                                                         *)
(* Blocks are functions from their positions in the file (any finite set   *)
(* of numbers), so that "later in the file" can be said.  What an action   *)
(* means is SlotText's matter: here it is the slot value it resolves to.   *)
(***************************************************************************)
EXTENDS Integers, FiniteSets, FiniteSetsExt

CONSTANTS
  NumSlots,     \* slots of the key matrix, which are also the LEDs
  Keys,         \* the model's named keys: name -> slot
  Numbers,      \* texts "slot<digits>" that u16 parses: text -> number
  Numbered,     \* slot -> the text "slot<slot>"
  Values,       \* slot values
  Unbound,      \* the slot value 0
  Keyless,      \* values printed as an empty block or as bare modifiers
  Defaults,     \* factory mappings: layer number -> key name -> slot value
  NoAction,     \* an action that resolve_action refuses: a block without key
  Levels,       \* what an LED may be set to
  Css,          \* texts that parse as a CSS colour: text -> RGB
  Hex,          \* RGB -> the text "#rrggbb"
  NoLimit,      \* brightness or speed not given
  Boards,       \* keyboards as other tools leave them: [matrix, leds]
  Typed         \* documents users write

Slots == 0 .. NumSlots - 1
LayerNumber == [normal |-> 0, fn |-> 1, fn2 |-> 2]
Layers == 0 .. 2
RGB == Levels \X Levels \X Levels
Black == <<0, 0, 0>>
LedBytes == 0 .. 3 * NumSlots - 1

Matrices == [Layers -> [Slots -> Values]]
LedBuffers == [LedBytes -> Levels]

(* Names are unique, and none of them reads "slotN" for another slot.      *)
ASSUME NameAssumption ==
  /\ NumSlots \in Nat \ {0}
  /\ \A k \in DOMAIN Keys : Keys[k] \in Slots
  /\ \A j, k \in DOMAIN Keys : Keys[j] = Keys[k] => j = k
  /\ \A s \in Slots : /\ Numbered[s] \in DOMAIN Numbers /\ Numbers[Numbered[s]] = s
                      /\ Numbered[s] \in DOMAIN Keys => Keys[Numbered[s]] = s
  /\ \A text \in DOMAIN Numbers : Numbers[text] \in Nat

ASSUME ValueAssumption ==
  /\ Unbound \in Keyless /\ Keyless \subseteq Values /\ NoAction \notin Values
  /\ \A l \in Layers : /\ DOMAIN Defaults[l] \subseteq DOMAIN Keys
                       /\ \A k \in DOMAIN Defaults[l] : Defaults[l][k] \in Values
  /\ 0 \in Levels /\ Levels \subseteq Nat
  /\ \A text \in DOMAIN Css : Css[text] \in RGB
  /\ \A rgb \in RGB : Hex[rgb] \in DOMAIN Css /\ Css[Hex[rgb]] = rgb
  /\ Boards \subseteq [matrix : Matrices, leds : LedBuffers]

VARIABLES
  matrix,       \* the keyboard's layers
  leds,         \* its colours, as the planar buffer R.. G.. B..
  document,     \* [theme, layers, lighting]
  source        \* [by, matrix, leds]: who made the document, and the keyboard
                \* it was exported from; by is "nobody", "user", "diff", "full"

vars == <<matrix, leds, document, source>>

-----------------------------------------------------------------------------
(* Names *)

(* name_for_slot and slot_for_name: a key's name, else "slotN".            *)
NameFor(slot) ==
  IF \E k \in DOMAIN Keys : Keys[k] = slot
    THEN CHOOSE k \in DOMAIN Keys : Keys[k] = slot
    ELSE Numbered[slot]

(* Mutant: the last slot is taken for the end.                             *)
InShortFrame(text) == text \in DOMAIN Numbers /\ Numbers[text] < NumSlots - 1
InFrame(text) == text \in DOMAIN Numbers /\ Numbers[text] < NumSlots
Known(name) == name \in DOMAIN Keys \/ InFrame(name)
SlotFor(name) == IF name \in DOMAIN Keys THEN Keys[name] ELSE Numbers[name]

-----------------------------------------------------------------------------
(* The factory's buffers: slots without a default are zero.                *)
FactoryMatrix ==
  [l \in Layers |-> [s \in Slots |->
    IF \E k \in DOMAIN Defaults[l] : Keys[k] = s
      THEN Defaults[l][CHOOSE k \in DOMAIN Defaults[l] : Keys[k] = s]
      ELSE Unbound]]

(* The three bytes of an LED, one in each plane.                           *)
ColorAt(buffer, slot) ==
  <<buffer[slot], buffer[slot + NumSlots], buffer[slot + 2 * NumSlots]>>

-----------------------------------------------------------------------------
(* Documents *)

(* Mutant: no check of the labels.                                         *)
NoCheck(blocks) == TRUE
(* check_duplicate_mapping_labels: by their text, not by their slot.       *)
DistinctLabels(blocks) ==
  \A i, j \in DOMAIN blocks : blocks[i].key = blocks[j].key => i = j

(* Nothing keeps a user from repeating a label or the key of a colour.     *)
IsBlocks(blocks) == DOMAIN blocks \subseteq Nat /\ IsFiniteSet(DOMAIN blocks)
IsDocument(doc) ==
  /\ \A name \in DOMAIN doc.layers : IsBlocks(doc.layers[name])
  /\ IsBlocks(doc.lighting.colors)

ASSUME TypedAssumption == \A doc \in Typed : IsDocument(doc)

Empty == <<>>
NoDocument == [theme |-> Empty, layers |-> Empty, lighting |-> [brightness |-> NoLimit,
               speed |-> NoLimit, colors |-> Empty]]

(* dump and dump_diff: in the order of the slots, those that differ from   *)
(* the baseline (zero for a full export), layers without any left out.     *)
Baseline(full) == IF full THEN [l \in Layers |-> [s \in Slots |-> Unbound]] ELSE FactoryMatrix
Action(value) == IF value \in Keyless THEN NoAction ELSE value
Mappings(buffer, baseline) ==
  [s \in {s \in Slots : buffer[s] # baseline[s]} |->
    [key |-> NameFor(s), action |-> Action(buffer[s])]]

(* dump_lighting: black keys are left out.                                 *)
Colors(buffer) ==
  [s \in {s \in Slots : ColorAt(buffer, s) # Black} |->
    [key |-> NameFor(s), color |-> Hex[ColorAt(buffer, s)]]]

Exported(buffers, lights, full) ==
  LET Blocks(name) == Mappings(buffers[LayerNumber[name]], Baseline(full)[LayerNumber[name]]) IN
  [NoDocument EXCEPT
    !.layers = [n \in {n \in DOMAIN LayerNumber : DOMAIN Blocks(n) # {}} |-> Blocks(n)],
    !.lighting.colors = Colors(lights)]

(* Mutant: an empty block is taken for an action.                          *)
KeysAccepted(layers) ==
  \A name \in DOMAIN layers :
    /\ name \in DOMAIN LayerNumber
    /\ DistinctLabels(layers[name])
    /\ \A i \in DOMAIN layers[name] : Known(layers[name][i].key)
(* validate_layers, validate_lighting.  An alias hides a CSS name.         *)
LayersAccepted(layers) ==
  \A name \in DOMAIN layers :
    /\ name \in DOMAIN LayerNumber
    /\ DistinctLabels(layers[name])
    /\ \A i \in DOMAIN layers[name] :
         Known(layers[name][i].key) /\ layers[name][i].action \in Values

(* RawLighting.colors is a map in the order of its insertions: a key that  *)
(* is repeated keeps its first place, and gets its last colour.            *)
Merged(colors) ==
  LET With(key) == {i \in DOMAIN colors : colors[i].key = key}
      firsts == {i \in DOMAIN colors : \A j \in With(colors[i].key) : i <= j}
  IN  [i \in firsts |-> [key |-> colors[i].key,
                         color |-> colors[Max(With(colors[i].key))].color]]

UpTo(limit, most) == limit \in {NoLimit} \union 0 .. most
LightingAccepted(lighting, theme) ==
  /\ UpTo(lighting.brightness, 100) /\ UpTo(lighting.speed, 255)
  /\ LET colors == Merged(lighting.colors) IN
     \A i \in DOMAIN colors :
       Known(colors[i].key) /\ colors[i].color \in DOMAIN theme \union DOMAIN Css

Accepted(doc) ==
  /\ \A alias \in DOMAIN doc.theme : doc.theme[alias] \in DOMAIN Css
  /\ LayersAccepted(doc.layers)
  /\ LightingAccepted(doc.lighting, doc.theme)

ColorOf(doc, text) == Css[IF text \in DOMAIN doc.theme THEN doc.theme[text] ELSE text]

-----------------------------------------------------------------------------
(* What an accepted document compiles to *)

At(blocks, slot) == {i \in DOMAIN blocks : SlotFor(blocks[i].key) = slot}
(* An IndexMap insert and a byte store replace what is there.              *)
LastAt(blocks, slot) == blocks[Max(At(blocks, slot))]

HasLayers(doc) == \E name \in DOMAIN doc.layers : DOMAIN doc.layers[name] # {}
HasLighting(doc) == DOMAIN doc.lighting.colors # {}

(* layer_slot_maps, patch_buffer: all three layers, the file's mappings on *)
(* the factory's.                                                          *)
BlocksOf(doc, l) ==
  IF \E n \in DOMAIN doc.layers : LayerNumber[n] = l
    THEN doc.layers[CHOOSE n \in DOMAIN doc.layers : LayerNumber[n] = l] ELSE Empty
MatrixTarget(doc) ==
  [l \in Layers |-> [s \in Slots |->
    IF At(BlocksOf(doc, l), s) # {} THEN LastAt(BlocksOf(doc, l), s).action
                                    ELSE FactoryMatrix[l][s]]]

(* Mutant: the colours of an LED next to each other.                       *)
InterleavedTarget(doc) ==
  [i \in LedBytes |->
    LET colors == Merged(doc.lighting.colors)
        slot == i \div 3
    IN  IF At(colors, slot) # {}
          THEN ColorOf(doc, LastAt(colors, slot).color)[(i % 3) + 1] ELSE 0]
(* compile_lighting: colour c of slot s is byte s + c * NumSlots; what the *)
(* file does not mention is zero.                                          *)
LedTarget(doc) ==
  [i \in LedBytes |->
    LET colors == Merged(doc.lighting.colors)
        slot == i % NumSlots
    IN  IF At(colors, slot) # {}
          THEN ColorOf(doc, LastAt(colors, slot).color)[(i \div NumSlots) + 1] ELSE 0]

-----------------------------------------------------------------------------
Nobody == [by |-> "nobody", matrix |-> FactoryMatrix, leds |-> [i \in LedBytes |-> 0]]

Init ==
  /\ \E b \in Boards : matrix = b.matrix /\ leds = b.leds
  /\ document = NoDocument
  /\ source = Nobody

(* Another configurator, a factory reset.                                  *)
Reconfigure ==
  /\ \E b \in Boards : matrix' = b.matrix /\ leds' = b.leds
  /\ UNCHANGED <<document, source>>

Export(full) ==
  /\ document' = Exported(matrix, leds, full)
  /\ source' = [by |-> IF full THEN "full" ELSE "diff", matrix |-> matrix, leds |-> leds]
  /\ UNCHANGED <<matrix, leds>>

Write ==
  /\ document' \in Typed
  /\ source' = [Nobody EXCEPT !.by = "user"]
  /\ UNCHANGED <<matrix, leds>>

(* A refused document changes nothing; a part without any entry is not     *)
(* looked at.                                                              *)
Import ==
  /\ source.by # "nobody" /\ Accepted(document)
  /\ matrix' = IF HasLayers(document) THEN MatrixTarget(document) ELSE matrix
  /\ leds' = IF HasLighting(document) THEN LedTarget(document) ELSE leds
  /\ UNCHANGED <<document, source>>

Next == Reconfigure \/ (\E full \in BOOLEAN : Export(full)) \/ Write \/ Import

Spec == Init /\ [][Next]_vars

-----------------------------------------------------------------------------
(* Properties *)

(* Every variable has its type: what an accepted document compiles to is a *)
(* matrix and an LED buffer.                                               *)
TypeOK ==
  /\ matrix \in Matrices
  /\ leds \in LedBuffers
  /\ IsDocument(document)
  /\ source.by \in {"nobody", "user", "diff", "full"}
  /\ source.matrix \in Matrices /\ source.leds \in LedBuffers

FromExport == source.by \in {"diff", "full"}

(* Whatever happens to the keyboard after an export, if the exported       *)
(* document is accepted it compiles, in each part that it has, to the      *)
(* buffers it was printed from, names and colours read back slot by slot.  *)
(* The one exception is an unbound key in a full export, which is left out *)
(* and becomes the factory's.                                              *)
ExportCompilesBack ==
  FromExport /\ Accepted(document) =>
    /\ HasLayers(document) => \A l \in Layers, s \in Slots :
         \/ MatrixTarget(document)[l][s] = source.matrix[l][s]
         \/ /\ source.by = "full" /\ source.matrix[l][s] = Unbound
            /\ MatrixTarget(document)[l][s] = FactoryMatrix[l][s]
    /\ HasLighting(document) => LedTarget(document) = source.leds

(* An export is refused only because of a key without key code that the    *)
(* baseline has otherwise, and a part is missing from it only if the       *)
(* keyboard is there as the baseline: the factory's layers (nothing bound  *)
(* at all, for a full export), no key lit.                                 *)
ExportIsComplete ==
  FromExport =>
    /\ Accepted(document) \/ \E l \in Layers, s \in Slots :
         /\ source.matrix[l][s] \in Keyless
         /\ source.matrix[l][s] # Baseline(source.by = "full")[l][s]
    /\ HasLayers(document) \/ source.matrix = Baseline(source.by = "full")
    /\ HasLighting(document) \/ \A i \in LedBytes : source.leds[i] = 0

(* The header of every export says that a duplicate mapping label is an    *)
(* error and not a silent overwrite.  In an accepted document a mapping is *)
(* without effect only if a later one names its slot by another text.      *)
(*                                                                         *)
(* For colours there is no such check.  One is without effect only if a    *)
(* later one names its slot, by its own text or another; or if its text    *)
(* stands before an entry that names the slot by another text, for then    *)
(* the repetition counts as the first of them and that entry as the later. *)
OverwrittenByAlias(blocks, i) ==
  \E j \in DOMAIN blocks : /\ j > i /\ blocks[j].key # blocks[i].key
                           /\ SlotFor(blocks[j].key) = SlotFor(blocks[i].key)
Repeated(colors, i) ==
  \E j \in DOMAIN colors : j > i /\ colors[j].key = colors[i].key
HiddenByAlias(colors, i) ==
  \E h, j \in DOMAIN colors :
    /\ h < j /\ j < i
    /\ colors[h].key = colors[i].key /\ colors[j].key # colors[i].key
    /\ SlotFor(colors[j].key) = SlotFor(colors[i].key)
OnlyNamesakesOverwrite ==
  Accepted(document) =>
    /\ \A n \in DOMAIN document.layers : LET blocks == document.layers[n] IN
         \A i \in DOMAIN blocks :
           \/ OverwrittenByAlias(blocks, i)
           \/ MatrixTarget(document)[LayerNumber[n]][SlotFor(blocks[i].key)] = blocks[i].action
    /\ LET colors == document.lighting.colors IN
         \A i \in DOMAIN colors :
           \/ OverwrittenByAlias(colors, i) \/ Repeated(colors, i) \/ HiddenByAlias(colors, i)
           \/ ColorAt(LedTarget(document), SlotFor(colors[i].key)) = ColorOf(document, colors[i].color)
=============================================================================
