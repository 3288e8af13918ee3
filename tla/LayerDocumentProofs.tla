------------------------ MODULE LayerDocumentProofs ------------------------
(***************************************************************************)
(* Proofs about the layer and lighting blocks, for keyboards of any size,  *)
(* any names, factory table and colours, and documents of any length.      *)
(*                                                                         *)
(* That a slot's text leads back to the slot (NameLeadsBack) and that a    *)
(* byte of the colour buffer is one plane of one LED (Planes) carry the    *)
(* argument; the last block for a slot is found by MaxIsIn, and where a    *)
(* repeated key ends up by MergedColors.                                   *)
(***************************************************************************)
EXTENDS LayerDocument, FiniteSetTheorems, TLAPS

-----------------------------------------------------------------------------
(* Positions *)

(* Of the non-empty subsets without a largest element take a smallest one: *)
(* without one of its elements it has a largest.                           *)
LEMMA LargestExists ==
  ASSUME NEW S, S \subseteq Nat, IsFiniteSet(S), S # {}
  PROVE  \E x \in S : \A y \in S : x >= y
<1> DEFINE Has(T) == \E x \in T : \A y \in T : x >= y
           Bad == {T \in SUBSET S : T # {} /\ ~Has(T)}
<1>1. SUFFICES ASSUME ~Has(S) PROVE FALSE
  OBVIOUS
<1>2. S \in Bad
  BY <1>1
<1>3. Bad \subseteq FiniteSubsetsOf(S)
  BY FS_FiniteSubsetsOfFinite
<1>4. PICK T \in Bad : \A U \in Bad : <<U, T>> \notin StrictSubsetOrdering(S)
  <2> DEFINE F == FiniteSubsetsOf(S)
             R == StrictSubsetOrdering(S)
  <2>1. IsWellFoundedOn(R, F)
    BY FS_StrictSubsetOrderingWellFounded
  <2> HIDE DEF F, R, Bad
  <2>2. Bad # {} /\ Bad \subseteq F
    BY <1>2, <1>3 DEF F
  <2>3. \E T \in Bad : \A U \in Bad : ~(<<U, T>> \in R)
    BY <2>1, <2>2, WFMin
  <2> QED BY <2>3 DEF R
<1>5. PICK x \in T : TRUE
  BY <1>4
<1>6. T \ {x} \notin Bad
  BY <1>4, <1>5 DEF StrictSubsetOrdering
<1>7. T \subseteq Nat /\ T # {} /\ ~Has(T)
  BY <1>4
<1>8. CASE T \ {x} = {}
  BY <1>5, <1>7, <1>8
<1>9. CASE T \ {x} # {}
  <2>1. Has(T \ {x})
    BY <1>4, <1>6, <1>9
  <2>2. PICK z \in T \ {x} : \A y \in T \ {x} : z >= y
    BY <2>1
  <2>3. CASE z >= x
    BY <1>7, <2>2, <2>3
  <2>4. CASE x >= z
    BY <1>5, <1>7, <2>2, <2>4
  <2> QED BY <1>5, <1>7, <2>2, <2>3, <2>4
<1> QED BY <1>8, <1>9

LEMMA MaxIsIn ==
  ASSUME NEW S, S \subseteq Nat, IsFiniteSet(S), S # {}
  PROVE  Max(S) \in S /\ \A y \in S : Max(S) >= y
BY LargestExists DEF Max

LEMMA SmallestExists ==
  ASSUME NEW S, S \subseteq Nat, S # {}
  PROVE  \E x \in S : \A y \in S : x <= y
<1>1. PICK n \in S : n \in Nat
  OBVIOUS
<1> DEFINE Gaps == {n - x : x \in {y \in S : y <= n}}
<1>2. Gaps \subseteq 0 .. n /\ n - n \in Gaps
  BY <1>1
<1>3. Gaps \subseteq Nat /\ Gaps # {} /\ IsFiniteSet(Gaps)
  <2>1. 0 \in Int /\ n \in Int
    BY <1>1
  <2>2. IsFiniteSet(0 .. n)
    BY <2>1, FS_Interval
  <2> HIDE DEF Gaps
  <2>3. IsFiniteSet(Gaps)
    BY <1>2, <2>2, FS_Subset
  <2> QED BY <1>2, <2>3
<1>4. PICK g \in Gaps : \A h \in Gaps : g >= h
  BY <1>3, LargestExists
<1>5. PICK x \in S : x <= n /\ g = n - x
  BY <1>4
<1>6. ASSUME NEW y \in S PROVE x <= y
  <2>1. n \in Nat /\ x \in Nat /\ y \in Nat
    BY <1>1
  <2>2. CASE y <= n
    <3>1. n - y \in Gaps
      BY <2>2
    <3>2. n - x >= n - y
      BY <1>4, <1>5, <3>1
    <3> HIDE DEF Gaps
    <3> QED BY <2>1, <3>2
  <2>3. CASE y > n
    BY <1>5, <2>1, <2>3
  <2> QED BY <2>1, <2>2, <2>3
<1> QED BY <1>6

LEMMA LastBlock ==
  ASSUME NEW blocks, IsBlocks(blocks), NEW slot, At(blocks, slot) # {}
  PROVE  /\ Max(At(blocks, slot)) \in At(blocks, slot)
         /\ \A i \in At(blocks, slot) : Max(At(blocks, slot)) >= i
<1>1. At(blocks, slot) \subseteq DOMAIN blocks
  BY DEF At
<1>2. At(blocks, slot) \subseteq Nat /\ IsFiniteSet(At(blocks, slot))
  BY <1>1, FS_Subset DEF IsBlocks
<1> QED BY <1>2, MaxIsIn

(* Every key of a list of colours is in the map once, where it is first,   *)
(* and with the colour it has last.                                        *)
LEMMA MergedColors ==
  ASSUME NEW colors, IsBlocks(colors)
  PROVE  /\ IsBlocks(Merged(colors)) /\ DistinctLabels(Merged(colors))
         /\ DOMAIN Merged(colors) \subseteq DOMAIN colors
         /\ \A i \in DOMAIN Merged(colors) : Merged(colors)[i].key = colors[i].key
         /\ \A i \in DOMAIN colors : \E h \in DOMAIN Merged(colors) :
              /\ h <= i /\ colors[h].key = colors[i].key
              /\ ~Repeated(colors, i) => Merged(colors)[h].color = colors[i].color
<1> DEFINE With(key) == {i \in DOMAIN colors : colors[i].key = key}
           map == Merged(colors)
<1>1. /\ DOMAIN map = {i \in DOMAIN colors : \A j \in With(colors[i].key) : i <= j}
      /\ \A i \in DOMAIN map : /\ map[i].key = colors[i].key
                              /\ map[i].color = colors[Max(With(colors[i].key))].color
  BY DEF Merged
<1>2. ASSUME NEW key PROVE With(key) \subseteq Nat /\ IsFiniteSet(With(key))
  BY FS_Subset DEF IsBlocks
<1> HIDE DEF map
<1>3. DOMAIN map \subseteq DOMAIN colors /\ IsBlocks(map)
  BY <1>1, FS_Subset DEF IsBlocks
<1>4. DistinctLabels(map)
  <2> SUFFICES ASSUME NEW i \in DOMAIN map, NEW j \in DOMAIN map, map[i].key = map[j].key
               PROVE  i = j
    BY DEF DistinctLabels
  <2>1. i \in With(colors[j].key) /\ j \in With(colors[i].key)
    BY <1>1
  <2>2. i \in Nat /\ j \in Nat
    BY <1>3 DEF IsBlocks
  <2> QED BY <1>1, <2>1, <2>2
<1>5. ASSUME NEW i \in DOMAIN colors
      PROVE  \E h \in DOMAIN map :
               /\ h <= i /\ colors[h].key = colors[i].key
               /\ ~Repeated(colors, i) => map[h].color = colors[i].color
  <2> DEFINE namesakes == With(colors[i].key)
             last == Max(namesakes)
  <2>1. i \in namesakes /\ namesakes # {}
    OBVIOUS
  <2>2. PICK h \in namesakes : \A j \in namesakes : h <= j
    BY <1>2, <2>1, SmallestExists
  <2>3. h \in DOMAIN map /\ h <= i /\ colors[h].key = colors[i].key
    BY <1>1, <2>1, <2>2
  <2>4. ASSUME ~Repeated(colors, i) PROVE last = i
    <3>1. last \in namesakes /\ last >= i
      BY <1>2, <2>1, MaxIsIn
    <3> HIDE DEF last
    <3>2. last \in DOMAIN colors /\ colors[last].key = colors[i].key /\ last \in Nat /\ i \in Nat
      BY <1>2, <2>1, <3>1
    <3> QED BY <2>4, <3>1, <3>2 DEF Repeated
  <2>5. map[h].color = colors[last].color
    BY <1>1, <2>3
  <2> QED BY <2>3, <2>4, <2>5
<1> QED BY <1>1, <1>3, <1>4, <1>5 DEF map

(* Keys that do not repeat are left alone.                                 *)
LEMMA MergedDistinct ==
  ASSUME NEW colors, IsBlocks(colors), DistinctLabels(colors),
         colors = [i \in DOMAIN colors |-> [key |-> colors[i].key, color |-> colors[i].color]]
  PROVE  Merged(colors) = colors
<1> DEFINE With(key) == {i \in DOMAIN colors : colors[i].key = key}
<1>1. ASSUME NEW i \in DOMAIN colors PROVE With(colors[i].key) = {i} /\ Max({i}) = i
  <2>1. With(colors[i].key) = {i}
    BY DEF DistinctLabels
  <2>2. Max({i}) \in {i}
    BY FS_Singleton, MaxIsIn DEF IsBlocks
  <2> QED BY <2>1, <2>2
<1>2. {i \in DOMAIN colors : \A j \in With(colors[i].key) : i <= j} = DOMAIN colors
  <2>1. ASSUME NEW i \in DOMAIN colors PROVE \A j \in With(colors[i].key) : i <= j
    <3>1. i \in Nat /\ With(colors[i].key) = {i}
      BY <1>1 DEF IsBlocks
    <3> QED BY <3>1
  <2> QED BY <2>1
<1>3. Merged(colors) =
        [i \in DOMAIN colors |-> [key |-> colors[i].key, color |-> colors[i].color]]
  BY <1>1, <1>2 DEF Merged
<1> QED BY <1>3

-----------------------------------------------------------------------------
(* Slots and colours *)

(* A slot's text is known and leads back to it.                            *)
LEMMA NameLeadsBack ==
  ASSUME NEW s \in Slots
  PROVE  Known(NameFor(s)) /\ SlotFor(NameFor(s)) = s
<1>1. CASE \E k \in DOMAIN Keys : Keys[k] = s
  BY <1>1 DEF Known, NameFor, SlotFor
<1>2. CASE ~ \E k \in DOMAIN Keys : Keys[k] = s
  <2>1. NameFor(s) = Numbered[s] /\ Numbered[s] \notin DOMAIN Keys
    BY <1>2, NameAssumption DEF NameFor
  <2>2. Numbered[s] \in DOMAIN Numbers /\ Numbers[Numbered[s]] = s /\ s < NumSlots
    BY NameAssumption DEF Slots
  <2> QED BY <2>1, <2>2 DEF Known, InFrame, SlotFor
<1> QED BY <1>1, <1>2

LEMMA KnownSlot ==
  ASSUME NEW name, Known(name)
  PROVE  SlotFor(name) \in Slots
<1>1. CASE name \in DOMAIN Keys
  BY <1>1, NameAssumption DEF SlotFor
<1>2. CASE name \notin DOMAIN Keys
  BY <1>2, NameAssumption DEF Known, InFrame, SlotFor, Slots
<1> QED BY <1>1, <1>2

LEMMA FactoryType == FactoryMatrix \in Matrices
<1>1. Unbound \in Values
  BY ValueAssumption
<1>2. ASSUME NEW l \in Layers, NEW k \in DOMAIN Defaults[l] PROVE Defaults[l][k] \in Values
  BY <1>2, ValueAssumption
<1> QED BY <1>1, <1>2 DEF FactoryMatrix, Matrices

(* Byte i of the planar buffer is plane i \div NumSlots of LED             *)
(* i % NumSlots.                                                           *)
LEMMA Planes ==
  ASSUME NEW i \in LedBytes
  PROVE  /\ i % NumSlots \in Slots
         /\ i \div NumSlots \in 0 .. 2
         /\ i \div NumSlots = 0 => i = i % NumSlots
         /\ i \div NumSlots = 1 => i = (i % NumSlots) + NumSlots
         /\ i \div NumSlots = 2 => i = (i % NumSlots) + 2 * NumSlots
<1> DEFINE q == i \div NumSlots
           r == i % NumSlots
<1>1. NumSlots \in Nat \ {0} /\ i \in Nat /\ i < 3 * NumSlots
  BY NameAssumption DEF LedBytes
<1>2. q \in Nat /\ r \in Nat /\ r < NumSlots /\ i = (NumSlots * q) + r
  BY <1>1
<1> HIDE DEF q, r
<1>3. ~(q >= 3)
  <2> SUFFICES ASSUME q >= 3 PROVE FALSE
    OBVIOUS
  <2>1. PICK d \in Nat : q = 3 + d
    <3>1. q - 3 \in Nat /\ q = 3 + (q - 3)
      BY <1>2
    <3> QED BY <3>1
  <2>2. NumSlots * q = 3 * NumSlots + NumSlots * d
    BY <1>1, <2>1
  <2>3. NumSlots * d \in Nat
    BY <1>1, <2>1
  <2> QED BY <1>1, <1>2, <2>2, <2>3
<1>4. q \in 0 .. 2 /\ r \in Slots
  BY <1>1, <1>2, <1>3 DEF Slots
<1>5. /\ q = 0 => i = r
      /\ q = 1 => i = r + NumSlots
      /\ q = 2 => i = r + 2 * NumSlots
  BY <1>1, <1>2
<1> QED BY <1>4, <1>5 DEF q, r

(* And the three bytes of an LED are in its three planes.                  *)
LEMMA PlanesOfLed ==
  ASSUME NEW s \in Slots
  PROVE  /\ s \in LedBytes /\ s + NumSlots \in LedBytes /\ s + 2 * NumSlots \in LedBytes
         /\ s % NumSlots = s /\ s \div NumSlots = 0
         /\ (s + NumSlots) % NumSlots = s /\ (s + NumSlots) \div NumSlots = 1
         /\ (s + 2 * NumSlots) % NumSlots = s /\ (s + 2 * NumSlots) \div NumSlots = 2
<1>1. NumSlots \in Nat \ {0} /\ s \in Nat /\ s < NumSlots
  BY NameAssumption DEF Slots
<1>2. s \in LedBytes /\ s + NumSlots \in LedBytes /\ s + 2 * NumSlots \in LedBytes
  BY <1>1 DEF LedBytes
<1>3. ASSUME NEW i \in LedBytes, NEW d \in 0 .. 2,
             d = 0 => i = s, d = 1 => i = s + NumSlots, d = 2 => i = s + 2 * NumSlots
      PROVE  i % NumSlots = s /\ i \div NumSlots = d
  <2> DEFINE r == i % NumSlots
             q == i \div NumSlots
  <2>1. /\ r \in Nat /\ r < NumSlots /\ q \in 0 .. 2
        /\ q = 0 => i = r
        /\ q = 1 => i = r + NumSlots
        /\ q = 2 => i = r + 2 * NumSlots
    BY <1>1, Planes DEF Slots
  <2> HIDE DEF r, q
  <2>2. r = s /\ q = d
    BY <1>1, <1>3, <2>1
  <2> QED BY <2>2 DEF r, q
<1>4. s % NumSlots = s /\ s \div NumSlots = 0
  BY <1>2, <1>3
<1>5. (s + NumSlots) % NumSlots = s /\ (s + NumSlots) \div NumSlots = 1
  BY <1>2, <1>3
<1>6. (s + 2 * NumSlots) % NumSlots = s /\ (s + 2 * NumSlots) \div NumSlots = 2
  BY <1>2, <1>3
<1> QED BY <1>2, <1>4, <1>5, <1>6

LEMMA ColorType ==
  ASSUME NEW buffer \in LedBuffers, NEW s \in Slots
  PROVE  ColorAt(buffer, s) \in RGB
<1>1. s \in LedBytes /\ s + NumSlots \in LedBytes /\ s + 2 * NumSlots \in LedBytes
  BY NameAssumption DEF Slots, LedBytes
<1> QED BY <1>1 DEF ColorAt, RGB, LedBuffers

(* What a plane of an LED's colour is in the buffer.                       *)
LEMMA PlaneOfColor ==
  ASSUME NEW buffer \in LedBuffers, NEW i \in LedBytes
  PROVE  ColorAt(buffer, i % NumSlots)[(i \div NumSlots) + 1] = buffer[i]
<1>1. CASE i \div NumSlots = 0
  BY <1>1, Planes DEF ColorAt
<1>2. CASE i \div NumSlots = 1
  BY <1>2, Planes DEF ColorAt
<1>3. CASE i \div NumSlots = 2
  BY <1>3, Planes DEF ColorAt
<1> QED BY <1>1, <1>2, <1>3, Planes

-----------------------------------------------------------------------------
(* Documents *)

LEMMA EmptyHasNone == DOMAIN Empty = {} /\ IsBlocks(Empty) /\ \A slot : At(Empty, slot) = {}
<1>1. DOMAIN Empty = {}
  BY DEF Empty
<1> QED BY <1>1, FS_EmptySet DEF IsBlocks, At

LEMMA LayersNamed ==
  /\ DOMAIN LayerNumber = {"normal", "fn", "fn2"}
  /\ \A n \in DOMAIN LayerNumber : LayerNumber[n] \in Layers
  /\ \A m, n \in DOMAIN LayerNumber : LayerNumber[m] = LayerNumber[n] => m = n
  /\ \A l \in Layers : \E n \in DOMAIN LayerNumber : LayerNumber[n] = l
BY DEF LayerNumber, Layers

LEMMA LayerOfDocument ==
  ASSUME NEW doc, DOMAIN doc.layers \subseteq DOMAIN LayerNumber,
         NEW n \in DOMAIN doc.layers
  PROVE  BlocksOf(doc, LayerNumber[n]) = doc.layers[n]
BY LayersNamed DEF BlocksOf

(* A layer of an accepted document, mentioned or not.                      *)
LEMMA AcceptedLayer ==
  ASSUME NEW doc, IsDocument(doc), Accepted(doc), NEW l \in Layers
  PROVE  /\ IsBlocks(BlocksOf(doc, l)) /\ DistinctLabels(BlocksOf(doc, l))
         /\ \A i \in DOMAIN BlocksOf(doc, l) :
              /\ Known(BlocksOf(doc, l)[i].key)
              /\ BlocksOf(doc, l)[i].action \in Values
<1>1. CASE \E n \in DOMAIN doc.layers : LayerNumber[n] = l
  BY <1>1 DEF BlocksOf, IsDocument, Accepted, LayersAccepted
<1>2. CASE ~ \E n \in DOMAIN doc.layers : LayerNumber[n] = l
  <2>1. BlocksOf(doc, l) = Empty
    BY <1>2 DEF BlocksOf
  <2> QED BY <2>1, EmptyHasNone DEF DistinctLabels
<1> QED BY <1>1, <1>2

LEMMA MatrixTargetType ==
  ASSUME NEW doc, IsDocument(doc), Accepted(doc)
  PROVE  MatrixTarget(doc) \in Matrices
<1>1. ASSUME NEW l \in Layers, NEW s \in Slots, At(BlocksOf(doc, l), s) # {}
      PROVE  LastAt(BlocksOf(doc, l), s).action \in Values
  <2>1. Max(At(BlocksOf(doc, l), s)) \in DOMAIN BlocksOf(doc, l)
    BY <1>1, AcceptedLayer, LastBlock DEF At
  <2> QED BY <2>1, AcceptedLayer DEF LastAt
<1>2. ASSUME NEW l \in Layers, NEW s \in Slots PROVE FactoryMatrix[l][s] \in Values
  BY FactoryType DEF Matrices
<1> QED BY <1>1, <1>2 DEF MatrixTarget, Matrices

LEMMA ColorOfType ==
  ASSUME NEW doc, Accepted(doc), NEW i \in DOMAIN Merged(doc.lighting.colors)
  PROVE  ColorOf(doc, Merged(doc.lighting.colors)[i].color) \in RGB
BY ValueAssumption DEF Accepted, LightingAccepted, ColorOf

LEMMA LedTargetType ==
  ASSUME NEW doc, IsDocument(doc), Accepted(doc)
  PROVE  LedTarget(doc) \in LedBuffers
<1> DEFINE colors == Merged(doc.lighting.colors)
<1>1. ASSUME NEW i \in LedBytes, At(colors, i % NumSlots) # {}
      PROVE  ColorOf(doc, LastAt(colors, i % NumSlots).color)[(i \div NumSlots) + 1] \in Levels
  <2>1. Max(At(colors, i % NumSlots)) \in DOMAIN colors
    <3>1. IsBlocks(colors)
      BY MergedColors DEF IsDocument
    <3> HIDE DEF colors
    <3> QED BY <1>1, <3>1, LastBlock DEF At
  <2>2. ColorOf(doc, LastAt(colors, i % NumSlots).color) \in RGB
    BY <2>1, ColorOfType DEF LastAt
  <2>3. ASSUME NEW rgb \in RGB, NEW q \in 0 .. 2 PROVE rgb[q + 1] \in Levels
    BY <2>3 DEF RGB
  <2>4. i \div NumSlots \in 0 .. 2
    BY Planes
  <2> QED BY <2>2, <2>3, <2>4
<1> QED BY <1>1, ValueAssumption DEF LedTarget, LedBuffers

-----------------------------------------------------------------------------
(* Exported documents *)

LEMMA ExportedFields ==
  ASSUME NEW buffers, NEW lights, NEW full
  PROVE  LET doc == Exported(buffers, lights, full)
             Blocks(n) == Mappings(buffers[LayerNumber[n]], Baseline(full)[LayerNumber[n]])
         IN  /\ doc.theme = Empty
             /\ doc.lighting.brightness = NoLimit /\ doc.lighting.speed = NoLimit
             /\ doc.lighting.colors = Colors(lights)
             /\ DOMAIN doc.layers = {n \in DOMAIN LayerNumber : DOMAIN Blocks(n) # {}}
             /\ \A n \in DOMAIN doc.layers : doc.layers[n] = Blocks(n)
BY DEF Exported, NoDocument

(* Blocks that are positioned by their slot.                               *)
LEMMA SlotBlocks ==
  ASSUME NEW blocks, DOMAIN blocks \subseteq Slots,
         \A s \in DOMAIN blocks : blocks[s].key = NameFor(s)
  PROVE  /\ IsBlocks(blocks) /\ DistinctLabels(blocks)
         /\ \A s \in Slots : At(blocks, s) = IF s \in DOMAIN blocks THEN {s} ELSE {}
         /\ \A s \in DOMAIN blocks : LastAt(blocks, s) = blocks[s]
<1>1. Slots \subseteq Nat /\ IsFiniteSet(Slots)
  <2>1. 0 \in Int /\ NumSlots - 1 \in Int
    BY NameAssumption
  <2> QED BY <2>1, FS_Interval DEF Slots
<1>2. IsBlocks(blocks)
  BY <1>1, FS_Subset DEF IsBlocks
<1>3. \A s \in DOMAIN blocks : SlotFor(blocks[s].key) = s
  BY NameLeadsBack
<1>4. DistinctLabels(blocks)
  BY <1>3 DEF DistinctLabels
<1>5. \A s \in Slots : At(blocks, s) = IF s \in DOMAIN blocks THEN {s} ELSE {}
  BY <1>3 DEF At
<1>6. ASSUME NEW s \in DOMAIN blocks PROVE LastAt(blocks, s) = blocks[s]
  <2>1. At(blocks, s) = {s}
    BY <1>5
  <2>2. Max(At(blocks, s)) \in At(blocks, s)
    BY <1>2, <2>1, LastBlock
  <2> QED BY <2>1, <2>2 DEF LastAt
<1> QED BY <1>2, <1>4, <1>5, <1>6

LEMMA ColorBlocks ==
  ASSUME NEW buffer
  PROVE  LET blocks == Colors(buffer)
         IN  /\ DOMAIN blocks = {s \in Slots : ColorAt(buffer, s) # Black}
             /\ \A s \in DOMAIN blocks : /\ blocks[s].key = NameFor(s)
                                         /\ blocks[s].color = Hex[ColorAt(buffer, s)]
BY DEF Colors

(* An export names every key once.                                         *)
LEMMA ExportedColors ==
  ASSUME NEW buffer
  PROVE  Merged(Colors(buffer)) = Colors(buffer)
<1>1. IsBlocks(Colors(buffer)) /\ DistinctLabels(Colors(buffer))
  BY ColorBlocks, SlotBlocks
<1>2. Colors(buffer) =
        [i \in DOMAIN Colors(buffer) |->
          [key |-> Colors(buffer)[i].key, color |-> Colors(buffer)[i].color]]
  BY DEF Colors
<1> QED BY <1>1, <1>2, MergedDistinct

LEMMA ExportedIsDocument ==
  ASSUME NEW buffers, NEW lights, NEW full
  PROVE  IsDocument(Exported(buffers, lights, full))
<1> DEFINE doc == Exported(buffers, lights, full)
<1>1. ASSUME NEW n \in DOMAIN doc.layers PROVE IsBlocks(doc.layers[n])
  <2> DEFINE mappings == Mappings(buffers[LayerNumber[n]], Baseline(full)[LayerNumber[n]])
  <2>1. doc.layers[n] = mappings
    BY ExportedFields
  <2>2. /\ DOMAIN mappings \subseteq Slots
        /\ \A s \in DOMAIN mappings : mappings[s].key = NameFor(s)
    BY DEF Mappings
  <2> HIDE DEF mappings
  <2>3. IsBlocks(mappings)
    BY <2>2, SlotBlocks
  <2> QED BY <2>1, <2>3
<1>2. IsBlocks(doc.lighting.colors)
  <2>1. doc.lighting.colors = Colors(lights)
    BY ExportedFields
  <2> QED BY <2>1, ColorBlocks, SlotBlocks
<1> QED BY <1>1, <1>2 DEF IsDocument

(* A layer of an exported document, printed or left out.                   *)
LEMMA ExportedLayer ==
  ASSUME NEW buffers, NEW lights, NEW full, NEW l \in Layers, NEW s \in Slots
  PROVE  LET blocks == BlocksOf(Exported(buffers, lights, full), l)
             base == Baseline(full)
         IN  /\ At(blocks, s) # {} <=> buffers[l][s] # base[l][s]
             /\ buffers[l][s] # base[l][s] =>
                  s \in DOMAIN blocks /\ LastAt(blocks, s).action = Action(buffers[l][s])
<1> DEFINE doc == Exported(buffers, lights, full)
           base == Baseline(full)
           mappings == Mappings(buffers[l], base[l])
<1>1. /\ DOMAIN mappings = {t \in Slots : buffers[l][t] # base[l][t]}
      /\ \A t \in DOMAIN mappings : /\ mappings[t].key = NameFor(t)
                                    /\ mappings[t].action = Action(buffers[l][t])
  BY DEF Mappings
<1>2. PICK n \in DOMAIN LayerNumber : LayerNumber[n] = l
  BY LayersNamed
<1>3. DOMAIN doc.layers \subseteq DOMAIN LayerNumber
  BY ExportedFields
<1>4. CASE DOMAIN mappings # {}
  <2>1. n \in DOMAIN doc.layers /\ doc.layers[n] = mappings
    BY <1>2, <1>4, ExportedFields
  <2>2. BlocksOf(doc, l) = mappings
    BY <1>2, <1>3, <2>1, LayerOfDocument
  <2> HIDE DEF doc, mappings, base
  <2>3. At(mappings, s) = IF s \in DOMAIN mappings THEN {s} ELSE {}
    BY <1>1, SlotBlocks
  <2>4. s \in DOMAIN mappings => LastAt(mappings, s) = mappings[s]
    BY <1>1, SlotBlocks
  <2> QED BY <1>1, <2>2, <2>3, <2>4 DEF doc, base
<1>5. CASE DOMAIN mappings = {}
  <2>1. n \notin DOMAIN doc.layers
    BY <1>2, <1>5, ExportedFields
  <2>2. BlocksOf(doc, l) = Empty
    BY <1>2, <1>3, <2>1, LayersNamed DEF BlocksOf
  <2> QED BY <1>1, <1>5, <2>2, EmptyHasNone
<1> QED BY <1>4, <1>5

(* A key of an accepted export compiles to the value it was printed from,  *)
(* or, left out of it, to the factory's.                                   *)
LEMMA KeyCompilesBack ==
  ASSUME NEW buffers \in Matrices, NEW lights, NEW full,
         Accepted(Exported(buffers, lights, full)),
         NEW l \in Layers, NEW s \in Slots
  PROVE  MatrixTarget(Exported(buffers, lights, full))[l][s] =
           IF buffers[l][s] # Baseline(full)[l][s] THEN buffers[l][s] ELSE FactoryMatrix[l][s]
<1> DEFINE doc == Exported(buffers, lights, full)
           blocks == BlocksOf(doc, l)
<1>1. /\ At(blocks, s) # {} <=> buffers[l][s] # Baseline(full)[l][s]
      /\ buffers[l][s] # Baseline(full)[l][s] =>
           s \in DOMAIN blocks /\ LastAt(blocks, s).action = Action(buffers[l][s])
  BY ExportedLayer
<1>2. MatrixTarget(doc)[l][s] =
        IF At(blocks, s) # {} THEN LastAt(blocks, s).action ELSE FactoryMatrix[l][s]
  BY DEF MatrixTarget
<1>3. At(blocks, s) # {} => LastAt(blocks, s).action \in Values
  <2>1. SUFFICES ASSUME At(blocks, s) # {} PROVE LastAt(blocks, s).action \in Values
    OBVIOUS
  <2>2. /\ IsBlocks(blocks)
        /\ \A i \in DOMAIN blocks : blocks[i].action \in Values
    BY AcceptedLayer, ExportedIsDocument
  <2> HIDE DEF blocks
  <2>3. Max(At(blocks, s)) \in DOMAIN blocks
    BY <2>1, <2>2, LastBlock DEF At
  <2> QED BY <2>2, <2>3 DEF LastAt
<1>4. Action(buffers[l][s]) \in Values => Action(buffers[l][s]) = buffers[l][s]
  BY ValueAssumption DEF Action
<1> QED BY <1>1, <1>2, <1>3, <1>4

LEMMA LedsCompileBack ==
  ASSUME NEW buffers, NEW lights \in LedBuffers, NEW full
  PROVE  LedTarget(Exported(buffers, lights, full)) = lights
<1> DEFINE doc == Exported(buffers, lights, full)
           colors == Colors(lights)
<1>1. Merged(doc.lighting.colors) = colors /\ doc.theme = Empty
  BY ExportedFields, ExportedColors
<1>2. ASSUME NEW i \in LedBytes PROVE LedTarget(doc)[i] = lights[i]
  <2> DEFINE s == i % NumSlots
             q == i \div NumSlots
             rgb == ColorAt(lights, s)
  <2>1. s \in Slots /\ q \in 0 .. 2
    BY Planes
  <2>2. rgb \in RGB /\ rgb[q + 1] = lights[i]
    BY <2>1, ColorType, PlaneOfColor
  <2>3. LedTarget(doc)[i] =
          IF At(colors, s) # {} THEN ColorOf(doc, LastAt(colors, s).color)[q + 1] ELSE 0
    BY <1>1 DEF LedTarget
  <2>4. /\ DOMAIN colors = {t \in Slots : ColorAt(lights, t) # Black}
        /\ \A t \in DOMAIN colors : /\ colors[t].key = NameFor(t)
                                    /\ colors[t].color = Hex[ColorAt(lights, t)]
    BY ColorBlocks
  <2> HIDE DEF colors, s, q, doc
  <2>5. At(colors, s) = IF s \in DOMAIN colors THEN {s} ELSE {}
    BY <2>1, <2>4, SlotBlocks
  <2>6. CASE rgb # Black
    <3>1. LastAt(colors, s).color = Hex[rgb]
      BY <2>1, <2>4, <2>6, SlotBlocks
    <3>2. ColorOf(doc, Hex[rgb]) = rgb
      BY <1>1, <2>2, EmptyHasNone, ValueAssumption DEF ColorOf
    <3> QED BY <2>1, <2>2, <2>3, <2>4, <2>5, <2>6, <3>1, <3>2
  <2>7. CASE rgb = Black
    <3>1. rgb[q + 1] = 0
      BY <2>1, <2>7 DEF Black
    <3> QED BY <2>1, <2>2, <2>3, <2>4, <2>5, <2>7, <3>1
  <2> QED BY <2>6, <2>7
<1>3. LedTarget(doc) = [i \in LedBytes |-> LedTarget(doc)[i]]
  BY DEF LedTarget
<1>4. lights = [i \in LedBytes |-> lights[i]]
  BY DEF LedBuffers
<1> HIDE DEF doc
<1>5. [i \in LedBytes |-> LedTarget(doc)[i]] = [i \in LedBytes |-> lights[i]]
  BY <1>2
<1> QED BY <1>3, <1>4, <1>5 DEF doc

-----------------------------------------------------------------------------
(* The invariant: a document made by an export is the export of the        *)
(* keyboard remembered with it.                                            *)
AsExported == FromExport => document = Exported(source.matrix, source.leds, source.by = "full")
Inv == TypeOK /\ AsExported

LEMMA NobodyType == Nobody.matrix \in Matrices /\ Nobody.leds \in LedBuffers
BY FactoryType, ValueAssumption DEF Nobody, LedBuffers

LEMMA InitInv == Init => Inv
<1> SUFFICES ASSUME Init PROVE Inv
  OBVIOUS
<1>1. matrix \in Matrices /\ leds \in LedBuffers
  BY ValueAssumption DEF Init
<1>2. IsDocument(document)
  BY EmptyHasNone DEF Init, NoDocument, IsDocument
<1>3. source.by = "nobody" /\ source.matrix \in Matrices /\ source.leds \in LedBuffers
  <2>1. source = Nobody
    BY DEF Init
  <2>2. Nobody.by = "nobody"
    BY DEF Nobody
  <2> QED BY <2>1, <2>2, NobodyType
<1> QED BY <1>1, <1>2, <1>3 DEF Inv, TypeOK, AsExported, FromExport

LEMMA NextInv == Inv /\ [Next]_vars => Inv'
<1> SUFFICES ASSUME Inv, [Next]_vars PROVE Inv'
  OBVIOUS
<1> USE DEF Inv
<1>1. CASE Reconfigure
  BY <1>1, ValueAssumption DEF Reconfigure, TypeOK, AsExported, FromExport
<1>2. ASSUME NEW full \in BOOLEAN, Export(full) PROVE Inv'
  <2>1. document' = Exported(matrix, leds, full)
    BY <1>2 DEF Export
  <2>2. /\ source'.matrix = matrix /\ source'.leds = leds
        /\ source'.by \in {"diff", "full"} /\ full = (source'.by = "full")
    BY <1>2 DEF Export
  <2>3. IsDocument(document')
    BY <2>1, ExportedIsDocument
  <2>4. matrix' = matrix /\ leds' = leds
    BY <1>2 DEF Export
  <2> QED BY <2>1, <2>2, <2>3, <2>4 DEF TypeOK, AsExported, FromExport
<1>3. CASE Write
  <2>1. IsDocument(document') /\ matrix' = matrix /\ leds' = leds
    BY <1>3, TypedAssumption DEF Write
  <2>2. source'.by = "user" /\ source'.matrix = Nobody.matrix /\ source'.leds = Nobody.leds
    BY <1>3 DEF Write, Nobody
  <2> QED BY <2>1, <2>2, NobodyType DEF TypeOK, AsExported, FromExport
<1>4. CASE Import
  <2>1. Accepted(document) /\ IsDocument(document)
    BY <1>4 DEF Import, TypeOK
  <2>2. MatrixTarget(document) \in Matrices /\ LedTarget(document) \in LedBuffers
    BY <2>1, MatrixTargetType, LedTargetType
  <2>3. matrix' \in Matrices /\ leds' \in LedBuffers
    BY <1>4, <2>2 DEF Import, TypeOK
  <2>4. document' = document /\ source' = source
    BY <1>4 DEF Import
  <2> QED BY <2>3, <2>4 DEF TypeOK, AsExported, FromExport
<1>5. CASE UNCHANGED vars
  BY <1>5 DEF vars, TypeOK, AsExported, FromExport
<1> QED BY <1>1, <1>2, <1>3, <1>4, <1>5 DEF Next

LEMMA InvHolds == Spec => []Inv
BY InitInv, NextInv, PTL DEF Spec

-----------------------------------------------------------------------------
(* Every variable keeps its type: an accepted document, of any length and  *)
(* with any names, compiles to whole layers of slot values and a whole     *)
(* colour buffer.                                                          *)
THEOREM TypeCorrect == Spec => []TypeOK
BY InvHolds, PTL DEF Inv

(* What an export of a keyboard compiles to, once accepted.                *)
LEMMA InvCompilesBack == Inv => ExportCompilesBack
<1> SUFFICES ASSUME Inv, FromExport, Accepted(document) PROVE
      /\ \A l \in Layers, s \in Slots :
           \/ MatrixTarget(document)[l][s] = source.matrix[l][s]
           \/ /\ source.by = "full" /\ source.matrix[l][s] = Unbound
              /\ MatrixTarget(document)[l][s] = FactoryMatrix[l][s]
      /\ LedTarget(document) = source.leds
  BY DEF ExportCompilesBack
<1> DEFINE full == source.by = "full"
<1>1. document = Exported(source.matrix, source.leds, full)
  BY DEF Inv, AsExported
<1>2. source.matrix \in Matrices /\ source.leds \in LedBuffers
  BY DEF Inv, TypeOK
<1>3. LedTarget(document) = source.leds
  BY <1>1, <1>2, LedsCompileBack
<1>4. ASSUME NEW l \in Layers, NEW s \in Slots PROVE
      \/ MatrixTarget(document)[l][s] = source.matrix[l][s]
      \/ /\ full /\ source.matrix[l][s] = Unbound
         /\ MatrixTarget(document)[l][s] = FactoryMatrix[l][s]
  <2>1. MatrixTarget(document)[l][s] =
          IF source.matrix[l][s] # Baseline(full)[l][s]
            THEN source.matrix[l][s] ELSE FactoryMatrix[l][s]
    BY <1>1, <1>2, KeyCompilesBack
  <2>2. Baseline(full)[l][s] = IF full THEN Unbound ELSE FactoryMatrix[l][s]
    BY DEF Baseline
  <2> QED BY <2>1, <2>2
<1> QED BY <1>3, <1>4

(* Whatever the keyboard, its names and its factory table: an exported     *)
(* document that import-hcl accepts compiles to what it was printed from.  *)
THEOREM ExportCompilesBackHolds == Spec => []ExportCompilesBack
BY InvHolds, InvCompilesBack, PTL

(* An export without a printed key that lacks a key code is accepted.      *)
LEMMA ExportAccepted ==
  ASSUME NEW buffers \in Matrices, NEW lights \in LedBuffers, NEW full \in BOOLEAN,
         \A l \in Layers, s \in Slots :
           buffers[l][s] # Baseline(full)[l][s] => buffers[l][s] \notin Keyless
  PROVE  Accepted(Exported(buffers, lights, full))
<1> DEFINE doc == Exported(buffers, lights, full)
           Blocks(n) == Mappings(buffers[LayerNumber[n]], Baseline(full)[LayerNumber[n]])
<1>1. ASSUME NEW n \in DOMAIN doc.layers
      PROVE  /\ n \in DOMAIN LayerNumber /\ DistinctLabels(doc.layers[n])
             /\ \A s \in DOMAIN doc.layers[n] :
                  Known(doc.layers[n][s].key) /\ doc.layers[n][s].action \in Values
  <2>1. n \in DOMAIN LayerNumber /\ doc.layers[n] = Blocks(n)
    BY ExportedFields
  <2> DEFINE l == LayerNumber[n]
             base == Baseline(full)
             blocks == Blocks(n)
  <2>2. l \in Layers
    BY <2>1, LayersNamed
  <2>3. /\ DOMAIN blocks = {s \in Slots : buffers[l][s] # base[l][s]}
        /\ \A s \in DOMAIN blocks : /\ blocks[s].key = NameFor(s)
                                    /\ blocks[s].action = Action(buffers[l][s])
    BY DEF Mappings
  <2> HIDE DEF blocks, l, base, doc
  <2>4. DistinctLabels(blocks)
    BY <2>3, SlotBlocks
  <2>5. ASSUME NEW s \in DOMAIN blocks PROVE Known(blocks[s].key) /\ blocks[s].action \in Values
    <3>1. s \in Slots /\ buffers[l][s] \notin Keyless
      BY <2>2, <2>3 DEF base
    <3>2. buffers[l][s] \in Values
      BY <2>2, <3>1 DEF Matrices
    <3> QED BY <2>3, <3>1, <3>2, NameLeadsBack DEF Action
  <2> QED BY <2>1, <2>4, <2>5 DEF blocks
<1>2. LayersAccepted(doc.layers)
  BY <1>1 DEF LayersAccepted
<1>3. LightingAccepted(doc.lighting, doc.theme)
  <2>1. UpTo(doc.lighting.brightness, 100) /\ UpTo(doc.lighting.speed, 255)
    BY ExportedFields DEF UpTo
  <2>2. Merged(doc.lighting.colors) = Colors(lights)
    BY ExportedFields, ExportedColors
  <2>3. ASSUME NEW s \in DOMAIN Colors(lights)
        PROVE  Known(Colors(lights)[s].key) /\ Colors(lights)[s].color \in DOMAIN Css
    <3>1. /\ s \in Slots /\ Colors(lights)[s].key = NameFor(s)
          /\ Colors(lights)[s].color = Hex[ColorAt(lights, s)]
      BY DEF Colors
    <3> QED BY <3>1, NameLeadsBack, ColorType, ValueAssumption
  <2> QED BY <2>1, <2>2, <2>3 DEF LightingAccepted
<1>4. \A alias \in DOMAIN doc.theme : doc.theme[alias] \in DOMAIN Css
  BY ExportedFields, EmptyHasNone
<1> QED BY <1>2, <1>3, <1>4 DEF Accepted

(* A part that an export lacks is at the baseline.                         *)
LEMMA NothingLost ==
  ASSUME NEW buffers \in Matrices, NEW lights \in LedBuffers, NEW full \in BOOLEAN
  PROVE  LET doc == Exported(buffers, lights, full)
         IN  /\ HasLayers(doc) \/ buffers = Baseline(full)
             /\ HasLighting(doc) \/ \A i \in LedBytes : lights[i] = 0
<1> DEFINE doc == Exported(buffers, lights, full)
           base == Baseline(full)
<1>1. ASSUME ~HasLayers(doc) PROVE buffers = base
  <2>1. ASSUME NEW l \in Layers, NEW s \in Slots PROVE buffers[l][s] = base[l][s]
    <3>1. SUFFICES ASSUME buffers[l][s] # base[l][s] PROVE FALSE
      OBVIOUS
    <3>2. PICK n \in DOMAIN LayerNumber : LayerNumber[n] = l
      BY LayersNamed
    <3>3. s \in DOMAIN Mappings(buffers[l], base[l])
      BY <3>1 DEF Mappings
    <3>4. n \in DOMAIN doc.layers /\ doc.layers[n] = Mappings(buffers[l], base[l])
      BY <3>2, <3>3, ExportedFields
    <3> QED BY <1>1, <3>3, <3>4 DEF HasLayers
  <2>2. base \in Matrices
    <3>1. CASE full
      BY <3>1, ValueAssumption DEF Baseline, Matrices
    <3>2. CASE ~full
      BY <3>2, FactoryType DEF Baseline
    <3> QED BY <3>1, <3>2
  <2> HIDE DEF base
  <2>3. ASSUME NEW l \in Layers PROVE buffers[l] = base[l]
    BY <2>1, <2>2 DEF Matrices
  <2> QED BY <2>2, <2>3 DEF Matrices
<1>2. ASSUME ~HasLighting(doc), NEW i \in LedBytes PROVE lights[i] = 0
  <2>1. doc.lighting.colors = Colors(lights)
    BY ExportedFields
  <2>2. ColorAt(lights, i % NumSlots) = Black
    BY <1>2, <2>1, Planes DEF HasLighting, Colors
  <2>3. Black[(i \div NumSlots) + 1] = 0
    BY Planes DEF Black
  <2> QED BY <2>2, <2>3, PlaneOfColor
<1> QED BY <1>1, <1>2

(* Only a key without key code makes an export unreadable, and only what   *)
(* is at the baseline is left out of it.                                   *)
THEOREM ExportIsCompleteHolds == Spec => []ExportIsComplete
<1>1. Inv => ExportIsComplete
  <2> SUFFICES ASSUME Inv, FromExport PROVE ExportIsComplete
    BY DEF ExportIsComplete
  <2> DEFINE full == source.by = "full"
  <2>1. document = Exported(source.matrix, source.leds, full)
    BY DEF Inv, AsExported
  <2>2. source.matrix \in Matrices /\ source.leds \in LedBuffers /\ full \in BOOLEAN
    BY DEF Inv, TypeOK
  <2>3. Accepted(document) \/ \E l \in Layers, s \in Slots :
          /\ source.matrix[l][s] \in Keyless
          /\ source.matrix[l][s] # Baseline(full)[l][s]
    BY <2>1, <2>2, ExportAccepted
  <2>4. /\ HasLayers(document) \/ source.matrix = Baseline(full)
        /\ HasLighting(document) \/ \A i \in LedBytes : source.leds[i] = 0
    BY <2>1, <2>2, NothingLost
  <2> QED BY <2>3, <2>4 DEF ExportIsComplete
<1> QED BY <1>1, InvHolds, PTL

-----------------------------------------------------------------------------
(* The last block for its slot has its way.                                *)
LEMMA LastHasItsWay ==
  ASSUME NEW blocks, IsBlocks(blocks), DistinctLabels(blocks),
         NEW i \in DOMAIN blocks, ~OverwrittenByAlias(blocks, i)
  PROVE  /\ At(blocks, SlotFor(blocks[i].key)) # {}
         /\ LastAt(blocks, SlotFor(blocks[i].key)) = blocks[i]
<1> DEFINE slot == SlotFor(blocks[i].key)
           m == Max(At(blocks, slot))
<1>1. i \in At(blocks, slot)
  BY DEF At
<1> HIDE DEF m
<1>2. m \in At(blocks, slot) /\ m >= i
  BY <1>1, LastBlock DEF m
<1>3. m \in DOMAIN blocks /\ SlotFor(blocks[m].key) = slot /\ m \in Nat /\ i \in Nat
  BY <1>1, <1>2 DEF At, IsBlocks
<1>4. m = i
  <2>1. SUFFICES ASSUME m # i PROVE FALSE
    OBVIOUS
  <2>2. m > i
    BY <1>2, <1>3, <2>1
  <2>3. blocks[m].key # blocks[i].key
    BY <1>3, <2>1 DEF DistinctLabels
  <2> QED BY <1>3, <2>2, <2>3 DEF OverwrittenByAlias
<1> QED BY <1>1, <1>4 DEF LastAt, m

(* A colour that is neither repeated nor named again reaches its LED.      *)
LEMMA ColorHasItsWay ==
  ASSUME NEW colors, IsBlocks(colors), NEW i \in DOMAIN colors,
         ~OverwrittenByAlias(colors, i), ~Repeated(colors, i), ~HiddenByAlias(colors, i)
  PROVE  LET slot == SlotFor(colors[i].key) IN
         /\ At(Merged(colors), slot) # {}
         /\ Max(At(Merged(colors), slot)) \in DOMAIN Merged(colors)
         /\ LastAt(Merged(colors), slot).key = colors[i].key
         /\ LastAt(Merged(colors), slot).color = colors[i].color
<1> DEFINE map == Merged(colors)
           slot == SlotFor(colors[i].key)
           m == Max(At(map, slot))
<1>1. /\ IsBlocks(map) /\ DistinctLabels(map) /\ DOMAIN map \subseteq DOMAIN colors
      /\ \A j \in DOMAIN map : map[j].key = colors[j].key
  BY MergedColors
<1>2. PICK h \in DOMAIN map : /\ h <= i /\ colors[h].key = colors[i].key
                            /\ map[h].color = colors[i].color
  BY MergedColors
<1>3. h \in At(map, slot)
  BY <1>1, <1>2 DEF At
<1> HIDE DEF map, m
<1>4. m \in At(map, slot) /\ m >= h
  BY <1>1, <1>3, LastBlock DEF m
<1>5. m \in DOMAIN map /\ SlotFor(colors[m].key) = slot
  BY <1>1, <1>4 DEF At
<1>6. m \in Nat /\ h \in Nat /\ i \in Nat
  BY <1>1, <1>5 DEF IsBlocks
<1>7. m = h
  <2>1. SUFFICES ASSUME m > h PROVE FALSE
    BY <1>4, <1>6
  <2>2. colors[m].key # colors[i].key
    BY <1>1, <1>2, <1>5, <1>6, <2>1 DEF DistinctLabels
  <2>3. CASE m > i
    BY <1>1, <1>5, <2>2, <2>3 DEF OverwrittenByAlias
  <2>4. CASE m < i
    BY <1>1, <1>2, <1>5, <2>1, <2>2, <2>4 DEF HiddenByAlias
  <2> QED BY <1>6, <2>2, <2>3, <2>4
<1>8. LastAt(map, slot) = map[h] /\ map[h].key = colors[i].key
  BY <1>1, <1>2, <1>7 DEF LastAt, m
<1> QED BY <1>2, <1>3, <1>5, <1>8 DEF map, m

(* In an accepted document, of whatever length, a mapping is without       *)
(* effect only if a later one names its slot by another text, and a colour *)
(* only if another entry names its slot in one of the ways stated.         *)
THEOREM OnlyNamesakesOverwriteHolds == Spec => []OnlyNamesakesOverwrite
<1>1. TypeOK => OnlyNamesakesOverwrite
  <2> SUFFICES ASSUME TypeOK, Accepted(document) PROVE OnlyNamesakesOverwrite
    BY DEF OnlyNamesakesOverwrite
  <2>1. IsDocument(document)
    BY DEF TypeOK
  <2>2. ASSUME NEW n \in DOMAIN document.layers, NEW i \in DOMAIN document.layers[n],
               ~OverwrittenByAlias(document.layers[n], i)
        PROVE  MatrixTarget(document)[LayerNumber[n]][SlotFor(document.layers[n][i].key)]
                 = document.layers[n][i].action
    <3> DEFINE blocks == document.layers[n]
               slot == SlotFor(blocks[i].key)
    <3>1. DOMAIN document.layers \subseteq DOMAIN LayerNumber
      BY DEF Accepted, LayersAccepted
    <3>2. LayerNumber[n] \in Layers /\ BlocksOf(document, LayerNumber[n]) = blocks
      BY <3>1, LayersNamed, LayerOfDocument
    <3>3. IsBlocks(blocks) /\ DistinctLabels(blocks) /\ Known(blocks[i].key)
      BY <2>1 DEF IsDocument, Accepted, LayersAccepted
    <3>4. slot \in Slots
      BY <3>3, KnownSlot
    <3>5. At(blocks, slot) # {} /\ LastAt(blocks, slot) = blocks[i]
      BY <2>2, <3>3, LastHasItsWay
    <3> HIDE DEF blocks, slot
    <3>6. MatrixTarget(document)[LayerNumber[n]][slot] = LastAt(blocks, slot).action
      BY <3>2, <3>4, <3>5 DEF MatrixTarget
    <3> QED BY <3>5, <3>6 DEF blocks, slot
  <2>3. ASSUME NEW i \in DOMAIN document.lighting.colors,
               ~OverwrittenByAlias(document.lighting.colors, i),
               ~Repeated(document.lighting.colors, i),
               ~HiddenByAlias(document.lighting.colors, i)
        PROVE  ColorAt(LedTarget(document), SlotFor(document.lighting.colors[i].key))
                 = ColorOf(document, document.lighting.colors[i].color)
    <3> DEFINE colors == document.lighting.colors
               map == Merged(colors)
               slot == SlotFor(colors[i].key)
               rgb == ColorOf(document, colors[i].color)
               m == Max(At(map, slot))
    <3>1. /\ At(map, slot) # {} /\ m \in DOMAIN map /\ map[m].key = colors[i].key
          /\ LastAt(map, slot).color = colors[i].color /\ map[m].color = colors[i].color
      BY <2>1, <2>3, ColorHasItsWay DEF IsDocument, LastAt
    <3>2. slot \in Slots /\ rgb \in RGB
      <4>1. Known(map[m].key)
        BY <3>1 DEF Accepted, LightingAccepted
      <4>2. ColorOf(document, map[m].color) \in RGB
        BY <3>1, ColorOfType
      <4> QED BY <3>1, <4>1, <4>2, KnownSlot
    <3>4. ASSUME NEW q \in 0 .. 2, NEW b \in LedBytes, b % NumSlots = slot, b \div NumSlots = q
          PROVE  LedTarget(document)[b] = rgb[q + 1]
      BY <3>1, <3>4 DEF LedTarget
    <3>5. /\ slot \in LedBytes /\ slot + NumSlots \in LedBytes /\ slot + 2 * NumSlots \in LedBytes
          /\ slot % NumSlots = slot /\ slot \div NumSlots = 0
          /\ (slot + NumSlots) % NumSlots = slot /\ (slot + NumSlots) \div NumSlots = 1
          /\ (slot + 2 * NumSlots) % NumSlots = slot /\ (slot + 2 * NumSlots) \div NumSlots = 2
      BY <3>2, PlanesOfLed
    <3> HIDE DEF colors, map, slot, rgb
    <3>6. ColorAt(LedTarget(document), slot) = <<rgb[1], rgb[2], rgb[3]>>
      BY <3>4, <3>5 DEF ColorAt
    <3>7. rgb = <<rgb[1], rgb[2], rgb[3]>>
      BY <3>2 DEF RGB
    <3> QED BY <3>6, <3>7 DEF colors, slot, rgb
  <2> QED BY <2>2, <2>3 DEF OnlyNamesakesOverwrite
<1> QED BY <1>1, TypeCorrect, PTL
=============================================================================
