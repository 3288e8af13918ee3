------------------------- MODULE DocumentTripProofs -------------------------
(***************************************************************************)
(* Proofs about the trip of a slot value through a document, for every     *)
(* pair of tables, every macro list and every document.                    *)
(***************************************************************************)
EXTENDS DocumentTrip, TLAPS

-----------------------------------------------------------------------------
(* The tables are inverted exactly.                                        *)
LEMMA CodeOfSymbol ==
  ASSUME NEW c \in DOMAIN Symbols
  PROVE  CodeOf(Symbols[c]) = c
BY TableAssumption DEF CodeOf

LEMMA ValueOfLabel ==
  ASSUME NEW v \in DOMAIN Labels
  PROVE  ValueOf(Labels[v]) = v
BY TableAssumption DEF ValueOf

LEMMA CodeOfKnown ==
  ASSUME NEW symbol, KnownSymbol(symbol)
  PROVE  CodeOf(symbol) \in Word
<1>1. CodeOf(symbol) \in DOMAIN Symbols
  BY DEF KnownSymbol, CodeOf
<1> QED BY <1>1, TableAssumption

LEMMA ValueOfKnown ==
  ASSUME NEW label, KnownLabel(label)
  PROVE  ValueOf(label) \in SlotValues
<1>1. ValueOf(label) \in DOMAIN Labels
  BY DEF KnownLabel, ValueOf
<1> QED BY <1>1, TableAssumption

LEMMA BlockFields ==
  ASSUME NEW macros \in MacroBlocks, NEW i \in DOMAIN macros
  PROVE  i \in Nat \ {0} /\ macros[i].repeat \in Byte
<1>1. DOMAIN macros = 1 .. Len(macros)
  BY DEF MacroBlocks
<1>2. macros[i] \in MacroBlock
  BY <1>1 DEF MacroBlocks
<1> QED BY <1>1, <1>2 DEF MacroBlock

(* A defined macro is found at its place; at one place only if the names   *)
(* are distinct.                                                           *)
LEMMA IndexOfDefined ==
  ASSUME NEW name, NEW macros \in MacroBlocks, Defined(name, macros)
  PROVE  /\ IndexOf(name, macros) \in DOMAIN macros
         /\ macros[IndexOf(name, macros)].name = name
BY DEF Defined, IndexOf

LEMMA IndexOfDistinct ==
  ASSUME NEW macros \in MacroBlocks, DistinctNames(macros), NEW i \in DOMAIN macros
  PROVE  IndexOf(macros[i].name, macros) = i
<1>1. Defined(macros[i].name, macros)
  BY DEF Defined
<1> QED BY <1>1, IndexOfDefined DEF DistinctNames

(* An accepted mapping resolves to a slot value.                           *)
LEMMA ResolvedType ==
  ASSUME NEW attrs, NEW macros \in MacroBlocks, Accepted(attrs, macros),
         attrs.raw \in SlotValues \union {None}, attrs.mods \in Byte \union {None}
  PROVE  Resolved(attrs, macros) \in SlotValues
<1>1. CASE attrs.raw # None
  BY <1>1 DEF Resolved
<1>2. CASE attrs.raw = None /\ attrs.label # None
  BY <1>2, ValueOfKnown DEF Resolved, Accepted
<1>3. CASE attrs.raw = None /\ attrs.label = None /\ attrs.macro # None
  <2> DEFINE i == IndexOf(attrs.macro, macros)
  <2>1. i \in DOMAIN macros /\ i <= 256
    BY <1>3, IndexOfDefined DEF Accepted
  <2>3. Resolved(attrs, macros) = [type |-> 3, para |-> 1, code |-> macros[i].repeat * 256 + (i - 1)]
    BY <1>3 DEF Resolved, MacroReference
  <2> DEFINE r == macros[i].repeat
  <2> HIDE DEF i
  <2>2. i \in 1 .. 256 /\ r \in Byte
    <3>1. i \in Nat \ {0} /\ r \in Byte
      BY <2>1, BlockFields
    <3> QED BY <2>1, <3>1
  <2> HIDE DEF r
  <2>4. r * 256 + (i - 1) \in Word
    BY <2>2 DEF Word, Byte
  <2> QED BY <2>3, <2>4 DEF SlotValues, Byte, r
<1>4. CASE attrs.raw = None /\ attrs.label = None /\ attrs.macro = None
  <2>1. attrs.key # None
    BY <1>4 DEF Accepted, OneForm, GivenForms, Forms
  <2>2. CodeOf(attrs.key) \in Word
    BY <2>1, CodeOfKnown DEF Accepted
  <2>3. Resolved(attrs, macros) = Keyboard(CodeOf(attrs.key), attrs.mods)
    BY <1>4 DEF Resolved
  <2> QED BY <2>2, <2>3 DEF Keyboard, SlotValues, Byte
<1> QED BY <1>1, <1>2, <1>3, <1>4

LEMMA FlagsValueType ==
  ASSUME NEW attrs, FlagsAccepted(attrs),
         attrs.raw \in SlotValues \union {None}, attrs.mods \in Byte \union {None}
  PROVE  FlagsValue(attrs) \in SlotValues
<1>1. CASE attrs.raw # None
  BY <1>1 DEF FlagsValue
<1>2. CASE attrs.raw = None /\ attrs.label # None
  BY <1>2, ValueOfKnown DEF FlagsValue, FlagsAccepted
<1>3. CASE attrs.raw = None /\ attrs.label = None
  <2>1. CodeOf(attrs.key) \in Word
    BY <1>3, CodeOfKnown DEF FlagsAccepted
  <2> QED BY <1>3, <2>1 DEF FlagsValue, Keyboard, SlotValues, Byte
<1> QED BY <1>1, <1>2, <1>3

-----------------------------------------------------------------------------
(* Printing and reading back.                                              *)
LEMMA DumpedBlocks ==
  ASSUME NEW names \in Seq(MacroNames)
  PROVE  Dumped(names) \in MacroBlocks /\ DOMAIN Dumped(names) = 1 .. Len(names)
<1>1. 1 \in Byte
  BY DEF Byte
<1>2. Dumped(names) = [i \in 1 .. Len(names) |-> [name |-> names[i], repeat |-> 1]]
  BY DEF Dumped
<1> QED BY <1>1, <1>2 DEF MacroBlocks, MacroBlock

LEMMA SlotFields ==
  ASSUME NEW v \in SlotValues
  PROVE  /\ v.type \in Byte /\ v.para \in Byte /\ v.code \in Word
         /\ v = [type |-> v.type, para |-> v.para, code |-> v.code]
BY DEF SlotValues

LEMMA MacroIndexType ==
  ASSUME NEW v \in SlotValues
  PROVE  MacroIndex(v) \in Byte
<1> DEFINE c == v.code
<1>1. c \in Int
  BY SlotFields, SMT DEF Word
<1> HIDE DEF c
<1>2. c % 256 \in 0 .. 255
  BY <1>1
<1> QED BY <1>2 DEF MacroIndex, Byte, c

LEMMA TripOfKey ==
  ASSUME NEW v \in SlotValues, NEW names \in Seq(MacroNames),
         Accepted(Attributes(v, names), Dumped(names)),
         v.type = 0, v.code = 0 \/ SymbolOf(v.code) # None
  PROVE  Resolved(Attributes(v, names), Dumped(names)) = v
<1> DEFINE attrs == Attributes(v, names)
<1>1. attrs = [raw |-> None, label |-> None, macro |-> None, key |-> SymbolOf(v.code),
               mods |-> IF v.para = 0 THEN None ELSE v.para]
  BY DEF Attributes, Blank
<1>2. SymbolOf(v.code) # None
  BY <1>1 DEF Accepted, OneForm, GivenForms, Forms
<1>3. v.code \in DOMAIN Symbols /\ attrs.key = Symbols[v.code]
  BY <1>1, <1>2 DEF SymbolOf
<1>4. Resolved(attrs, Dumped(names)) = Keyboard(v.code, attrs.mods)
  BY <1>1, <1>2, <1>3, CodeOfSymbol DEF Resolved
<1>5. v.para # None
  BY SlotFields, TableAssumption
<1>6. Keyboard(v.code, attrs.mods) = [type |-> 0, para |-> v.para, code |-> v.code]
  BY <1>1, <1>5 DEF Keyboard
<1> QED BY <1>4, <1>6, SlotFields

LEMMA TripOfMacro ==
  ASSUME NEW v \in SlotValues, NEW names \in Seq(MacroNames),
         DistinctNames(Dumped(names)),
         v.type = 3, MacroName(v, names) # None
  PROVE  Resolved(Attributes(v, names), Dumped(names)) =
           [type |-> 3, para |-> 1, code |-> 256 + MacroIndex(v)]
<1> DEFINE i == MacroIndex(v) + 1
           macros == Dumped(names)
<1>1. Attributes(v, names) = [raw |-> None, label |-> None, macro |-> names[i],
                              key |-> None, mods |-> None]
      /\ names[i] # None
  BY DEF Attributes, Blank, MacroName
<1>2. MacroIndex(v) < Len(names)
  BY DEF MacroName
<1>3. i \in 1 .. Len(names)
  BY <1>2, MacroIndexType DEF Byte
<1>4. macros \in MacroBlocks /\ i \in DOMAIN macros
      /\ macros[i] = [name |-> names[i], repeat |-> 1]
  BY <1>3, DumpedBlocks DEF Dumped
<1>5. IndexOf(names[i], macros) = i
  BY <1>4, IndexOfDistinct
<1>6. Resolved(Attributes(v, names), macros) =
        [type |-> 3, para |-> 1, code |-> 1 * 256 + (i - 1)]
  BY <1>1, <1>4, <1>5 DEF Resolved, MacroReference
<1>7. 1 * 256 + (i - 1) = 256 + MacroIndex(v)
  BY MacroIndexType DEF Byte
<1> QED BY <1>6, <1>7

LEMMA TripOfRest ==
  ASSUME NEW v \in SlotValues, NEW names, NEW macros,
         ~(v.type = 0 /\ (v.code = 0 \/ SymbolOf(v.code) # None)),
         ~(v.type = 3 /\ MacroName(v, names) # None)
  PROVE  Resolved(Attributes(v, names), macros) = v
<1>1. CASE v \in DOMAIN Labels
  <2>1. Attributes(v, names) = [raw |-> None, label |-> Labels[v], macro |-> None,
                                key |-> None, mods |-> None]
    BY <1>1 DEF Attributes, Blank
  <2>2. Labels[v] # None /\ ValueOf(Labels[v]) = v
    BY <1>1, TableAssumption, ValueOfLabel
  <2> QED BY <2>1, <2>2 DEF Resolved
<1>2. CASE v \notin DOMAIN Labels
  <2>1. v # None
    BY TableAssumption
  <2>2. Attributes(v, names).raw = v
    BY <1>2 DEF Attributes, Blank
  <2> QED BY <2>1, <2>2 DEF Resolved
<1> QED BY <1>1, <1>2

(* Whatever is printed of a slot with the macro names of the keyboard      *)
(* reads back as that slot, up to a macro's repeat count and cycle type.   *)
LEMMA TripRestores ==
  ASSUME NEW v \in SlotValues, NEW names \in Seq(MacroNames),
         DistinctNames(Dumped(names)), Accepted(Attributes(v, names), Dumped(names))
  PROVE  Restores(Resolved(Attributes(v, names), Dumped(names)), v)
BY TripOfKey, TripOfMacro, TripOfRest DEF Restores

-----------------------------------------------------------------------------
(* Types.                                                                  *)
LEMMA AttributesType ==
  ASSUME NEW v \in SlotValues, NEW names
  PROVE  /\ Attributes(v, names).raw \in SlotValues \union {None}
         /\ Attributes(v, names).mods \in Byte \union {None}
<1>1. v.para \in Byte
  BY SlotFields
<1> QED BY <1>1 DEF Attributes, Blank

LEMMA ExportedType ==
  ASSUME NEW v \in SlotValues, NEW names \in Seq(MacroNames), NEW baseline
  PROVE  LET doc == Exported(v, names, baseline) IN
         /\ doc.mapped \in BOOLEAN
         /\ doc.map.raw \in SlotValues \union {None}
         /\ doc.map.mods \in Byte \union {None}
         /\ doc.macros \in MacroBlocks
BY AttributesType, DumpedBlocks DEF Exported

LEMMA ShownType ==
  ASSUME NEW v \in SlotValues
  PROVE  /\ Shown(v).mapped \in BOOLEAN
         /\ Shown(v).map.raw \in SlotValues \union {None}
         /\ Shown(v).map.mods \in Byte \union {None}
         /\ Shown(v).macros \in MacroBlocks
<1>1. <<>> \in MacroBlocks
  BY DEF MacroBlocks
<1> QED BY <1>1, AttributesType DEF Shown

LEMMA NamesOfBlocks ==
  ASSUME NEW macros \in MacroBlocks
  PROVE  NamesOf(macros) \in Seq(MacroNames)
<1>1. DOMAIN macros = 1 .. Len(macros) /\ Len(macros) \in Nat
  BY DEF MacroBlocks
<1>2. \A i \in DOMAIN macros : macros[i] \in MacroBlock
  BY <1>1 DEF MacroBlocks
<1>3. \A i \in 1 .. Len(macros) : macros[i].name \in MacroNames
  BY <1>1, <1>2 DEF MacroBlock
<1>4. NamesOf(macros) = [i \in 1 .. Len(macros) |-> macros[i].name]
  BY <1>1 DEF NamesOf
<1> QED BY <1>1, <1>3, <1>4

(* Whatever is printed, typed, imported and changed by other tools, in any *)
(* order, the key's slot holds a four-byte value and the macro table lists *)
(* names: no accepted mapping overflows a byte of the slot.                *)
THEOREM TypeCorrect == Spec => []TypeOK
<1>1. Init => TypeOK
  <2> SUFFICES ASSUME Init PROVE TypeOK
    OBVIOUS
  <2>1. value \in SlotValues /\ table \in Seq(MacroNames)
    BY TripAssumption DEF Init
  <2>2. Unbound \in SlotValues
    BY DEF Unbound, SlotValues, Byte, Word
  <2>3. <<>> \in MacroBlocks
    BY DEF MacroBlocks
  <2> QED BY <2>1, <2>2, <2>3 DEF Init, TypeOK, Empty, Blank
<1>2. TypeOK /\ [Next]_vars => TypeOK'
  <2> SUFFICES ASSUME TypeOK, [Next]_vars PROVE TypeOK'
    OBVIOUS
  <2>1. CASE Reconfigure
    BY <2>1, TripAssumption DEF Reconfigure, TypeOK
  <2>2. CASE ExportDiff
    BY <2>2, ExportedType DEF ExportDiff, TypeOK
  <2>3. CASE ExportFull
    BY <2>3, ExportedType DEF ExportFull, TypeOK
  <2>4. CASE ShowKey
    BY <2>4, ShownType DEF ShowKey, TypeOK
  <2>5. CASE Write
    <3>1. Unbound \in SlotValues
      BY DEF Unbound, SlotValues, Byte, Word
    <3> QED BY <2>5, <3>1, TripAssumption DEF Write, TypeOK
  <2>6. CASE Import
    <3>1. CASE Parses(document)
      <4>1. Imported(document) \in SlotValues
        BY <3>1, ResolvedType, TripAssumption DEF Imported, Parses, TypeOK
      <4>2. NamesOf(document.macros) \in Seq(MacroNames)
        BY NamesOfBlocks DEF TypeOK
      <4> QED BY <2>6, <3>1, <4>1, <4>2 DEF Import, TypeOK
    <3>2. CASE ~Parses(document)
      BY <2>6, <3>2 DEF Import, TypeOK
    <3> QED BY <3>1, <3>2
  <2>7. CASE SetKey
    <3>1. FlagsAccepted(document.map) => FlagsValue(document.map) \in SlotValues
      BY FlagsValueType DEF TypeOK
    <3> QED BY <2>7, <3>1 DEF SetKey, TypeOK
  <2>8. CASE UNCHANGED vars
    BY <2>8 DEF vars, TypeOK
  <2> QED BY <2>1, <2>2, <2>3, <2>4, <2>5, <2>6, <2>7, <2>8 DEF Next
<1> QED BY <1>1, <1>2, PTL DEF Spec

-----------------------------------------------------------------------------
(* PrintedRestores is not inductive: it says nothing of how a printed      *)
(* document came about.  Every printed document still is what its printer  *)
(* makes of the value it was printed from.                                 *)
Baseline(by) == IF by = "diff" THEN Factory ELSE Unbound
PrintedFrom ==
  /\ source.by \in {"diff", "full"} =>
       /\ NamesOf(document.macros) \in Seq(MacroNames)
       /\ document = Exported(source.value, NamesOf(document.macros), Baseline(source.by))
  /\ source.by = "show" => document = Shown(source.value)

LEMMA NamesOfDumped ==
  ASSUME NEW names \in Seq(MacroNames)
  PROVE  NamesOf(Dumped(names)) = names
<1>1. DOMAIN Dumped(names) = 1 .. Len(names)
  BY DumpedBlocks
<1>2. \A i \in 1 .. Len(names) : Dumped(names)[i].name = names[i]
  BY DEF Dumped
<1>3. NamesOf(Dumped(names)) = [i \in 1 .. Len(names) |-> names[i]]
  BY <1>1, <1>2 DEF NamesOf
<1> QED BY <1>3

LEMMA ExportedFrom ==
  ASSUME NEW v, NEW names \in Seq(MacroNames), NEW baseline
  PROVE  LET doc == Exported(v, names, baseline) IN
         /\ NamesOf(doc.macros) = names
         /\ doc = Exported(v, NamesOf(doc.macros), baseline)
<1>1. Exported(v, names, baseline).macros = Dumped(names)
  BY DEF Exported
<1> QED BY <1>1, NamesOfDumped

LEMMA ExportedRestores ==
  ASSUME NEW v \in SlotValues, NEW names \in Seq(MacroNames), NEW baseline,
         baseline = Factory \/ v # baseline,
         Parses(Exported(v, names, baseline))
  PROVE  Restores(Imported(Exported(v, names, baseline)), v)
<1> DEFINE doc == Exported(v, names, baseline)
<1>1. /\ doc.mapped = (v # baseline)
      /\ doc.map = Attributes(v, names)
      /\ doc.macros = Dumped(names)
  BY DEF Exported
<1> HIDE DEF doc
<1>2. CASE v = baseline
  <2>1. ~doc.mapped /\ v = Factory
    BY <1>1, <1>2
  <2>2. Imported(doc) = v
    BY <2>1 DEF Imported
  <2> QED BY <2>2 DEF Restores, doc
<1>3. CASE v # baseline
  <2>1. DistinctNames(Dumped(names)) /\ Accepted(Attributes(v, names), Dumped(names))
    BY <1>1, <1>3 DEF Parses, doc
  <2>2. Imported(doc) = Resolved(Attributes(v, names), Dumped(names))
    BY <1>1, <1>3 DEF Imported
  <2> QED BY <2>1, <2>2, TripRestores DEF doc
<1> QED BY <1>2, <1>3 DEF doc

LEMMA ShownRestores ==
  ASSUME NEW v \in SlotValues, Parses(Shown(v))
  PROVE  Restores(Imported(Shown(v)), v)
<1>1. Dumped(<<>>) = <<>> /\ <<>> \in Seq(MacroNames)
  BY DEF Dumped
<1>2. DistinctNames(<<>>) /\ Accepted(Attributes(v, <<>>), <<>>)
  BY DEF Parses, Shown
<1>3. Imported(Shown(v)) = Resolved(Attributes(v, <<>>), <<>>)
  BY DEF Imported, Shown
<1> QED BY <1>1, <1>2, <1>3, TripRestores

LEMMA PrintedFromNext == TypeOK /\ PrintedFrom /\ [Next]_vars => PrintedFrom'
<1> SUFFICES ASSUME TypeOK, PrintedFrom, [Next]_vars PROVE PrintedFrom'
  OBVIOUS
<1>1. CASE UNCHANGED <<document, source>>
  BY <1>1 DEF PrintedFrom, NamesOf, Exported, Dumped, Shown
<1>2. CASE ExportDiff
  <2>1. source'.by = "diff" /\ source'.value = value /\ Baseline("diff") = Factory
    BY <1>2 DEF ExportDiff, Baseline
  <2>2. document' = Exported(value, table, Factory) /\ table \in Seq(MacroNames)
    BY <1>2 DEF ExportDiff, TypeOK
  <2>3. NamesOf(document'.macros) = table
    BY <2>2, ExportedFrom
  <2> QED BY <2>1, <2>2, <2>3 DEF PrintedFrom
<1>3. CASE ExportFull
  <2>1. source'.by = "full" /\ source'.value = value /\ Baseline("full") = Unbound
    BY <1>3 DEF ExportFull, Baseline
  <2>2. document' = Exported(value, table, Unbound) /\ table \in Seq(MacroNames)
    BY <1>3 DEF ExportFull, TypeOK
  <2>3. NamesOf(document'.macros) = table
    BY <2>2, ExportedFrom
  <2> QED BY <2>1, <2>2, <2>3 DEF PrintedFrom
<1>4. CASE ShowKey
  BY <1>4 DEF ShowKey, PrintedFrom
<1>5. CASE Write
  BY <1>5 DEF Write, PrintedFrom
<1> QED BY <1>1, <1>2, <1>3, <1>4, <1>5 DEF Next, Reconfigure, Import, SetKey, vars

LEMMA PrintedFromHolds == Spec => [](TypeOK /\ PrintedFrom)
<1>1. Init => PrintedFrom
  BY DEF Init, PrintedFrom
<1> QED BY <1>1, PrintedFromNext, TypeCorrect, PTL DEF Spec

(* Whatever else happens to the keyboard and its macros between printing   *)
(* and importing, a document that can be imported puts back the key it was *)
(* printed from, for every pair of tables and every number of macros.      *)
THEOREM PrintedRestoresHolds == Spec => []PrintedRestores
<1>1. TypeOK /\ PrintedFrom => PrintedRestores
  <2> SUFFICES ASSUME TypeOK, PrintedFrom,
                      source.by \in {"diff", "full", "show"},
                      source.by = "full" => source.value # Unbound,
                      Parses(document)
               PROVE  Restores(Imported(document), source.value)
    BY DEF PrintedRestores
  <2> DEFINE names == NamesOf(document.macros)
  <2>1. source.value \in SlotValues
    BY DEF TypeOK
  <2>2. CASE source.by = "show"
    BY <2>1, <2>2, ShownRestores DEF PrintedFrom
  <2>3. CASE source.by = "diff"
    <3>1. names \in Seq(MacroNames) /\ document = Exported(source.value, names, Factory)
      BY <2>3 DEF PrintedFrom, Baseline
    <3> HIDE DEF names
    <3> QED BY <2>1, <3>1, ExportedRestores
  <2>4. CASE source.by = "full"
    <3>1. names \in Seq(MacroNames) /\ document = Exported(source.value, names, Unbound)
      BY <2>4 DEF PrintedFrom, Baseline
    <3> HIDE DEF names
    <3> QED BY <2>1, <2>4, <3>1, ExportedRestores
  <2> QED BY <2>2, <2>3, <2>4
<1> QED BY <1>1, PrintedFromHolds, PTL

-----------------------------------------------------------------------------
(* Whatever has a key code, or is not a key, is printed in a form that is  *)
(* accepted.                                                               *)
LEMMA PrintedAccepted ==
  ASSUME NEW v \in SlotValues, NEW names \in Seq(MacroNames),
         DistinctNames(Dumped(names)), ~(v.type = 0 /\ v.code = 0)
  PROVE  Accepted(Attributes(v, names), Dumped(names))
<1> DEFINE attrs == Attributes(v, names)
<1>1. CASE v.type = 0 /\ SymbolOf(v.code) # None
  <2>1. /\ attrs.raw = None /\ attrs.label = None /\ attrs.macro = None
        /\ attrs.key = SymbolOf(v.code)
    BY <1>1 DEF Attributes, Blank
  <2>2. attrs.key # None /\ KnownSymbol(attrs.key)
    BY <1>1, <2>1 DEF KnownSymbol, SymbolOf
  <2>3. GivenForms(attrs) = {"key"}
    BY <2>1, <2>2 DEF GivenForms, Forms
  <2> QED BY <2>1, <2>2, <2>3 DEF Accepted, OneForm, Forms
<1>2. CASE v.type = 3 /\ MacroName(v, names) # None
  <2> DEFINE i == MacroIndex(v) + 1
             macros == Dumped(names)
  <2>1. MacroIndex(v) < Len(names) /\ MacroName(v, names) = names[i]
    BY <1>2 DEF MacroName
  <2>2. i \in 1 .. Len(names) /\ i <= 256
    BY <2>1, MacroIndexType DEF Byte
  <2>3. macros \in MacroBlocks /\ i \in DOMAIN macros /\ macros[i].name = names[i]
    BY <2>2, DumpedBlocks DEF Dumped
  <2>4. Defined(names[i], macros) /\ IndexOf(names[i], macros) = i
    BY <2>3, IndexOfDistinct DEF Defined
  <2>5. /\ attrs.raw = None /\ attrs.label = None /\ attrs.key = None
        /\ attrs.macro = names[i] /\ attrs.macro # None
    BY <1>2, <2>1 DEF Attributes, Blank
  <2>6. GivenForms(attrs) = {"macro"}
    BY <2>5 DEF GivenForms, Forms
  <2> HIDE DEF attrs, macros, i
  <2>7. Accepted(attrs, macros)
    BY <2>2, <2>4, <2>5, <2>6 DEF Accepted, OneForm, Forms
  <2> QED BY <2>7 DEF attrs, macros
<1>3. CASE ~(v.type = 0 /\ SymbolOf(v.code) # None) /\ ~(v.type = 3 /\ MacroName(v, names) # None)
  <2>1. CASE v \in DOMAIN Labels
    <3>1. /\ attrs.raw = None /\ attrs.macro = None /\ attrs.key = None /\ attrs.mods = None
          /\ attrs.label = Labels[v]
      BY <1>3, <2>1 DEF Attributes, Blank
    <3>2. attrs.label # None /\ KnownLabel(attrs.label)
      BY <2>1, <3>1, TableAssumption DEF KnownLabel
    <3>3. GivenForms(attrs) = {"label"}
      BY <3>1, <3>2 DEF GivenForms, Forms
    <3> QED BY <3>1, <3>2, <3>3 DEF Accepted, OneForm, Forms
  <2>2. CASE v \notin DOMAIN Labels
    <3>1. /\ attrs.label = None /\ attrs.macro = None /\ attrs.key = None
          /\ attrs.raw = v
      BY <1>3, <2>2 DEF Attributes, Blank
    <3>2. attrs.raw # None
      BY <3>1, TableAssumption
    <3>3. GivenForms(attrs) = {"raw"}
      BY <3>1, <3>2 DEF GivenForms, Forms
    <3> QED BY <3>1, <3>3 DEF Accepted, OneForm, Forms
  <2> QED BY <2>1, <2>2
<1> QED BY <1>1, <1>2, <1>3

(* Every document that export-hcl or get-keymap prints of a key can be     *)
(* read back, unless the key has no key code or two macros share a name:   *)
(* for every pair of tables and every macro table.                         *)
THEOREM OnlyKeylessRefusedHolds == Spec => []OnlyKeylessRefused
<1>1. TypeOK /\ PrintedFrom => OnlyKeylessRefused
  <2> SUFFICES ASSUME TypeOK, PrintedFrom,
                      source.by \in {"diff", "full", "show"},
                      DistinctNames(document.macros),
                      ~(source.value.type = 0 /\ source.value.code = 0)
               PROVE  Parses(document)
    BY DEF OnlyKeylessRefused
  <2>1. source.value \in SlotValues
    BY DEF TypeOK
  <2>2. CASE source.by = "show"
    <3>1. document.map = Attributes(source.value, <<>>) /\ document.macros = <<>>
      BY <2>2 DEF PrintedFrom, Shown
    <3>2. Dumped(<<>>) = <<>> /\ <<>> \in Seq(MacroNames)
      BY DEF Dumped
    <3> QED BY <2>1, <3>1, <3>2, PrintedAccepted DEF Parses
  <2>3. CASE source.by \in {"diff", "full"}
    <3> DEFINE names == NamesOf(document.macros)
               baseline == Baseline(source.by)
    <3>1. names \in Seq(MacroNames) /\ document = Exported(source.value, names, baseline)
      BY <2>3 DEF PrintedFrom
    <3> HIDE DEF names, baseline
    <3>2. document.map = Attributes(source.value, names) /\ document.macros = Dumped(names)
      BY <3>1 DEF Exported
    <3> QED BY <2>1, <3>1, <3>2, PrintedAccepted DEF Parses
  <2> QED BY <2>2, <2>3
<1> QED BY <1>1, PrintedFromHolds, PTL

-----------------------------------------------------------------------------
(* The two halves of a reference's code field are read back exactly.       *)
LEMMA Halves ==
  ASSUME NEW r \in Byte, NEW j \in Byte
  PROVE  (r * 256 + j) % 256 = j /\ (r * 256 + j) \div 256 = r
BY DEF Byte

LEMMA ReferenceFound ==
  ASSUME NEW attrs, NEW macros \in MacroBlocks,
         Accepted(attrs, macros), attrs.macro # None
  PROVE  LET new == Resolved(attrs, macros) IN
         /\ new.type = 3
         /\ MacroIndex(new) + 1 \in DOMAIN macros
         /\ macros[MacroIndex(new) + 1] = [name |-> attrs.macro, repeat |-> MacroRepeat(new)]
<1> DEFINE i == IndexOf(attrs.macro, macros)
           r == macros[i].repeat
           new == Resolved(attrs, macros)
<1>1. attrs.raw = None /\ attrs.label = None
  BY DEF Accepted, OneForm, GivenForms, Forms
<1>2. i \in DOMAIN macros /\ macros[i].name = attrs.macro /\ i <= 256
  BY IndexOfDefined DEF Accepted
<1>3. new = [type |-> 3, para |-> 1, code |-> r * 256 + (i - 1)]
  BY <1>1 DEF Resolved, MacroReference
<1> HIDE DEF i, new
<1>4. macros[i] = [name |-> attrs.macro, repeat |-> r]
  <2>1. DOMAIN macros = 1 .. Len(macros)
    BY DEF MacroBlocks
  <2>2. macros[i] \in MacroBlock
    BY <1>2, <2>1 DEF MacroBlocks
  <2> QED BY <1>2, <2>2 DEF MacroBlock
<1>5. i \in Nat \ {0} /\ r \in Byte
  BY <1>2, BlockFields
<1> HIDE DEF r
<1>6. i - 1 \in Byte
  BY <1>2, <1>5 DEF Byte
<1>7. MacroIndex(new) = i - 1 /\ MacroRepeat(new) = r
  BY <1>3, <1>5, <1>6, Halves DEF MacroIndex, MacroRepeat
<1>8. MacroIndex(new) + 1 = i
  BY <1>5, <1>7
<1> QED BY <1>2, <1>3, <1>4, <1>7, <1>8 DEF new

(* Of every document that is imported, an accepted macro reference holds   *)
(* the place its macro has in the table the import writes, and its count:  *)
(* index and count share the code field without disturbing each other.     *)
THEOREM ReferenceFindsMacroHolds == Spec => []ReferenceFindsMacro
<1>1. TypeOK => ReferenceFindsMacro
  <2> SUFFICES ASSUME TypeOK, document.mapped, Parses(document), document.map.macro # None
               PROVE  LET new == Imported(document) IN
                      /\ new.type = 3
                      /\ MacroIndex(new) + 1 \in DOMAIN document.macros
                      /\ document.macros[MacroIndex(new) + 1] =
                           [name |-> document.map.macro, repeat |-> MacroRepeat(new)]
    BY DEF ReferenceFindsMacro
  <2>1. Imported(document) = Resolved(document.map, document.macros)
    BY DEF Imported
  <2>2. document.macros \in MacroBlocks /\ Accepted(document.map, document.macros)
    BY DEF TypeOK, Parses
  <2> QED BY <2>1, <2>2, ReferenceFound
<1> QED BY <1>1, TypeCorrect, PTL

-----------------------------------------------------------------------------
(* The flags of set-keymap and the attributes of a mapping block are read  *)
(* in the same order: what both accept is one slot value, for every pair   *)
(* of tables and every combination of attributes.                          *)
THEOREM FlagsAgreeHolds == Spec => []FlagsAgree
<1>1. FlagsAgree
  <2> SUFFICES ASSUME FlagsAccepted(document.map)
               PROVE  FlagsValue(document.map) = Resolved(document.map, document.macros)
    BY DEF FlagsAgree
  <2>1. document.map.macro = None
    BY DEF FlagsAccepted
  <2> QED BY <2>1 DEF FlagsValue, Resolved
<1> QED BY <1>1, PTL
=============================================================================
