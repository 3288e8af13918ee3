------------------------------ MODULE SlotText ------------------------------
(***************************************************************************)
(* One key on its way out of the keyboard and back: its four-byte slot     *)
(* value is decoded and printed as the attributes of a mapping block       *)
(* (export-hcl, get-keymap), and attributes are resolved to a slot value   *)
(* again (import-hcl, set-keymap).                                         *)
(*                                                                         *)
(* A slot value is kept as its three fields, a ModifierSet as its bits (it *)
(* names all eight).  The two JSON tables are constants.                   *)
(***************************************************************************)
EXTENDS Integers, Sequences

CONSTANTS
  Symbols,      \* hid_keycode_table.json: key code -> key symbol
  Labels,       \* key_mapping_table.json: slot value -> label
  MacroNames,   \* names a macro may have
  None          \* an attribute that is not given

Byte == 0 .. (2^8 - 1)
Word == 0 .. (2^16 - 1)
SlotValues == [type : Byte, para : Byte, code : Word]

(* Types whose labels the table does not hold: KeyBoard, Macro and Custom. *)
LabelLookupExcluded == {0, 3, 4}

(* No two codes share a symbol and no two values a label.  No symbol is    *)
(* given to key code 0, "no key".                                          *)
ASSUME TableAssumption ==
  /\ DOMAIN Symbols \subseteq Word \ {0}
  /\ \A c, d \in DOMAIN Symbols : Symbols[c] = Symbols[d] => c = d
  /\ \A v \in DOMAIN Labels : v \in SlotValues /\ v.type \notin LabelLookupExcluded
  /\ \A v, w \in DOMAIN Labels : Labels[v] = Labels[w] => v = w
  /\ \A c \in DOMAIN Symbols : Symbols[c] # None
  /\ \A v \in DOMAIN Labels : Labels[v] # None
  /\ None \notin MacroNames \union SlotValues \union Byte

-----------------------------------------------------------------------------
(* Out: KeyMappingCodec::decode and slot_to_hcl_attrs.                     *)

SymbolOf(code) == IF code \in DOMAIN Symbols THEN Symbols[code] ELSE None

MacroIndex(value) == value.code % 256
MacroRepeat(value) == value.code \div 256

(* The name at the slot's index, if as many names were read.               *)
MacroName(value, names) ==
  IF MacroIndex(value) < Len(names) THEN names[MacroIndex(value) + 1] ELSE None

Blank == [raw |-> None, label |-> None, macro |-> None, key |-> None, mods |-> None]

Attributes(value, names) ==
  IF value.type = 0 /\ (value.code = 0 \/ SymbolOf(value.code) # None)
    THEN [Blank EXCEPT !.key = SymbolOf(value.code),
                       !.mods = IF value.para = 0 THEN None ELSE value.para]
  ELSE IF value.type = 3 /\ MacroName(value, names) # None
    THEN [Blank EXCEPT !.macro = MacroName(value, names)]
  ELSE IF value \in DOMAIN Labels THEN [Blank EXCEPT !.label = Labels[value]]
  ELSE [Blank EXCEPT !.raw = value]

-----------------------------------------------------------------------------
(* In: resolve_action, to_slot_value and encode_macro_reference.  macros   *)
(* is the document's list of macro blocks: [name, repeat].                 *)

(* Mutant: modifiers dropped.                                              *)
KeyAlone(code, mods) == [type |-> 0, para |-> 0, code |-> code]

Keyboard(code, mods) == [type |-> 0, para |-> IF mods = None THEN 0 ELSE mods, code |-> code]
CodeOf(symbol) == CHOOSE c \in DOMAIN Symbols : Symbols[c] = symbol
ValueOf(label) == CHOOSE v \in DOMAIN Labels : Labels[v] = label
KnownSymbol(symbol) == \E c \in DOMAIN Symbols : Symbols[c] = symbol
KnownLabel(label) == \E v \in DOMAIN Labels : Labels[v] = label

Forms == {"raw", "label", "macro", "key"}
GivenForms(attrs) == {f \in Forms : attrs[f] # None}
OneForm(attrs) == \E f \in Forms : GivenForms(attrs) = {f}

Defined(name, macros) == \E i \in DOMAIN macros : macros[i].name = name
IndexOf(name, macros) == CHOOSE i \in DOMAIN macros : macros[i].name = name

(* Mutant: the index is not checked to fit its byte.                       *)
AcceptedAnyIndex(attrs, macros) ==
  /\ OneForm(attrs)
  /\ attrs.label # None => attrs.mods = None /\ KnownLabel(attrs.label)
  /\ attrs.macro # None => Defined(attrs.macro, macros)
  /\ attrs.key # None => KnownSymbol(attrs.key)

Accepted(attrs, macros) ==
  /\ OneForm(attrs)
  /\ attrs.label # None => attrs.mods = None /\ KnownLabel(attrs.label)
  /\ attrs.macro # None => /\ Defined(attrs.macro, macros)
                           /\ IndexOf(attrs.macro, macros) <= 256
  /\ attrs.key # None => KnownSymbol(attrs.key)

(* Mutant, as an earlier version had it: the repeat count in the para byte.*)
RepeatAsPara(name, macros) ==
  LET i == IndexOf(name, macros) IN [type |-> 3, para |-> macros[i].repeat, code |-> i - 1]

(* Macro, cycle type 1 ("repeat N times"), repeat count, table index.      *)
MacroReference(name, macros) ==
  LET i == IndexOf(name, macros) IN
  [type |-> 3, para |-> 1, code |-> macros[i].repeat * 256 + (i - 1)]

Resolved(attrs, macros) ==
  IF attrs.raw # None THEN attrs.raw
  ELSE IF attrs.label # None THEN ValueOf(attrs.label)
  ELSE IF attrs.macro # None THEN MacroReference(attrs.macro, macros)
  ELSE Keyboard(CodeOf(attrs.key), attrs.mods)

(* set-keymap: encode_from_flags, the first flag that is given.  There is  *)
(* no --macro.                                                             *)
Flags == {"raw", "label", "key"}
FlagsAccepted(attrs) ==
  /\ attrs.macro = None
  /\ \E f \in Flags : attrs[f] # None
  /\ \/ attrs.raw # None
     \/ attrs.label # None /\ KnownLabel(attrs.label)
     \/ attrs.label = None /\ KnownSymbol(attrs.key)

(* Mutant: --mod is forgotten.                                             *)
FlagsNoMods(attrs) ==
  IF attrs.raw # None THEN attrs.raw
  ELSE IF attrs.label # None THEN ValueOf(attrs.label)
  ELSE Keyboard(CodeOf(attrs.key), None)

FlagsValue(attrs) ==
  IF attrs.raw # None THEN attrs.raw
  ELSE IF attrs.label # None THEN ValueOf(attrs.label)
  ELSE Keyboard(CodeOf(attrs.key), attrs.mods)
=============================================================================
