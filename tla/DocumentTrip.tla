---------------------------- MODULE DocumentTrip ----------------------------
(***************************************************************************)
(* One key of one layer, and the document it travels in: export-hcl and    *)
(* get-keymap print it, a user may write one by hand, import-hcl and       *)
(* set-keymap apply it, and other tools change the keyboard in between.    *)
(*                                                                         *)
(* The document maps other keys of the layer too, so importing it resets   *)
(* this key to the factory's value when it is left out.                    *)
(***************************************************************************)
EXTENDS SlotText

CONSTANTS
  Factory,      \* the key's factory value
  Held,         \* slot values other tools leave behind
  Tables,       \* macro tables other tools leave behind: lists of names
  Typed         \* documents users write: [mapped, map, macros]

MacroBlock == [name : MacroNames, repeat : Byte]
MacroBlocks == Seq(MacroBlock)

ASSUME TripAssumption ==
  /\ Factory \in SlotValues /\ Held \subseteq SlotValues
  /\ Tables \subseteq Seq(MacroNames)
  /\ \A d \in Typed : /\ d.mapped \in BOOLEAN
                      /\ d.macros \in MacroBlocks
                      /\ d.map.raw \in SlotValues \union {None}
                      /\ d.map.mods \in Byte \union {None}

VARIABLES
  value,        \* the slot on the keyboard
  table,        \* the names in the keyboard's macro table, in order
  document,     \* [mapped, map, macros]: whether the key has a mapping block,
                \* its attributes, and the macro blocks
  source        \* where the document is from: [by, value], by one of "nobody",
                \* "user", "diff", "full" (export-hcl) and "show" (get-keymap)

vars == <<value, table, document, source>>

Unbound == [type |-> 0, para |-> 0, code |-> 0]
Empty == [mapped |-> FALSE, map |-> Blank, macros |-> <<>>]

-----------------------------------------------------------------------------
(* Mutant: macro blocks are not printed.                                   *)
NoMacroBlocks(names) == <<>>

(* dump_macros: a repeat count is not in the table, so none is printed and *)
(* each block reads back with the default, 1.                              *)
Dumped(names) == [i \in DOMAIN names |-> [name |-> names[i], repeat |-> 1]]

(* describe_slot, as get-keymap calls it: without macro names.             *)
Shown(v) == [mapped |-> TRUE, map |-> Attributes(v, <<>>), macros |-> <<>>]

(* dump_impl leaves a slot out that equals the baseline, or zero without   *)
(* one.                                                                    *)
Exported(v, names, baseline) ==
  [mapped |-> v # baseline, map |-> Attributes(v, names), macros |-> Dumped(names)]

(* Two macro blocks of one name do not deserialize, and a mapping block    *)
(* that is not accepted fails the whole file.                              *)
DistinctNames(macros) ==
  \A i, j \in DOMAIN macros : macros[i].name = macros[j].name => i = j
Parses(doc) == DistinctNames(doc.macros) /\ (doc.mapped => Accepted(doc.map, doc.macros))

NamesOf(macros) == [i \in DOMAIN macros |-> macros[i].name]
Imported(doc) == IF doc.mapped THEN Resolved(doc.map, doc.macros) ELSE Factory

-----------------------------------------------------------------------------
Init ==
  /\ value \in Held
  /\ table \in Tables
  /\ document = Empty
  /\ source = [by |-> "nobody", value |-> Unbound]

(* The official configurator, a factory reset.                             *)
Reconfigure ==
  /\ value' \in Held
  /\ table' \in Tables
  /\ UNCHANGED <<document, source>>

ExportDiff ==
  /\ document' = Exported(value, table, Factory)
  /\ source' = [by |-> "diff", value |-> value]
  /\ UNCHANGED <<value, table>>

ExportFull ==
  /\ document' = Exported(value, table, Unbound)
  /\ source' = [by |-> "full", value |-> value]
  /\ UNCHANGED <<value, table>>

ShowKey ==
  /\ document' = Shown(value)
  /\ source' = [by |-> "show", value |-> value]
  /\ UNCHANGED <<value, table>>

Write ==
  /\ document' \in Typed
  /\ source' = [by |-> "user", value |-> Unbound]
  /\ UNCHANGED <<value, table>>

(* A file that does not parse is refused whole.                            *)
Import ==
  /\ source.by # "nobody"
  /\ IF Parses(document)
       THEN /\ value' = Imported(document)
            /\ table' = IF document.macros = <<>> THEN table ELSE NamesOf(document.macros)
       ELSE UNCHANGED <<value, table>>
  /\ UNCHANGED <<document, source>>

(* The attributes given as flags to set-keymap.                            *)
SetKey ==
  /\ document.mapped
  /\ IF FlagsAccepted(document.map) THEN value' = FlagsValue(document.map)
                                    ELSE UNCHANGED value
  /\ UNCHANGED <<table, document, source>>

Next ==
  \/ Reconfigure \/ ExportDiff \/ ExportFull \/ ShowKey \/ Write
  \/ Import \/ SetKey

Spec == Init /\ [][Next]_vars

-----------------------------------------------------------------------------
(* Properties *)

(* Every variable has its type: in particular what an accepted document    *)
(* or accepted flags make of the slot is a four-byte value, whatever the   *)
(* length of the macro list and the repeat counts.                         *)
TypeOK ==
  /\ value \in SlotValues
  /\ table \in Seq(MacroNames)
  /\ document.mapped \in BOOLEAN
  /\ document.map.raw \in SlotValues \union {None}
  /\ document.map.mods \in Byte \union {None}
  /\ document.macros \in MacroBlocks
  /\ source.by \in {"nobody", "user", "diff", "full", "show"}
  /\ source.value \in SlotValues

(* What printing and reading back keeps of a slot: all of it, or, of a     *)
(* macro printed by name, that it is the macro of that index.              *)
Restores(new, old) ==
  \/ new = old
  \/ old.type = 3 /\ new = [type |-> 3, para |-> 1, code |-> 256 + MacroIndex(old)]

(* Whatever happens to the keyboard after a document was printed, if the   *)
(* document can be imported it puts back the key it was printed from.  The *)
(* one exception is an unbound key in a full export, which is left out and *)
(* becomes the factory's.                                                  *)
PrintedRestores ==
  /\ source.by \in {"diff", "full", "show"}
  /\ source.by = "full" => source.value # Unbound
  /\ Parses(document)
  => Restores(Imported(document), source.value)

(* The only keys whose printed form cannot be read back are those without  *)
(* a key code: bare modifiers and, other than in a full export, unbound    *)
(* keys.                                                                   *)
OnlyKeylessRefused ==
  source.by \in {"diff", "full", "show"} /\ DistinctNames(document.macros)
    => \/ Parses(document)
       \/ source.value.type = 0 /\ source.value.code = 0

(* Attributes that both import-hcl and set-keymap accept mean the same     *)
(* slot value to both.                                                     *)
FlagsAgree ==
  Accepted(document.map, document.macros) /\ FlagsAccepted(document.map)
    => FlagsValue(document.map) = Resolved(document.map, document.macros)

(* A macro reference that is accepted holds, in its one index byte, the    *)
(* place of the macro of that name in the table the import writes, and its *)
(* repeat count, however many macros the document defines.                 *)
ReferenceFindsMacro ==
  LET new == Imported(document) IN
  document.mapped /\ Parses(document) /\ document.map.macro # None
    => /\ new.type = 3
       /\ MacroIndex(new) + 1 \in DOMAIN document.macros
       /\ document.macros[MacroIndex(new) + 1] =
            [name |-> document.map.macro, repeat |-> MacroRepeat(new)]
=============================================================================
