------------------------------- MODULE MCTrip -------------------------------
(* One key with values of every type, tables of two entries each, and      *)
(* documents a user may write, one of them with more macros than a macro   *)
(* reference can address.                                                  *)
EXTENDS DocumentTrip, TLC

CONSTANT none

MCSymbols == 4 :> "A" @@ 41 :> "Esc"
Slot(type, para, code) == [type |-> type, para |-> para, code |-> code]
MCLabels == Slot(2, 0, 226) :> "Mute" @@ Slot(7, 0, 3) :> "Macro"
MCFactory == Slot(0, 0, 41)

MCHeld ==
  {Unbound, Slot(0, 3, 4), Slot(0, 2, 0), Slot(0, 0, 9), Slot(2, 0, 226),
   Slot(12, 0, 1), Slot(3, 1, 256), Slot(3, 2, 769), Slot(4, 5, 6)}

MCMacroNames == 1 .. 257
MCTables == {<<1>>, <<2, 1>>, <<1, 1>>}

Attrs(raw, label, macro, key, mods) ==
  [raw |-> raw, label |-> label, macro |-> macro, key |-> key, mods |-> mods]
MCAttributes ==
  {Attrs(r, l, m, k, o) :
     r \in {none, Slot(7, 1, 2)}, l \in {none, "Mute", "Loud"},
     m \in {none, 1}, k \in {none, "A"}, o \in {none, 5}}

MCMacros(n, repeat) == [i \in 1 .. n |-> [name |-> i, repeat |-> repeat]]
MCMany == MCMacros(257, 255)
MCTyped ==
  {[mapped |-> TRUE, map |-> a, macros |-> m] :
     a \in MCAttributes, m \in {MCMacros(1, 0)}}
  \union
  {[mapped |-> TRUE, map |-> Attrs(none, none, i, none, none), macros |-> MCMany] :
     i \in {256, 257}}
  \union {[mapped |-> FALSE, map |-> Blank, macros |-> MCMacros(2, 9)]}
=============================================================================
