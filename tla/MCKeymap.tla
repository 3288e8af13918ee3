------------------------------ MODULE MCKeymap ------------------------------
(* get-keymap and set-keymap on a keyboard small enough for TLC.  Only the *)
(* key matrix matters here: the other stores have a single content.        *)
EXTENDS KeymapCommands, TLC

CONSTANTS p1, p2, s1, s2, v1, v2

MCProcs == {p1, p2}
MCSlots == {s1, s2}
MCValues == {v1, v2}
MCOne == {"any"}

Set(layer, slot, value) ==
  [op |-> "set-keymap", layer |-> layer, slot |-> slot, value |-> value, dry |-> FALSE]

(* Two processes that meet on a key, on a layer and on different layers.   *)
MCJobs ==
  {Set(0, s1, v1), Set(0, s2, v2), Set(1, s1, v2),
   [Set(0, s1, v2) EXCEPT !.dry = TRUE],
   [op |-> "get-keymap", layer |-> 0, slot |-> s1]}

(* Two writes to two layers, so that an answer may be for the other layer, *)
(* and a read of the same length.                                          *)
MCThreeJobs ==
  {Set(0, s1, v1), Set(1, s2, v2), [op |-> "get-keymap", layer |-> 1, slot |-> s2]}

Symmetry == Permutations(MCProcs)
=============================================================================
