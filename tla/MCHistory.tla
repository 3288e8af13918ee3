----------------------------- MODULE MCHistory -----------------------------
(* The keyboard, files and users of MCImport, with the history of the      *)
(* lighting sessions.                                                      *)
EXTENDS ImportHistory, MCImport, TLC

(* The two processes run the same commands, and no step asks which of the  *)
(* two values the rest of the profile has.                                 *)
MCSymmetry == {f @@ g : f \in Permutations(MCTwoProcs), g \in Permutations(MCTwoRests)}

(* Every keyboard has a page to be overwritten. *)
MCPaged == {f \in MCForeign : f.table # <<>>}
=============================================================================
