------------------------------ MODULE MCExport ------------------------------
(* Exports next to imports, on the keyboard of MCImport.                   *)
EXTENDS ExportCommand, MCImport, TLC

CONSTANTS unbound, ctrl

MCKeyless == {unbound, ctrl}
MCExportPlain == MCPlain \union MCKeyless
MCExportValues == MCValues \union MCKeyless

(* Tables as other tools may leave them too: two macros of one name, and a *)
(* mouse macro.                                                            *)
MCExportTables == {<<m2, m1>>, <<m1, m1>>, <<mouse>>}
MCExportPageCount == [t \in MCExportTables \union {<<>>} |-> Len(t)]
MCExportPageImages == [table : MCExportTables, part : {0, 1}]

(* On some keyboards somebody has unbound a key, next to a macro that is   *)
(* played three times; on one, a key is a bare Ctrl.                       *)
Keyboard(table, first, second) ==
  [table |-> table,
   matrix |-> (0 :> (s1 :> first @@ s2 :> factory) @@ 1 :> (s1 :> second @@ s2 :> other)),
   colors |-> [s \in MCSlots |-> black]]
MCKeyboards ==
  {Keyboard(t, unbound, Reference(0, thrice)) : t \in MCExportTables}
  \union {Keyboard(<<m2, m1>>, Reference(1, once), ctrl)}

Export(full) == [op |-> "export-hcl", full |-> full]
GetMacrosJob == [op |-> "get-macros", full |-> FALSE]

(* One process imports; the other exports or reads macros.                 *)
MCExports == [p \in MCTwoProcs |->
               IF p = p1 THEN {} ELSE {Export(TRUE), Export(FALSE), GetMacrosJob}]
=============================================================================
