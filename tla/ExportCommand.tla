--------------------------- MODULE ExportCommand ---------------------------
(***************************************************************************)
(* export-hcl and get-macros next to import-hcl: an export reads the macro *)
(* table, the layers and the colours in three sessions and writes one file *)
(* of what it read.                                                        *)
(*                                                                         *)
(* Nothing is written to the keyboard here, but another process may import *)
(* between any two sections, or, with shared opens, between any two reads. *)
(***************************************************************************)
EXTENDS ImportCommand

CONSTANTS
  Importers,    \* processes that import given files (a bound: all could)
  ExportJobs,   \* process -> the commands [op, full] it may be given, with op
                \* "export-hcl" or "get-macros"
  Unbound,      \* the slot value 0
  Keyless,      \* slot values of the KeyBoard type without a key code: Unbound
                \* and the bare modifiers
  Once,         \* how a macro whose block has no repeat count is played
  NoAction,     \* a mapping block without an action
  NoFile        \* nothing has been exported yet

ASSUME ExportAssumption ==
  /\ Importers \subseteq Procs
  /\ ExportJobs \in [Procs -> SUBSET [op : {"export-hcl", "get-macros"}, full : BOOLEAN]]
  /\ Unbound \in Keyless /\ Keyless \subseteq Plain
  /\ Once \in Plays
  /\ NoAction \notin Values \union MacroNames

VARIABLES
  read,         \* process -> what its export has read so far
  disk,         \* the file the last export wrote
  quiet         \* history: process -> no store changed since its export began

exportVars == <<importVars, read, disk, quiet>>

-----------------------------------------------------------------------------
(* What has been read *)

Unread == [pages |-> <<>>, table |-> <<>>, layers |-> <<>>]

(* What get_feature_report leaves in the buffer for one page: a macro page *)
(* of whatever number, nothing if nothing was ever prepared, or the bytes  *)
(* of another store.  Neither length nor page is checked.                  *)
Garbage == Page(<<>>, NumPages)
Copied(p) ==
  IF reply = NoReply THEN Page(<<>>, next[p])
  ELSE IF reply.op = "GetMacros" THEN reply.data
  ELSE Garbage

(* decode_macro_table: the pages of one table give that table; of a        *)
(* mixture, all that is said is that some table comes out.                 *)
Decodings(pages) ==
  LET table == pages[1].table IN
  IF \A i \in {0} \union 0 .. PageCount[table] - 1 : pages[i + 1] = Page(table, i)
    THEN {table} ELSE Tables

(* What the macro table of the keyboard would be read as now.              *)
TableNow == Decodings([i \in 1 .. NumPages |-> macros[i - 1]])

(* The slot values that refer to a macro of the table.                     *)
Refers(table, value) == value \notin Plain /\ value.macro < Len(table)

(* Mutant: indices counted from one.                                       *)
NamedFromOne(table, value) ==
  IF value \in Keyless THEN NoAction
  ELSE IF value \notin Plain /\ value.macro \in 1 .. Len(table) THEN table[value.macro]
  ELSE value

(* slot_to_hcl_attrs: a macro by its name alone, if the table that was     *)
(* read has one at its index.  Without a key code a mapping block has at   *)
(* most modifiers in it, and no action.                                    *)
Printed(table, value) ==
  IF value \in Keyless THEN NoAction
  ELSE IF Refers(table, value) THEN table[value.macro + 1]
  ELSE value

(* dump and dump_diff: slots equal to the factory's (in a full export: to  *)
(* zero) are left out; so are black keys.  dump_macros prints no repeat    *)
(* count, so every block reads back with the default one.                  *)
Baseline(job, layer, slot) == IF job.full THEN Unbound ELSE Factory[layer][slot]

Exported(job, parts, lit) ==
  [macros |-> parts.table,
   plays |-> [i \in DOMAIN parts.table |-> Once],
   layers |-> [l \in Layers |->
                [s \in {s \in Slots : parts.layers[l + 1][s] # Baseline(job, l, s)} |->
                  Printed(parts.table, parts.layers[l + 1][s])]],
   colors |-> [s \in {s \in Slots : lit[s] # Black} |-> lit[s]]]

-----------------------------------------------------------------------------
ExportInit ==
  /\ ImportInit
  /\ read = [p \in Procs |-> Unread]
  /\ disk = NoFile
  /\ quiet = [p \in Procs |-> TRUE]

Exporting(p) == Running(p) /\ cmd[p].op # "import-hcl"

StartExport(p) ==
  /\ \E job \in ExportJobs[p] : Begin(p, job, "table-open")
  /\ quiet' = [quiet EXCEPT ![p] = TRUE]
  /\ UNCHANGED <<next, read, disk>>

OpenPart(p) ==
  /\ \/ Open(p, "table-open", "page-read")
     \/ Open(p, "matrix-open", "matrix-read")
     \/ Open(p, "leds-open", "leds-read")
  /\ next' = [next EXCEPT ![p] = 0]
  /\ UNCHANGED <<read, disk, quiet>>

ClosePart(p) ==
  /\ \/ Close(p, "table-close", IF cmd[p].op = "get-macros" THEN "done" ELSE "matrix-open")
     \/ Close(p, "matrix-close", "leds-open")
     \/ Close(p, "leds-close", "write-file")
  /\ read' = [read EXCEPT ![p] = IF pc'[p] = "done" THEN Unread ELSE @]
  /\ UNCHANGED <<next, disk, quiet>>

(* read_macros, one page at a time, all of them.                           *)
AskPage(p) ==
  /\ Ask(p, "page-read", GetMacros(next[p]), "page-wait")
  /\ UNCHANGED <<next, read, disk, quiet>>

TakePage(p) ==
  LET pages == Append(read[p].pages, Copied(p)) IN
  /\ pc[p] = "page-wait"
  /\ AnswerDue(p)
  /\ next' = [next EXCEPT ![p] = @ + 1]
  /\ IF next[p] + 1 \in Pages
       THEN Goto(p, "page-read") /\ read' = [read EXCEPT ![p].pages = pages]
       ELSE /\ Goto(p, "table-close")
            /\ \E table \in Decodings(pages) :
                 read' = [read EXCEPT ![p] = [Unread EXCEPT !.table = table]]
  /\ UNCHANGED <<deviceVars, holders, cmd, got, disk, quiet>>

(* read_layer for each layer, read_colors.                                 *)
AskMatrix(p) ==
  /\ Ask(p, "matrix-read", GetKeyMatrix(next[p]), "matrix-wait")
  /\ UNCHANGED <<next, read, disk, quiet>>

TakeMatrix(p) ==
  /\ Take(p, "matrix-wait", "GetKeyMatrix",
          IF next[p] + 1 \in Layers THEN "matrix-read" ELSE "matrix-close")
  /\ read' = [read EXCEPT ![p].layers = Append(@, reply.data)]
  /\ next' = [next EXCEPT ![p] = @ + 1]
  /\ UNCHANGED <<disk, quiet>>

AskLeds(p) ==
  /\ Ask(p, "leds-read", GetLedColors, "leds-wait")
  /\ UNCHANGED <<next, read, disk, quiet>>

TakeLeds(p) ==
  /\ Take(p, "leds-wait", "GetLedColors", "leds-close")
  /\ UNCHANGED <<next, read, disk, quiet>>

(* fs::write, after everything has been read.                              *)
WriteFile(p) ==
  /\ pc[p] = "write-file"
  /\ disk' = Exported(cmd[p], read[p], got[p])
  /\ Goto(p, "done")
  /\ read' = [read EXCEPT ![p] = Unread]
  /\ got' = [got EXCEPT ![p] = NoBuffer]
  /\ UNCHANGED <<deviceVars, holders, cmd, next, quiet>>

(* The ways an export ends early: no handle, a failed assertion, a kill.   *)
EndsEarly(p) ==
  /\ Exporting(p)
  /\ \/ \E from \in {"table-open", "matrix-open", "leds-open"} : OpenRefused(p, from)
     \/ Panic(p, "matrix-wait", "GetKeyMatrix")
     \/ Panic(p, "leds-wait", "GetLedColors")
  /\ read' = [read EXCEPT ![p] = Unread]
  /\ UNCHANGED <<next, disk, quiet>>

ExportDies(p) ==
  /\ Exporting(p)
  /\ Die(p)
  /\ read' = [read EXCEPT ![p] = Unread]
  /\ UNCHANGED <<next, disk, quiet>>

ExportStep(p) ==
  \/ OpenPart(p) \/ ClosePart(p) \/ AskPage(p) \/ TakePage(p)
  \/ AskMatrix(p) \/ TakeMatrix(p) \/ AskLeds(p) \/ TakeLeds(p)
  \/ WriteFile(p) \/ EndsEarly(p)

(* Imports, the keyboard and its user go on as before.                     *)
Aside ==
  /\ quiet' = IF <<matrix, macros, colors>>' = <<matrix, macros, colors>> THEN quiet
              ELSE [p \in Procs |-> ~Exporting(p) /\ quiet[p]]
  /\ UNCHANGED <<read, disk>>

ImportAside(p) == ImportStep(p) /\ Aside

KeyboardAside == (KeyboardStep \/ UserStep) /\ Aside

ExportNext ==
  \/ \E p \in Procs : StartExport(p) \/ ExportStep(p) \/ ExportDies(p) \/ ImportAside(p)
  \/ \E p \in Importers : StartImport(p) /\ Aside
  \/ \E p \in Procs : ~Exporting(p) /\ ImportDies(p) /\ Aside
  \/ KeyboardAside

ExportSpec == ExportInit /\ [][ExportNext]_exportVars

-----------------------------------------------------------------------------
(* Properties *)

(* When an export closes a session, what it has read there is what the     *)
(* keyboard holds, page after page and layer after layer.                  *)
PartIsCurrent ==
  [][\A p \in Procs :
       /\ Passes(p, "table-close") => read[p].table \in TableNow
       /\ Passes(p, "matrix-close") => \A l \in Layers : read[p].layers[l + 1] = matrix[l]
       /\ Passes(p, "leds-close") => got[p] = colors]_exportVars

(* If nothing was written while an export ran, its file is refused only    *)
(* where nothing on the keyboard can be written in a file: macros of one   *)
(* name, a macro with a step that no event stands for, or a key, other     *)
(* than its baseline, without a key code.  A file that is accepted brings  *)
(* every part back as the keyboard has it, but for two losses: a macro     *)
(* that is named is played once, and a full export gives unbound keys      *)
(* their factory value.                                                    *)
DistinctNames(table) == \A i, j \in DOMAIN table : table[i] = table[j] => i = j
Writable(job, table) ==
  /\ DistinctNames(table)
  /\ \A i \in DOMAIN table : table[i] \notin Unwritable
  /\ \A l \in Layers, s \in Slots :
       matrix[l][s] \in Keyless => matrix[l][s] = Baseline(job, l, s)

ComesBack(job, file, l, s) ==
  LET old == matrix[l][s]
      new == LayerTarget(file, l)[s] IN
  \/ new = old
  \/ Refers(file.macros, old) /\ new = [old EXCEPT !.plays = Once]
  \/ job.full /\ old = Unbound /\ new = Factory[l][s]

QuietExportRestores ==
  [][\A p \in Procs :
       /\ Passes(p, "write-file") /\ quiet[p]
       /\ \E table \in Tables : TableNow = {table}
       => /\ Valid(disk') <=> Writable(cmd[p], disk'.macros)
          /\ MacrosMatch(disk')
          /\ ColorsMatch(disk')
          /\ Valid(disk') /\ HasLayers(disk') =>
               \A l \in Layers, s \in Slots : ComesBack(cmd[p], disk', l, s)]_exportVars
=============================================================================
