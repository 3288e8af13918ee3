--------------------------- MODULE ImportCommand ---------------------------
(***************************************************************************)
(* import-hcl: a parsed file is written to the keyboard in three sections, *)
(* macros, then layers, then lighting, each in a session of its own.  The  *)
(* macro table goes page by page without a read; a layer and the colours   *)
(* are read first and written only if they differ; before the colours are  *)
(* written the profile is switched to SelfDefine.                          *)
(*                                                                         *)
(* A run may die between any two of these steps, another run may slip in   *)
(* between two sections (or, without exclusive opens, anywhere), and the   *)
(* user may change the lighting effect on the keyboard itself.             *)
(***************************************************************************)
EXTENDS Process, Sequences, FiniteSets

CONSTANTS
  Plain,        \* slot values that are not macro references
  MacroNames,   \* macros, each by its name, as `macro = "..."` uses it
  Unwritable,   \* macros with a step that no event of a file stands for: a
                \* mouse step, a key or a modifier without a name
  Plays,        \* how a key plays its macro: cycle type and repeat count
  Tables,       \* macro tables (sequences of macros) a device may hold
  PageCount,    \* table -> pages its encoding fills
  Factory,      \* layer -> factory key buffer
  Black,        \* colour of a key that no file lights
  SelfDefine,   \* LED mode that shows the per-key colours
  Fresh,        \* what keyboards hold at first: a set of [matrix, table, colors]
  Files,        \* documents users import: [macros, plays, layers, colors],
                \* plays being the repeat counts of the macro blocks
  DryRuns       \* values users give to --dry-run

MacroReferences == [macro : Nat, plays : Plays]

(* A macro reference is the index of the macro in the table and how it is  *)
(* played.  A table with a macro fills a page, and pages hold their table  *)
(* and their number.                                                       *)
ASSUME ImportAssumption ==
  /\ Plain \subseteq Values /\ Values \ Plain \subseteq MacroReferences
  /\ Unwritable \subseteq MacroNames
  /\ Values \intersect MacroNames = {}
  /\ Tables \subseteq Seq(MacroNames)
  /\ \A t \in Tables : \A i \in DOMAIN t, how \in Plays :
       [macro |-> i - 1, plays |-> how] \in Values
  /\ \A t \in Tables : PageCount[t] \in (IF t = <<>> THEN {0} ELSE 1 .. NumPages)
  /\ \A t \in Tables, i \in Pages : [table |-> t, part |-> i] \in PageImages
  /\ Factory \in [Layers -> KeyBuffers]
  /\ Black \in Colors /\ SelfDefine \in Modes
  /\ DryRuns \subseteq BOOLEAN
  /\ Fresh \subseteq [matrix : [Layers -> KeyBuffers], table : Tables, colors : ColorBuffers]
  /\ \A f \in Files : /\ f.plays \in [DOMAIN f.macros -> Plays]
                      /\ \A s \in DOMAIN f.colors : f.colors[s] \in Colors

VARIABLE next       \* process -> the page or the layer it handles next
importVars == <<vars, next>>

-----------------------------------------------------------------------------
(* The file *)

ImportJobs == [op : {"import-hcl"}, file : Files, dry : DryRuns]

ActionsOf(file) == UNION {{file.layers[l][s] : s \in DOMAIN file.layers[l]} : l \in Layers}

(* HclConfig::parse_with: the encoded macros fit the table, no two of them *)
(* have one name, every event of theirs has a key, and every mapping has   *)
(* an action: a slot value, or a macro that is defined in the same file.   *)
Valid(file) ==
  /\ file.macros \in Tables
  /\ \A i, j \in DOMAIN file.macros : file.macros[i] = file.macros[j] => i = j
  /\ \A i \in DOMAIN file.macros : file.macros[i] \notin Unwritable
  /\ ActionsOf(file) \subseteq Values \union {file.macros[i] : i \in DOMAIN file.macros}

HasMacros(file) == file.macros # <<>>
HasLayers(file) == \E l \in Layers : DOMAIN file.layers[l] # {}
HasLighting(file) == DOMAIN file.colors # {}

(* encode_macro_reference: a name becomes its position in the file, to be  *)
(* played as often as its macro block says.                                *)
Position(file, name) == CHOOSE i \in DOMAIN file.macros : file.macros[i] = name
SlotValue(file, action) ==
  IF action \in MacroNames
    THEN [macro |-> Position(file, action) - 1, plays |-> file.plays[Position(file, action)]]
    ELSE action

(* Mutant: the file's mappings alone, on no base.                          *)
MappedAlone(file, l) == [s \in DOMAIN file.layers[l] |-> SlotValue(file, file.layers[l][s])]

(* The factory layer, patched with what the file maps.                     *)
LayerTarget(file, l) ==
  [s \in Slots |-> IF s \in DOMAIN file.layers[l] THEN SlotValue(file, file.layers[l][s])
                   ELSE Factory[l][s]]

(* compile_lighting: keys the file does not mention are black.             *)
ColorTarget(file) ==
  [s \in Slots |-> IF s \in DOMAIN file.colors THEN file.colors[s] ELSE Black]

(* One page of an encoded table; decoding needs all pages of one table.    *)
Page(table, i) == [table |-> table, part |-> i]
Holds(table) == \A i \in 0 .. PageCount[table] - 1 : macros[i] = Page(table, i)

-----------------------------------------------------------------------------
ImportInit ==
  /\ \E f \in Fresh : /\ matrix = f.matrix /\ colors = f.colors
                      /\ macros = [i \in Pages |-> Page(f.table, i)]
  /\ profile \in Profiles
  /\ settling = FALSE
  /\ asked = NoRequest
  /\ reply = NoReply
  /\ holders = {}
  /\ pc = [p \in Procs |-> "idle"]
  /\ cmd = [p \in Procs |-> NoCommand]
  /\ got = [p \in Procs |-> NoBuffer]
  /\ next = [p \in Procs |-> 0]

File(p) == cmd[p].file

AfterLayers(file) == IF HasLighting(file) THEN "colors-open" ELSE "done"
AfterMacros(file) == IF HasLayers(file) THEN "layers-open" ELSE AfterLayers(file)

AfterParse(job) ==
  IF HasMacros(job.file) /\ ~job.dry THEN "macros-open" ELSE AfterMacros(job.file)

StartImport(p) ==
  /\ \E job \in ImportJobs : Begin(p, job, "parsing")
  /\ UNCHANGED next

(* Everything is parsed and checked before the device is looked for.       *)
Parse(p) ==
  /\ pc[p] = "parsing"
  /\ IF Valid(File(p)) THEN Goto(p, AfterParse(cmd[p])) /\ UNCHANGED <<cmd, got>>
                       ELSE Fail(p)
  /\ UNCHANGED <<deviceVars, holders, next>>

(* The three opens; each section counts its pages or layers from zero.     *)
OpenSection(p) ==
  /\ \/ Open(p, "macros-open", "macros-write")
     \/ Open(p, "layers-open", "layer-read")
     \/ Open(p, "colors-open", "colors-read")
  /\ next' = [next EXCEPT ![p] = 0]

CloseSection(p) ==
  /\ \/ Close(p, "macros-close", AfterMacros(File(p)))
     \/ Close(p, "layers-close", AfterLayers(File(p)))
     \/ Close(p, "colors-close", "done")
  /\ UNCHANGED next

(* Mutant: the page count rounded down, for tables of several pages.       *)
LastWholePage(table) == IF PageCount[table] > 1 THEN PageCount[table] - 2 ELSE 0

LastPage(table) == PageCount[table] - 1

(* MacroRepository::write_macros, one fire-and-forget page at a time.      *)
WriteMacroPage(p) ==
  LET last == LastPage(File(p).macros) IN
  /\ pc[p] = "macros-write"
  /\ SetMacros(next[p], Page(File(p).macros, next[p]))
  /\ next' = [next EXCEPT ![p] = @ + 1]
  /\ Goto(p, IF next[p] = last THEN "macros-close" ELSE "macros-write")
  /\ UNCHANGED <<holders, cmd, got>>

(* apply_slot_maps: read a layer, skip it if it is a dry run or already    *)
(* what it should be, otherwise write it.                                  *)
(* Mutants: the last layer forgotten; only the mapped slots compared.      *)
NextButLast(p) == IF next[p] + 2 \in Layers THEN "layer-read" ELSE "layers-close"
SkipIfMappedMatch(p) ==
  \/ cmd[p].dry
  \/ \A s \in DOMAIN File(p).layers[next[p]] : reply.data[s] = LayerTarget(File(p), next[p])[s]

NextLayer(p) == IF next[p] + 1 \in Layers THEN "layer-read" ELSE "layers-close"
SkipLayer(p) == cmd[p].dry \/ reply.data = LayerTarget(File(p), next[p])

ReadLayer(p) ==
  /\ Ask(p, "layer-read", GetKeyMatrix(next[p]), "layer-wait")
  /\ UNCHANGED next

TakeLayer(p) ==
  /\ Take(p, "layer-wait", "GetKeyMatrix", IF SkipLayer(p) THEN NextLayer(p) ELSE "layer-write")
  /\ next' = [next EXCEPT ![p] = IF SkipLayer(p) THEN @ + 1 ELSE @]

WriteLayer(p) ==
  /\ pc[p] = "layer-write"
  /\ SetKeyMatrix(next[p], LayerTarget(File(p), next[p]))
  /\ Goto(p, NextLayer(p))
  /\ next' = [next EXCEPT ![p] = @ + 1]
  /\ UNCHANGED <<holders, cmd, got>>

(* apply_lighting: nothing to do if the colours are there already.         *)
ReadColors(p) ==
  /\ Ask(p, "colors-read", GetLedColors, "colors-wait")
  /\ UNCHANGED next

(* Mutant: --dry-run is looked at only after the profile was switched.     *)
TakeColorsDryLate(p) ==
  /\ Take(p, "colors-wait", "GetLedColors",
          IF reply.data = ColorTarget(File(p)) THEN "colors-close" ELSE "profile-read")
  /\ UNCHANGED next

TakeColors(p) ==
  /\ Take(p, "colors-wait", "GetLedColors",
          IF reply.data = ColorTarget(File(p)) \/ cmd[p].dry
            THEN "colors-close" ELSE "profile-read")
  /\ UNCHANGED next

(* enter_self_define: read the profile, set the mode and its marker, write *)
(* the whole profile back and sleep; the caller sleeps once more.          *)
ReadProfile(p) ==
  /\ Ask(p, "profile-read", GetProfile, "profile-wait")
  /\ UNCHANGED next

TakeProfile(p) ==
  /\ Take(p, "profile-wait", "GetProfile", "profile-write")
  /\ UNCHANGED next

(* Mutants: a profile of any bytes instead of the one read; no sleeps.     *)
WriteMadeUpProfile(p) ==
  /\ pc[p] = "profile-write"
  /\ \E rest \in Rests : SetProfile([mode |-> SelfDefine, rest |-> rest])
  /\ Goto(p, "profile-sleep")
  /\ UNCHANGED <<holders, cmd, got, next>>
NoWait(p) ==
  /\ pc[p] = "profile-sleep"
  /\ Goto(p, "colors-write")
  /\ UNCHANGED <<deviceVars, holders, cmd, got, next>>

WriteProfile(p) ==
  /\ pc[p] = "profile-write"
  /\ SetProfile([got[p] EXCEPT !.mode = SelfDefine])
  /\ Goto(p, "profile-sleep")
  /\ UNCHANGED <<holders, cmd, got, next>>

(* A prompt device has applied the mode when the sleeps are over.          *)
WakeUp(p) ==
  /\ pc[p] = "profile-sleep"
  /\ ~(Prompt /\ settling)
  /\ Goto(p, "colors-write")
  /\ UNCHANGED <<deviceVars, holders, cmd, got, next>>

WriteColors(p) ==
  /\ pc[p] = "colors-write"
  /\ SetLedColors(ColorTarget(File(p)))
  /\ Goto(p, "colors-close")
  /\ UNCHANGED <<holders, cmd, got, next>>

(* The length assertions of the three reads.                               *)
(* Mutant: a profile of another length is waited for.                      *)
PanicOnLayerOrColors(p) ==
  Panic(p, "layer-wait", "GetKeyMatrix") \/ Panic(p, "colors-wait", "GetLedColors")

PanicOnRead(p) ==
  \/ Panic(p, "layer-wait", "GetKeyMatrix")
  \/ Panic(p, "colors-wait", "GetLedColors")
  \/ Panic(p, "profile-wait", "GetProfile")

(* An import fails for want of a handle, or on a failed assertion.         *)
ImportFails(p) ==
  /\ \/ \E from \in {"macros-open", "layers-open", "colors-open"} : OpenRefused(p, from)
     \/ PanicOnRead(p)
  /\ UNCHANGED next

ImportStep(p) ==
  \/ Parse(p) \/ OpenSection(p) \/ CloseSection(p)
  \/ WriteMacroPage(p)
  \/ ReadLayer(p) \/ TakeLayer(p) \/ WriteLayer(p)
  \/ ReadColors(p) \/ TakeColors(p) \/ ReadProfile(p) \/ TakeProfile(p)
  \/ WriteProfile(p) \/ WakeUp(p) \/ WriteColors(p)
  \/ ImportFails(p)

ImportDies(p) == Die(p) /\ UNCHANGED next

(* The keyboard and its user. *)
KeyboardStep ==
  /\ DeviceAnswers \/ DeviceSettles
  /\ UNCHANGED <<holders, processVars, next>>

UserStep ==
  /\ \E new \in Profiles : UserSetsProfile(new)
  /\ UNCHANGED <<holders, processVars, next>>

Next ==
  \/ \E p \in Procs : StartImport(p) \/ ImportStep(p) \/ ImportDies(p)
  \/ KeyboardStep
  \/ UserStep

Spec == ImportInit /\ [][Next]_importVars

(* A process keeps running, the keyboard answers and settles.  RetrySpec   *)
(* adds a user who runs a failed import again.                             *)
Fairness ==
  /\ \A p \in Procs : WF_importVars(ImportStep(p))
  /\ WF_importVars(KeyboardStep)

Retry(p) == pc[p] \in {"idle", "failed"} /\ StartImport(p)
FairSpec == Spec /\ Fairness
RetrySpec == FairSpec /\ \A p \in Procs : WF_importVars(Retry(p))

-----------------------------------------------------------------------------
(* Properties *)

ImportLabels ==
  Ended \union
  {"parsing", "macros-open", "macros-write", "macros-close",
   "layers-open", "layer-read", "layer-wait", "layer-write", "layers-close",
   "colors-open", "colors-read", "colors-wait", "profile-read", "profile-wait",
   "profile-write", "profile-sleep", "colors-write", "colors-close"}

(* Every variable has its type: whatever reply a process accepts, each     *)
(* store keeps holding buffers of its own kind.                            *)
TypeOK ==
  /\ DeviceTypeOK
  /\ SessionTypeOK
  /\ pc \in [Procs -> ImportLabels]
  /\ cmd \in [Procs -> ImportJobs \union {NoCommand}]
  /\ got \in [Procs -> KeyBuffers \union ColorBuffers \union Profiles \union {NoBuffer}]
  /\ next \in [Procs -> Nat]

(* The step with which process p gets past a label. *)
Passes(p, label) == pc[p] = label /\ pc'[p] \notin {label, "failed"}

MacrosMatch(file) == HasMacros(file) => Holds(file.macros)
LayersMatch(file) == HasLayers(file) => \A l \in Layers : matrix[l] = LayerTarget(file, l)
ColorsMatch(file) == HasLighting(file) => colors = ColorTarget(file)

(* When a section of an import ends, its part of the keyboard is what the  *)
(* file says: nobody wrote in between, no page or layer was skipped that   *)
(* had to be written, and leftovers of an import that died are gone.       *)
SectionEstablishes ==
  [][\A p \in Procs :
       /\ Passes(p, "macros-close") => MacrosMatch(File(p))
       /\ Passes(p, "layers-close") /\ ~cmd[p].dry => LayersMatch(File(p))
       /\ Passes(p, "colors-close") /\ ~cmd[p].dry => ColorsMatch(File(p))]_importVars

(* An import that ends well leaves the keyboard as the file says, in every *)
(* part the file mentions.                                                 *)
ImportEstablishes ==
  \A p \in Procs : pc[p] = "done" /\ ~cmd[p].dry =>
    MacrosMatch(File(p)) /\ LayersMatch(File(p)) /\ ColorsMatch(File(p))

(* A layer is written only while the macro table is, whole, the one of the *)
(* file whose macros the layer refers to by index.                         *)
MacrosBeforeLayers ==
  [][\A p \in Procs : Passes(p, "layer-write") => MacrosMatch(File(p))]_importVars

(* The keyboard is written only by a process that imports a valid file for *)
(* real and has it open: whatever a rejected file names, and whatever a    *)
(* dry run finds to differ, keys, macros, colours and lighting mode stay.  *)
(* Only its user changes the profile otherwise.                            *)
Advances(p) == <<pc[p], next[p]>>' # <<pc[p], next[p]>>
KeyboardWritten ==
  \/ <<matrix, macros, colors>>' # <<matrix, macros, colors>>
  \/ settling' /\ ~settling
  \/ profile' # profile /\ pc' # pc
OnlyImportsWrite ==
  [][KeyboardWritten =>
       \E p \in Procs : /\ Advances(p) /\ Running(p) /\ p \in holders
                        /\ Valid(File(p)) /\ ~cmd[p].dry]_importVars

(* If imports die only finitely often, and from some time on the user     *)
(* imports one file, again when it failed, the keyboard ends up as that    *)
(* file says and stays so, whatever the runs before had left.              *)
NoDeath == \A p \in Procs : Running(p) => pc'[p] # "failed"
Imports(file) == \A p \in Procs : cmd[p] = [op |-> "import-hcl", file |-> file, dry |-> FALSE]
RetryConverges ==
  <>[][NoDeath]_importVars =>
    \A f \in {f \in Files : Valid(f)} :
      <>[]Imports(f) => <>[](MacrosMatch(f) /\ LayersMatch(f) /\ ColorsMatch(f))

(* Whatever the reports that are read, every import comes to an end, well  *)
(* or badly: a wrong report ends it, and none makes it wait or start over. *)
ImportsEnd == \A p \in Procs : Running(p) ~> ~Running(p)
=============================================================================
