# Verification of rk-a72

TLA+ models of `rk-a72`, the command line tool that reads and writes the key
mappings, macros and per-key colours of an RK A72 keyboard over HID feature
reports. The modules are translated from the Rust sources (`src/rk-a72-keymap`,
`src/rk-a72-cli`); TLC checks them on small instances and TLAPS proves the
theorems of the `*Proofs` modules for every value of the constants.

`PROJECT.json` lists the components, the runs, one mutant for every checked
property, the source lines behind each definition, the hazards and the theorems.

    tlc -workers 2 -config MCKeymap_exclusive.cfg MCKeymap.tla
    tlapm KeymapCommandsProofs.tla

## 1. The system

| Component | Source | State | Operations |
|---|---|---|---|
| keyboard firmware | not in the repository | key matrix of 3 layers, 8 macro pages, LED colours, profile, the report prepared last | answers Get reports, applies Set reports, settles after a mode change |
| protocol frames | `protocol.rs` | none | builds 520-byte requests, parses a response's echo, length and data |
| wired session | `session.rs`, `device.rs` | one open HID handle | open, send / sleep / read, send pages, drop |
| repositories | `repository.rs` | the session they own | read and write a layer, the colours, the profile, the macro table; `enter_self_define` |
| `get-keymap`, `set-keymap` | `main.rs` | the layer that was read | read a layer; patch one slot, write the whole layer back |
| `import-hcl` | `main.rs`, `model.rs` | the parsed file | macros, then layers, then lighting, each in a session of its own |
| `export-hcl` | `main.rs`, `hcl.rs` | what the three reading sessions returned | prints differences from the factory, or everything |
| `get-macros` | `main.rs` | the pages that were read | reads and lists the macro table |
| slot values and their text | `codec.rs`, `mapping_type.rs`, `modifiers.rs`, `hcl.rs` | two data tables | decode, print as attributes, resolve attributes, macro references |
| macro table codec | `macros.rs` | none | encode and decode the table, a macro, an action |
| macro events | `hcl.rs` | the pending delay | validate, expand typed text, compile, print |
| layer and lighting blocks | `hcl.rs`, `layout.rs` | none | names and `slotN` to slots, colours, themes |
| model and factory table | `model.rs` | data | factory buffer, `patch_buffer` |
| HCL grammar, `env()` | `hcl.rs` with hcl-rs | none | parse and evaluate a document |
| `list-keys`, visual overrides, completion | `main.rs`, `visual.rs` | none | printing |
| build script, JSON tables | `build.rs`, `data/` | data | checks at build time |

**How they interact.** A command parses and checks everything first, then opens a
`WiredSession`, which a repository takes over. A read is `send_feature_report`, a
fixed sleep of 150 ms, `get_feature_report`; the repository checks the length of
what came back and nothing else. A write is a send alone: nobody waits for it.
The keyboard is the only thing two runs of the program share. On macOS a second
open of the device fails; on Linux and Windows it succeeds.

**What is hard here.** There are no threads; concurrency is between processes (two
commands in two terminals, a script and a user) and with the user's own hands on
the lighting keys. The places that no unit test reaches:

* read-modify-write of a whole layer for one key (`main.rs:432`) and of a whole
  profile for two bytes (`repository.rs:160`);
* responses that are never compared with the request, after a sleep of fixed
  length (`session.rs:42`);
* three sections of an import with a session each, in an order that matters
  because layers refer to macros by index (`main.rs:530`);
* a process that dies between two reports, and an import that has to repair what
  such a process left;
* skipping a write because what was read equals the target (`main.rs:576`, `674`);
* a table cut into pages wherever it falls, whose last page is short;
* text that is printed from one state and read back in another.

**What makes each part correct.**

* `set-keymap` changes one key and reports the value it had; a dry run nothing.
* An import that ends well leaves the keyboard as the file says; layers are
  written only under the macro table their indices belong to; colours only when
  the keyboard shows them; running it again after a failure repairs everything.
* A macro list that was written whole is what every later read decodes.
* What was printed from a key, a macro, a layer or the colours, and can be imported,
  puts it back; an export that nobody disturbed brings the keyboard back, up to losses
  that are known and stated.
* A mapping or colour of an accepted document is lost only to another one for the same
  key, in ways that are known and stated.
* A block of macro events plays as it was written.

## 2. Modules

    Device <- Session <- Process <- KeymapCommands <- KeymapCommandsProofs, MCKeymap
                 |          |            '-- INSTANCE AtomicKeymap
                 |          '--- ImportCommand <- MCImport
                 |                    |---- ImportHistory <- ImportCommandProofs, MCHistory (with MCImport)
                 |                    '---- ExportCommand <- ExportCommandProofs, MCExport (with MCImport)
                 '-- INSTANCE in Reports <- ReportsProofs, MCReports
    SlotText <- DocumentTrip <- DocumentTripProofs, MCTrip
    LayerDocument <- LayerDocumentProofs, MCLayers
    MacroTable <- MacroRepository <- MacroRepositoryProofs, MCMacros
    MacroDocument <- MacroDocumentProofs, MCMacroDocument

| Module | What it models | State, and what it stands for |
|---|---|---|
| `Device` | the keyboard as the program relies on it (external) | `matrix`, `macros`, `colors`, `profile`: the stores. `asked`: the Get report being answered and who sent it. `reply`: what `get_feature_report` returns next. `settling`: a mode change is being applied |
| `Session` | `WiredSession` | `holders`: the processes with an open handle |
| `Reports` | the bytes below `Session`: `build_request`, the two macro page requests, `parse_response`, `patch_buffer`, the profile's two bytes | `stores`: the keyboard's memory in bytes. `pending`, `report`: the request being answered, the report prepared. `waiting`, `taken`: what the host waits for and what it has read |
| `Process` | one run of the binary: begin, open, ask, take, panic, close, die | `pc`: the next step. `cmd`: the command line. `got`: the payload received last |
| `KeymapCommands` | `get_keymap`, `set_keymap` with `KeyMatrixRepository` | as above |
| `AtomicKeymap` | what the two commands promise: each acts in one step | `matrix`, `task`, `status`, `seen` |
| `ImportCommand` | `import_hcl`, `apply_slot_maps`, `apply_lighting`, `enter_self_define`, `write_macros` as a sequence of sends | `next`: the page or layer in the loop |
| `ImportHistory` | the same beside a user who picks lighting effects on the keyboard | `session`: history, for each process in its lighting session the profile it found and those the user picked since. It constrains no step and no step reads it |
| `ExportCommand` | `export_hcl` and `get_macros` as processes beside imports | `read`: the pages, table and layers read so far. `disk`: the file written last. `quiet`: history, whether a store changed since an export began |
| `LayerDocument` | `PhysicalKeyboardLayout`, `check_duplicate_mapping_labels`, `validate_layers`, `validate_lighting`, `layer_slot_maps`, `compile_lighting`, `dump_impl`, `dump_lighting` | `matrix`, `leds`: the keyboard's buffers. `document`: blocks with their labels as texts. `source`: who made the document, and the buffers it was printed from |
| `SlotText` | `KeyMappingCodec::decode`, `slot_to_hcl_attrs`, `resolve_action`, `to_slot_value`, `encode_macro_reference`, `encode_from_flags`, as operators | none |
| `DocumentTrip` | one key through `export-hcl`, `get-keymap`, a text editor, `import-hcl`, `set-keymap` and other tools | `value`, `table`: the key and the macro names on the keyboard. `document`, `source`: the text and where it is from |
| `MacroTable` | `macros.rs`, byte for byte | none |
| `MacroRepository` | `write_macros`, `read_macros` over a byte memory | `memory`, `phase`, `page`, `buffer`, `result`; `list` and `whole` record what was sent |
| `MacroDocument` | `validate_macros`, `ascii_text_to_events`, `compile_one_macro`, `dump_macros` | `macro`: actions on the keyboard. `script`: the events in the document. `printed`: what it was printed from |

`MC*` modules give the constants values for TLC. Comments marked *Mutant* in front
of a definition describe variants of it with a plausible mistake; the runs are
known to reject each of them (`PROJECT.json`, `mutants`).

**Order in which they were written.** The session and the two keymap commands come
first, because every other command is built from the same reads and writes; then
the abstract specification they implement; then the import, the command with the
most writes, and the export beside it; then the data paths (a key's text, layers and
colours by name, the macro table, a macro's events), which need no processes; last
the bytes of a report, which show that `Session` speaks of what is really sent.

**Abstractions.**

* A slot value, an RGB triple or a page image is a member of a small set in the
  process modules; `SlotText` and `MacroTable` look inside them. In `ImportCommand`
  a macro reference is the index and how the macro is played (`Plays`: repeat count
  and cycle type). Files name macros, and give each a repeat count.
* Macros are told apart by their names. `Unwritable` are those with a step that no
  event of a file stands for: a mouse step, a key or a modifier without a name. Macros
  that do not decode are left to `MacroTable`.
* A profile is its mode (the selection byte with its marker byte, which
  `enter_self_define` always sets together) and the rest.
* Sending a report and the device storing it are one step (`SetKeyMatrix`, ...): a
  report is accepted whole or not at all. A process may die before or after.
* The key's name, layer and flags are resolved before the device is opened, so
  `Jobs` holds what is left of the command line. `Files` of `ImportCommand` holds
  documents with their names resolved; validation is modelled as far as it relates
  the parts of a file (undefined macros, a table that does not fit, two macros of one
  name) and refuses what an export may print (unwritable macros, keys without action).
* `SlotText` represents a slot value by its type, para and code fields. Symbols,
  labels and macro names are atoms. `TableAssumption` states what it needs of the
  two JSON tables: no symbol or label is given twice, no symbol belongs to code 0
  (both hold of the data: 134 symbols, 310 labels).
* `DocumentTrip` follows one key and assumes that the document maps some other key
  of the layer, so that an import resets this one if it is left out.
* `ExportCommand` writes a file of names, layers and colours; `LayerDocument` and
  `SlotText` say how they are printed. A table whose pages come from two tables
  decodes to some table. `Keyless` are the keys without a key code, unbound or bare
  modifiers; a macro is printed by its name alone, so it comes back as `Once` says.
  `fs::write` is one step. `Importers` and
  `ExportJobs` say which process plays which part, a bound on the interleavings.
* `LayerDocument` takes texts as atoms with what they parse to (`Keys`, `Numbers`,
  `Css`, `Hex`), and an action as the slot value it resolves to; `Keyless` are the
  values printed without a key. `NameAssumption` says what the A72's table has: no
  name is given twice, none reads `slotN` for another slot. Mappings and colours may
  repeat a label: for mappings that is an error (`DistinctLabels`), while the colours
  go into a map, where a repeated key keeps its place and takes the last colour
  (`Merged`; `RawLighting.colors`, `hcl.rs:125`).
* `Reports` takes the firmware's side from `docs/protocol`: which field of a report
  it reads, and that it returns as many bytes as were asked for. `FrameAssumption`
  has the facts of `protocol.rs` that matter: opcodes differ, the four payload
  lengths differ and fit a report and two bytes, layers and pages have one-byte
  addresses. `DataAssumption` says that what is sent has the length the repositories
  give it.
* `MacroTable` keeps every byte. What the firmware puts behind a short last page is
  not known, so `Stored` either keeps or clears it. `ListsAssumption` is what
  `validate_macros` leaves of a list: names are well formed UTF-16 of at most 127
  units. `OffsetLimit` is that record offsets have two bytes, and the buffer is smaller.
* `MacroDocument` has a name as the set of its parts and a text as a list of
  characters. `DocumentAssumption` says what the tables give: no code belongs to two
  symbols, the eight modifiers have eight names that are no key's, no two characters
  are typed alike. `InputAssumption` is what the parser delivers: lists of events with
  at most the four attributes.

**Assumptions on the environment**, each of them a constant that runs set:

* `Exclusive`: TRUE is macOS, where `main.rs:459` says a second open fails; FALSE
  is Linux and Windows.
* `Prompt`: TRUE means the keyboard has answered when 150 ms are over, and has
  applied a mode change when the sleeps of `enter_self_define` and `apply_lighting`
  are over. FALSE lets the previous report be read. Without `Prompt` an import may
  compare a layer with another layer's content and skip a write that is needed.

Nothing is assumed of the user, who may press the lighting keys at any moment, in the
middle of a session too.

## 3. Runs

Runs that pass:

| Run | Instance | What it shows |
|---|---|---|
| `report_frames` | 3 slots, 2 layers, 2 pages, bytes of 3 bits; reads too early or too short | a write, a patch, the mode switch and a read are in bytes what `Session` says they are (`ReportsCarryRequests`); a read returns the report's data or fails (`TakenIsReply`) |
| `keymap_exclusive` | 2 processes, 2 layers, 2 slots, 2 values, 5 commands; exclusive, prompt | every interleaving, with refused opens and kills, implements `AtomicKeymap`: the buffer that is patched is current (`FreshBuffer`), one key changes at a time (`OneKeyChanged`), and an accepted answer is the answer to one's own request (`ResponseAnswersRequest`) |
| `keymap_shared` | the same with 3 commands; shared opens, late answers | even so a write touches only the layer it names and gives its key the value asked for (`OwnKeyWritten`), and every command ends (`CommandsEnd`) |
| `import_single` | 1 process, 6 files, dry runs, restarts anywhere | an import that ends well has established everything the file says (`ImportEstablishes`); macros are complete before layers (`MacrosBeforeLayers`); refused files and dry runs write nothing, neither a store nor the profile (`OnlyImportsWrite`); repeating a failed import converges (`RetryConverges`) |
| `import_exclusive` | `ImportHistory`: 2 processes, 2 files, 2 brightnesses, the user at any time; exclusive, prompt | a section ends with its part as the file says although another import runs in between the sections (`SectionEstablishes`); colours are written once the mode has settled, in SelfDefine mode unless the user has just picked another (`SelfDefineBeforeColors`); what is written back of the profile was in it at some moment of the session, so only a change made between the read and the write is undone (`ProfileRestKept`) |
| `import_shared` | 2 processes, 1 file; shared opens, late answers, no wait for the mode | a wrong answer never gets a buffer of another kind into a store (`TypeOK`), and every import ends (`ImportsEnd`) |
| `export_exclusive` | a process that imports beside one that exports in both forms and lists macros; unbound and modifier keys, macros played thrice, two of one name, one with a mouse step; exclusive, prompt | each section of an export is current when it closes (`PartIsCurrent`); if nobody wrote meanwhile, the file is refused exactly where something on the keyboard cannot be written in a file, and otherwise brings every part back but for two losses: how often a named macro is played, and, in a full export, unbound keys (`QuietExportRestores`) |
| `layer_document` | 3 slots, 2 of them named, 6 keyboards, 344 typed documents of up to 3 colours | an accepted export compiles to the buffers it was printed from (`ExportCompilesBack`) and lacks only what is at the baseline (`ExportIsComplete`); a mapping is lost only to an alias, a colour only to an alias or a repetition (`OnlyNamesakesOverwrite`) |
| `trip` | 9 slot values of all types, 3 tables, 51 hand-written documents, one with 257 macros | a printed key that imports puts the key back (`PrintedRestores`); only keys without a key code are refused (`OnlyKeylessRefused`); `import-hcl` and `set-keymap` agree (`FlagsAgree`); a macro reference finds its macro and keeps its count (`ReferenceFindsMacro`) |
| `macros_paging` | 4 pages of 8 bytes, 3 lists, 2 old contents, a kill anywhere | sent bytes are in place (`PagesHold`), a list that was written whole reads back (`ReadsBackWritten`), a paged read is a snapshot (`ReadIsSnapshot`), and macros that were sent already decode in the middle of a write (`SentMacrosHold`) |
| `macro_document` | all blocks of up to 4 events out of 12, 3 recorded macros | delays and chords keep their times (`SameTimeline`), printed macros read back (`PrintedMacroRestores`), only unnamed keys and mouse actions are refused (`OnlyUnnamedRefused`), typed text appears as typed (`TypedTextAppears`) |

The run that finds a disagreement between the code and what the repository says of it
(`PROJECT.json`, `findings`):

| Run | What happens |
|---|---|
| `import_lighting` | colours that are there already end `apply_lighting` before the mode is looked at, so a keyboard in an effect mode goes on showing the effect |

**Bounds and why they are enough.** Two processes meet in every way a pair can; the
properties relate a process with "the others" and no step involves three, and for
the keymap commands the theorems hold for any number. Two slots show
whether a write touches a neighbour, two layers whether an answer is for the other
one. Commands are taken from small sets chosen so that they meet on a key, on a
layer and on different layers, with a dry run and a read among them
(`keymap_shared` drops the dry run and the second key). A table of one page and
one of two put the same macro at different indices and make page counts matter;
`Foreign` is a keyboard whose content no file describes. The export run has one
LED mode, which exports do not look at, and four keyboards to begin with: one with a
bare Ctrl, and one with an unbound key for each of the three tables. The largest runs
are `export_exclusive` with 1.9 and `import_exclusive` with 1.3 million distinct
states. `import_exclusive` begins with a table of one page or of two, and takes as
symmetric its two processes, which have the same commands, and the two values of the
rest of the profile, which no step tells apart.
In `layer_document` three slots have a name, an alias and a number each way: slot 1
is `Esc`, `slot1` and `slot01`; slot 2 is the last of the frame and `slot3` is
outside. Three colours are what it takes for a repeated key to lose against an alias
that stands between its two places. In `report_frames` lengths are 12, 9, 3 and 13 bytes, two of which need
the high byte of a length of two digits to base 8, and 7 + 13 bytes fill a report. In `macros_paging` pages of
eight bytes cut a table of two macros in its header, in a name, and in an action,
which pages of 512 do only for long tables. In `macro_document` an action's delay
has 3 bits and the sum 4 (`DelayLimit`, `WordLimit`; 20 and 32 in the code), so that
delays of 1 and 5 reach both limits within four events. No run has a state
constraint, and none needs `CHECK_DEADLOCK FALSE`.

**Fairness.** A process that can take a step takes it eventually (`WF` on
`KeymapStep`, `ImportStep`): the program is sequential, its sleeps are finite and
its I/O calls return. The keyboard answers and settles eventually (`WF` on
`DeviceStep`, `KeyboardStep`). Nobody is obliged to start a command and nothing is
obliged to die. `CommandsEnd` and `ImportsEnd` need no more, also without `Prompt`: a
read that finds a report of another length panics and ends too. `RetryConverges` adds a user
who runs a failed import again (`RetrySpec`) and is conditional on failures ceasing at
some time and on the user settling on one file.

## 4. Proofs

`KeymapCommandsProofs`, for any processes, slots, values, layers and commands:

* `TypeCorrect`: `Spec => []TypeOK`. `TypeOK` is not inductive alone: `TypeInv` adds
  that a running process has a command, that one about to write is a `set-keymap`
  without `--dry-run`, and that it holds a layer. The last comes from the length
  assertion: the four payload lengths differ, so a reply of a layer's length is a
  layer (`LengthTellsStore`).
* `OwnKeyWrittenHolds`, from `TypeInv` alone: on every platform.
* `FreshBufferHolds`, `OneKeyChangedHolds`, `ResponseAnswersRequestHolds` and
  `ImplementsAtomic`, assuming `Exclusive` and `Prompt`. `ExclusiveInv` adds to
  `TypeInv` that a process inside its session is in `holders` (`HolderHolds`), that
  there is at most one (`SoleHolder`), and `OwnAnswer`: while a process waits, either
  its own request is pending or the report to be read is its layer as it is now.
  With that, taking a report gives the current layer, and nobody else can
  write before it is written back. The refinement maps a command to its atomic
  step at the moment its effect is certain: the write, or for a read the report.

`ImportCommandProofs`, for any processes, files, tables, layers, slots and pages:

* `TypeCorrect` and `OnlyImportsWriteHolds`, on every platform and however late the
  answers. `TypeInv` adds what a process knows at each label (`KnownOf`): past the
  parser its file is valid, its loop variable is a page of the file or a layer, what
  it writes is no dry run's, and it holds the handle exactly inside its sections.
  `TargetType` is where validation matters: a macro becomes an index that a slot holds.
* `SectionEstablishesHolds`, assuming `Exclusive` and `Prompt`. `AloneInv` adds
  `SoleHolder` and `SectionInv`: the pages and layers up to the loop variable are
  written, and the report about to be read is the answer to one's own request, as
  the keyboard still holds it. That a process inside its section is alone there
  (`OthersOutside`) leaves one process to look at in each step.
* `SelfDefineBeforeColorsHolds` and `ProfileRestKeptHolds`, with the same two
  assumptions and none about the user. They are about `HistorySpec`, whose steps are
  steps of the import (`HistoryImports`), so that its invariants are at hand.
  `HistoryInv` adds what a process knows of its lighting session (`SessionSoFar`): the
  profile is one it found, one the user picked, or its own SelfDefine; what it is about
  to write back was read in this session, or is in the report to be read.
* `ImportEstablishesHolds` and `MacrosBeforeLayersHolds`, for one process and with
  `Prompt`: `Established` says that a part stays as the file says while the later
  sections run. With more processes both are false (section 6).

`ExportCommandProofs`, for any processes that import and export, any tables, factory
layers, slots, pages and colours, assuming `Exclusive` and `Prompt`:

* `PartIsCurrentHolds`, along `ExportInv`: `ReadSoFar` says that what an export has
  copied is the first pages or layers as the keyboard holds them, and that the report
  about to be read is the answer to its own request. Pages have no length assertion,
  so that here `NoReplyAssumption` and the types of the macro memory are needed.
  `OneStep` reduces a step to the process that takes it: the others are outside their
  sessions (`OutsideKeeps`) or the keyboard stays as it is (`ReadFrame`).
* `QuietExportRestoresHolds`, along `QuietInv`: while nobody wrote, what was read in
  the earlier sessions still is what the keyboard holds. `ExportIsValid` says which
  files are accepted: `PrintedIsAction`, that a printed value is an action exactly if
  it has a key code. Then `ExportRestores` follows one slot through print, lookup and
  patch (`SlotCompilesBack`), which is where repeat counts and unbound keys come back
  otherwise, and `CertainTableHolds` takes a table that can be read in one way only back
  to its pages.

`DocumentTripProofs`, for any tables, factory value, documents and names:

* `TypeCorrect`: documents and flags that are accepted give four-byte values for
  macro lists of any length.
* `PrintedRestoresHolds`: the invariant `PrintedFrom` says that an exported or shown
  document still is the printing of `source.value` against its baseline, whatever
  happened to the keyboard since; then one lemma for each kind of printed form
  (`TripOfKey`, `TripOfMacro`, `TripOfRest`).
* `ReferenceFindsMacroHolds`: index and repeat count, one byte each, come apart
  again as they were put together (`Halves`).
* `OnlyKeylessRefusedHolds`, from the same invariant and `PrintedAccepted`: each of
  the printed forms with a key code is one that `resolve_action` accepts.
* `FlagsAgreeHolds`: attributes that `import-hcl` and `set-keymap` both accept mean the
  same slot value; the two resolve names through the same tables, for any tables.

`MacroRepositoryProofs`, for pages of any length, any number of them and lists of any
length whose table fits:

* `TypeCorrect`, along `PageInv`: while a list is written it fits and the next page
  is one of its own. `PagesNeeded` is the arithmetic of `div_ceil`, `BytesOfPage`
  that of a byte's page.
* `PagesHoldHolds`: `PageStored` is the step from one page to the next, whether the
  firmware keeps or clears what is behind a short page.
* `ReadIsSnapshotHolds`, along `CopyInv`: the pages copied so far are the memory's.
* `ActionDecodes`: `DecodeAction(EncodeAction(a)) = a` for every action.
* `RecordDecodes`: a record of any number of actions is read back by `MacroOf`,
  from any place in a buffer. `RecordShape` says where its bytes are; `NameBytesAre`
  and `EvenOdd` take the two bytes of a UTF-16 unit apart.
* `TableDecodes`: every buffer that begins with `EncodeTable(l)` decodes to `l`. An
  entry's offset is the length of everything in front of its record
  (`FrontGrows`, `TableShape`), which comes back from two bytes because the table is
  shorter than `OffsetLimit` (`EntryDecodes`).
* `ReadsBackWrittenHolds` and `SentMacrosHoldHolds`, along `ListInv` (what is being
  written or was written whole is one of `Lists`) on top of `PageInv` and `PagesHold`:
  the first pages in memory hold the bytes of a table, and `TableDecodes`, or
  `EntryDecodes` for the macros that were sent, reads them.

The library's induction theorems take an operator, which no prover here can
instantiate. `Induction` is the same principle for a set, proved from the well-founded
order of the natural numbers (`WFMin`, `NatLessThanWellFounded`): each use defines the
set of numbers for which the claim holds. `FlattenExists` and `FlattenAgree` are what
it gives for `FlattenSeq`: its recursion has a solution, which depends on the elements
so far only.

`MacroDocumentProofs`, for tables, blocks, typed texts and macros of any size, and any
`DelayLimit` up to `WordLimit`:

* `ListInduction` is induction over lists, for a set, from `Induction`. Each recursion
  of the model (`Run`, `Played`, `Clock`) gets a lemma that one element more is one
  step more (`RunAppend`, `PlayAppend`, `ClockAppend`), each flattening one that
  another element adds its own piece (`MappedAppend`, and with it `ExpandedIs`,
  `TypingIs`, `PrintedIs`, `TimelineAppend`).
* All five invariants follow from `MacroInv`: the block is one that can be parsed, and
  a printed block is the printing of the macro noted with it, whatever was recorded or
  imported since. `TypeOK` alone does not connect `script` with `printed`.
* `TypeCorrect`: an accepted block is a list of well formed events (`AcceptedIs`), and
  each of them keeps the compiler's state within its types (`StepType`).
* `PrintedMacroRestoresHolds`: `PrintedCompiles` goes through the macro action by
  action; a named action prints the name whose strokes are that one action
  (`NamedName`, `OneAction`), and its delay is the only one pending.
  `OnlyUnnamedRefusedHolds` is `AcceptedPrinted`: accepted if and only if all actions
  have a name.
* `SameTimelineHolds`: `Follows` strengthens the equality of the two timelines so that
  it carries over to one event more: the actions' time and what is pending add up to
  the events' time, and what is pending is the delay since some earlier event with
  only delays behind it. The last part is what bounds it (`PendingFits`), so that
  neither `% DelayLimit` nor `% WordLimit` cuts anything from a block with `GapsFit`.
* `TypedTextAppearsHolds`: `SoundOfKeystrokes` for one character with Shift up before
  and after, then induction over the text and over the block. That no two characters
  are typed alike is needed in `PlayDown`.

`ReportsProofs`, for reports, layers, pages and profiles of any length, any bytes, any
opcodes and whatever number of bytes a read returns:

* `TypeCorrect`, `ReportsCarryRequestsHolds` and `TakenIsReplyHolds`, along
  `ReportInv`: the memory is made of byte lists of the right lengths, a pending request
  is the bytes of some read, and the report prepared `Shows` some read and data: its
  length field, its address and its payload come apart as they were put together
  (`BodyFields`, `AnswerShows`). `TypeOK` only counts bytes, from which nothing follows
  about their fields.
* Opcodes that differ tell the requests apart, and lengths that differ tell the
  responses apart; pages have an address that the response does not repeat, which is
  why `TakenIsReply` excepts them.

`LayerDocumentProofs`, for any frame, names, factory table, colour texts, keyboards
and typed documents with any number of blocks:

* `TypeCorrect`: what an accepted document compiles to is three layers of slot values
  and a colour buffer; every label leads into the frame.
* `ExportCompilesBackHolds` and `ExportIsCompleteHolds`, along `Inv`: `TypeOK` does not
  say what an exported document looks like, so `AsExported` adds that it is the
  printing of `source`'s buffers, whatever happened to the keyboard since.
  `KeyCompilesBack` and `LedsCompileBack` then follow one slot and one byte through
  print, name, lookup and compile; `NameLeadsBack` is where `NameAssumption` is used.
* `OnlyNamesakesOverwriteHolds`, from the types: of the blocks that name one slot the
  last wins (`LastBlock`). Colours come to that by way of the map: `MergedColors` says
  at which position and with which colour a key is in it, and `ColorHasItsWay` that a
  colour without effect is one of the three cases stated. That a finite set of
  positions has a largest one is `LargestExists`, by the well-founded order of finite
  subsets (`MaxIsIn`), and a smallest one `SmallestExists`.
* Assumptions: `NameAssumption`, `ValueAssumption`, and `TypedAssumption` that typed
  documents are documents.

**Only model-checked.** Liveness (`CommandsEnd`, `ImportsEnd`, `RetryConverges`), which
is out of the provers' reach.

## 5. What is not modelled, and why

* A firmware that sends a length no request asked for: `parse_response` slices by it
  (`protocol.rs:146`) and panics if it is too long; that it panics when the bytes
  that were read are too few is modelled.
* The A72's own key and factory tables: data, of which the assumptions of
  `LayerDocument` and `SlotText` say what is used.
* Escaping: `hcl_escape` and names as text. Names are atoms.
* A failing or partial `fs::write` of an export.
* The HCL grammar and `env()` belong to the hcl-rs library; `list-keys`,
  `visual.rs` and completion print and change nothing; the build script checks data.
* `find_wired_device` picks the last matching interface: enumeration is the library's.

## 6. Where the repository disagrees with itself

Apart from the run above, modelling came across these. They are true of the
models as well, and no run of the project states the text they contradict.

* With shared opens `set-keymap` loses updates: it writes back the other 125 keys of
  the layer as they were when it read them (`main.rs:432-445`; `main.rs:85` says it
  changes one key). `OneKeyChanged` fails if `keymap_shared` is asked for it.
* With shared opens an answer to another process's request is taken for one's own
  (`session.rs:46`; `docs/protocol/hid-frame.md:45` documents the echo that would
  tell). `ResponseAnswersRequest` fails in `keymap_shared`.
* With shared opens an export may take another report of the same length, such as
  another layer, and macro pages are not looked at at all (`repository.rs:191`).
  `PartIsCurrent` is therefore stated for exclusive opens.
* A key bound to bare modifiers is exported as a block with `mods` alone, which
  `resolve_action` refuses (`hcl.rs:716`), so that the file needs editing
  (`rk-a72-cli/README.md:67` says none is needed). `OnlyKeylessRefused` states that
  such keys are the only ones.
* `rk-a72-cli/README.md:69` calls `export-hcl | import-hcl` on an unmodified device a
  no-op. It need not be: a macro reference loses its repeat count and cycle type, since
  only the name is printed (`hcl.rs:743-744`) and `encode_macro_reference` writes its
  own (`hcl.rs:401-417`), and the comment at `hcl.rs:842-846` says the count is rendered
  as `repeat = 1` where nothing is rendered; a full export gives unbound keys their
  factory value; and the file is refused for a key of bare modifiers
  (`hcl.rs:726-735`, `1233`), for a macro with a mouse step or an unnamed key
  (`hcl.rs:862-866`), and for two macros of one name. `QuietExportRestores` says that
  these are all the ways in which the round trip differs from a no-op, `Restores`
  what is kept of one key.
* Two macros of one name, which another tool may leave, are exported as two blocks
  that do not deserialize (`hcl.rs:218-223`), and their references by a name that no
  longer tells them apart. `PrintedRestores` excepts them.
* Even with exclusive opens another import may replace the macro table between the
  macro and the layer section (`main.rs:550`; the comment at `main.rs:530-537`
  assumes the table matches). `MacrosBeforeLayers` fails with two processes. A run
  that dies after its macro section, or a file with macros alone, leaves references
  of older layers pointing at other macros.
* A file without mappings resets nothing (`main.rs:521`, `550`; `hcl.rs:534` and
  `main.rs:613-616` say that what the file does not mention is reset).
* `mods` next to `raw` or `macro` is accepted and ignored (`hcl.rs:1247`;
  `hcl.rs:542` lists the combinations); `set-keymap` accepts several of its flags and
  takes the first (`main.rs:254`; `main.rs:86` says exactly one).
* `get-keymap` shows macro references as raw numbers, because it passes no macro
  names (`main.rs:356`; `docs/protocol/payloads.md:170` says they are resolved).
* `write_macros(&[])` sends no page and leaves the table in place
  (`repository.rs:203`; `tests/macro_roundtrip.rs:52` writes back what it read and
  expects it restored, which an empty table is not).
* `dump_macros` prints keys and mouse actions without a name in a form that
  `validate_macros` refuses (`OnlyUnnamedRefused`).
* Delays are added in a `u32` that may overflow (`hcl.rs:1149`), and a delay of 2^20 ms
  or more is cut to its low twenty bits without an error (`macros.rs:70`).
* A macro that does not decode is left out and shifts the position of those after it
  (`macros.rs:146`), while key mappings count it (`docs/protocol/payloads.md:172`).
* Two labels for one slot, `Esc` and `slot7`, are both accepted and the later one wins
  (`layout.rs:51`); the header of an export calls a duplicate an error
  (`hcl.rs:533`). Colours have no check at all: a key that is repeated in `colors`
  drops its earlier colour without an error or a look at it (`hcl.rs:125`, `1328`), and
  may lose against an alias written before it. `OnlyNamesakesOverwrite` states what
  holds of both.
* A lighting effect or brightness that the user changes between `get_profile` and
  `set_profile` is undone (`repository.rs:160`; `repository.rs:151` says the other bytes
  go through untouched). `ProfileRestKept` says that nothing else is.
* An export during which somebody imports mixes two states (`main.rs:466`), and an
  export of a keyboard whose layers are the factory's has no layers, so that
  importing it resets nothing. Unbound keys print as blocks without an action, which
  are refused (`hcl.rs:712`); a full export leaves them out.
* `hcl_escape` leaves `${` and line breaks in place (`hcl.rs:463`), so a macro name
  of another tool may give a file that is evaluated differently or refused.
* Statements that are out of date: `rk-a72-cli/README.md:68`, `79-83` (only layer
  blocks are emitted, macros are not flashable), `docs/protocol/README.md` (layer 2
  is not exercised by any command), `hcl.rs:758`, `hcl.rs:777-779`.

## 7. Plan for what is left

1. `OnlyImportsWrite` for exports running beside imports, and the two exclusive
   invariants of the import with more than one process as far as they are true.
   Macros that do not decode, beside an export.
2. A refinement from `ImportCommand` to an abstract import of three atomic sections,
   for exclusive and prompt answers.
