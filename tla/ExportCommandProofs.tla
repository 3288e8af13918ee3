------------------------ MODULE ExportCommandProofs ------------------------
(***************************************************************************)
(* Proofs about exports next to imports, for any number of processes, any  *)
(* tables, layers, slots and pages.                                        *)
(***************************************************************************)
EXTENDS ExportCommand, ImportCommandProofs, SequenceTheorems

-----------------------------------------------------------------------------
(* Sequences that are filled from index zero on.                           *)

LEMMA NothingCopied ==
  ASSUME NEW f
  PROVE  [i \in 1 .. 0 |-> f[i - 1]] = <<>>
<1> DEFINE s == [i \in 1 .. 0 |-> f[i - 1]]
<1>1. s \in [1 .. 0 -> {}]
  OBVIOUS
<1>2. s \in Seq({}) /\ Len(s) = 0
  BY <1>1
<1>3. <<>> \in Seq({}) /\ Len(<<>>) = 0
  BY EmptySeq
<1> QED BY <1>2, <1>3, SeqEqual

LEMMA OneMoreCopied ==
  ASSUME NEW f, NEW n \in Nat
  PROVE  Append([i \in 1 .. n |-> f[i - 1]], f[n]) = [i \in 1 .. n + 1 |-> f[i - 1]]
<1> DEFINE S == {f[i] : i \in 0 .. n}
           s == [i \in 1 .. n |-> f[i - 1]]
           t == [i \in 1 .. n + 1 |-> f[i - 1]]
<1>1. \A i \in 0 .. n : f[i] \in S
  OBVIOUS
<1>2. \A i \in 1 .. n + 1 : i - 1 \in 0 .. n
  OBVIOUS
<1>3. s \in Seq(S) /\ Len(s) = n /\ t \in Seq(S) /\ Len(t) = n + 1 /\ f[n] \in S
  BY <1>1, <1>2
<1>4. /\ Append(s, f[n]) \in Seq(S)
      /\ Len(Append(s, f[n])) = n + 1
      /\ \A i \in 1 .. n : Append(s, f[n])[i] = s[i]
      /\ Append(s, f[n])[n + 1] = f[n]
  <2> HIDE DEF s, S
  <2> QED BY <1>3, AppendProperties
<1>5. ASSUME NEW i \in 1 .. n + 1 PROVE Append(s, f[n])[i] = t[i]
  <2>1. CASE i \in 1 .. n
    BY <1>4, <2>1
  <2>2. CASE i = n + 1
    BY <1>4, <2>2
  <2> QED BY <2>1, <2>2
<1> QED
  <2> HIDE DEF s, t, S
  <2>1. \A i \in 1 .. Len(t) : Append(s, f[n])[i] = t[i]
    BY <1>3, <1>5
  <2> QED BY <1>3, <1>4, <2>1, SeqEqual

-----------------------------------------------------------------------------
(* Who is inside a session, and what an export has read there so far.      *)

PageLabels == {"page-read", "page-wait"}
MatrixLabels == {"matrix-read", "matrix-wait"}
LedsLabels == {"leds-read", "leds-wait"}
Reading == PageLabels \union MatrixLabels \union LedsLabels
             \union {"table-close", "matrix-close", "leds-close"}
Inside == Holding \union Reading
ExportLabels == ImportLabels \union Reading
                  \union {"table-open", "matrix-open", "leds-open", "write-file"}

(* The types the argument needs, and who has a handle.  The macro memory   *)
(* never holds anything but pages of tables, each in its place.            *)
ShapeInv ==
  /\ matrix \in [Layers -> KeyBuffers]
  /\ macros \in [Pages -> PageImages]
  /\ \A i \in Pages : \E t \in Tables : macros[i] = Page(t, i)
  /\ colors \in ColorBuffers
  /\ pc \in [Procs -> ExportLabels]
  /\ next \in [Procs -> Nat]
  /\ DOMAIN got = Procs /\ DOMAIN cmd = Procs /\ DOMAIN read = Procs
  /\ holders \in SUBSET Procs
  /\ \A p \in Procs : p \in holders <=> pc[p] \in Inside

(* An import writes pages and layers of a valid file.                      *)
Importing == ImportLabels \ Ended
WritesFile(p) ==
  /\ pc[p] \in Importing => cmd[p] \in ImportJobs
  /\ pc[p] \in Importing \ {"parsing"} => Valid(File(p))
  /\ pc[p] \in {"macros-open", "macros-write"} => HasMacros(File(p))
  /\ pc[p] \in LayerLabels => next[p] \in Layers
  /\ pc[p] = "macros-write" => next[p] \in 0 .. LastPage(File(p).macros)

Part(pages, table, layers) == [pages |-> pages, table |-> table, layers |-> layers]
FirstPages(n) == [i \in 1 .. n |-> macros[i - 1]]
FirstLayers(n) == [i \in 1 .. n |-> matrix[i - 1]]

TableSoFar(p) ==
  /\ pc[p] \in PageLabels =>
       next[p] \in Pages /\ read[p] = Part(FirstPages(next[p]), <<>>, <<>>)
  /\ pc[p] = "page-wait" => Answering(p, GetMacros(next[p]))
  /\ pc[p] \in {"table-close", "matrix-open"} =>
       read[p] = Part(<<>>, read[p].table, <<>>)
  /\ pc[p] = "table-close" => read[p].table \in TableNow
MatrixSoFar(p) ==
  /\ pc[p] \in MatrixLabels =>
       /\ next[p] \in Layers
       /\ read[p] = Part(<<>>, read[p].table, FirstLayers(next[p]))
  /\ pc[p] = "matrix-wait" => Answering(p, GetKeyMatrix(next[p]))
  /\ pc[p] = "matrix-close" => \A l \in Layers : read[p].layers[l + 1] = matrix[l]
LedsSoFar(p) ==
  /\ pc[p] = "leds-wait" => Answering(p, GetLedColors)
  /\ pc[p] = "leds-close" => got[p] = colors
ReadSoFar(p) ==
  /\ pc[p] \in ImportLabels \union {"table-open"} => read[p] = Unread
  /\ pc[p] \in ExportLabels \ ImportLabels => cmd[p].op # "import-hcl"
  /\ TableSoFar(p) /\ MatrixSoFar(p) /\ LedsSoFar(p)

ExportInv ==
  /\ ShapeInv
  /\ SoleHolder
  /\ \A p \in Procs : WritesFile(p) /\ ReadSoFar(p)

LEMMA ExportInvInit == ExportInit => ExportInv
<1> SUFFICES ASSUME ExportInit PROVE ExportInv
  OBVIOUS
<1>1. ShapeInv
  BY ImportAssumption
  DEF ExportInit, ImportInit, ShapeInv, ExportLabels, ImportLabels, Ended, Inside, Holding,
      LayerLabels, Reading, PageLabels, MatrixLabels, LedsLabels, Page
<1>2. \A p \in Procs : WritesFile(p) /\ ReadSoFar(p)
  BY DEF ExportInit, ImportInit, WritesFile, ReadSoFar, TableSoFar, MatrixSoFar, LedsSoFar,
         ImportLabels, Importing, LayerLabels, PageLabels, MatrixLabels, Ended
<1> QED BY <1>1, <1>2 DEF ExportInit, ImportInit, ExportInv, SoleHolder

(* A process outside its sections keeps what it has read, and does not     *)
(* care what happens to the keyboard.                                      *)
Kept(q) == /\ pc'[q] = pc[q] /\ cmd'[q] = cmd[q] /\ got'[q] = got[q]
           /\ next'[q] = next[q] /\ read'[q] = read[q]

LEMMA OutsideKeeps ==
  ASSUME NEW q \in Procs, ReadSoFar(q), Kept(q), pc[q] \notin Inside
  PROVE  ReadSoFar(q)'
BY DEF ReadSoFar, TableSoFar, MatrixSoFar, LedsSoFar, Kept, Inside, Reading, PageLabels,
       MatrixLabels, LedsLabels

LEMMA FileKeeps ==
  ASSUME NEW q \in Procs, WritesFile(q), Kept(q)
  PROVE  WritesFile(q)'
BY DEF WritesFile, Kept, File, LastPage, HasMacros, LayerLabels

(* Nothing an export has read changes while the keyboard does not, except  *)
(* that it may answer.                                                     *)
LEMMA ReadFrame ==
  ASSUME NEW q \in Procs, ReadSoFar(q), Kept(q), UNCHANGED <<matrix, macros, colors>>,
         UNCHANGED <<asked, reply>> \/ DeviceAnswers
  PROVE  ReadSoFar(q)'
<1> DEFINE Reads == {"GetKeyMatrix", "GetMacros", "GetLedColors"}
<1>2. ASSUME NEW req, req' = req, req.op \in Reads, Answering(q, req) PROVE Answering(q, req)'
  <2>1. Answer(req)' = Answer(req)
    BY <1>2 DEF Answer
  <2> QED BY <1>2, <2>1 DEF Answering, DeviceAnswers
<1>3. TableNow' = TableNow
  BY DEF TableNow
<1>4. TableSoFar(q)'
  <2>1. pc[q] = "page-wait" => Answering(q, GetMacros(next[q]))'
    BY <1>2 DEF ReadSoFar, TableSoFar, Kept, GetMacros
  <2> QED BY <1>3, <2>1 DEF ReadSoFar, TableSoFar, Kept, FirstPages
<1>5. MatrixSoFar(q)'
  <2>1. pc[q] = "matrix-wait" => Answering(q, GetKeyMatrix(next[q]))'
    BY <1>2 DEF ReadSoFar, MatrixSoFar, Kept, GetKeyMatrix
  <2> QED BY <2>1 DEF ReadSoFar, MatrixSoFar, Kept, FirstLayers
<1>6. LedsSoFar(q)'
  <2>1. pc[q] = "leds-wait" => Answering(q, GetLedColors)'
    BY <1>2 DEF ReadSoFar, LedsSoFar, Kept, GetLedColors
  <2> QED BY <2>1 DEF ReadSoFar, LedsSoFar, Kept
<1> QED BY <1>4, <1>5, <1>6 DEF ReadSoFar, Kept

(* With exclusive opens, a step of one process keeps the invariant if it   *)
(* keeps the process's own part: the others are outside, or the keyboard   *)
(* stays as it is.                                                         *)
Alone(p) ==
  /\ \A q \in Procs \ {p} : Kept(q)
  /\ UNCHANGED deviceVars \/ p \in holders
  /\ holders' \subseteq holders \/ (CanOpen /\ holders' = holders \union {p})

LEMMA OneStep ==
  ASSUME Exclusive, ExportInv, NEW p \in Procs, Alone(p),
         ShapeInv', WritesFile(p)', ReadSoFar(p)'
  PROVE  ExportInv'
<1>1. SoleHolder'
  BY DEF Alone, CanOpen, ExportInv, ShapeInv, SoleHolder
<1>2. ASSUME NEW q \in Procs \ {p} PROVE WritesFile(q)' /\ ReadSoFar(q)'
  <2>1. CASE UNCHANGED deviceVars
    BY <2>1, ReadFrame, FileKeeps DEF ExportInv, Alone, deviceVars, stores
  <2>2. CASE p \in holders
    <3>1. pc[q] \notin Inside
      BY <2>2 DEF ExportInv, ShapeInv, SoleHolder
    <3> QED BY <3>1, OutsideKeeps, FileKeeps DEF ExportInv, Alone
  <2> QED BY <2>1, <2>2 DEF Alone
<1> QED BY <1>1, <1>2 DEF ExportInv

(* What an import does to handles and labels, and to the macro pages.      *)
LEMMA ImportsKeepShape ==
  ASSUME ExportInv, NEW p \in Procs, ImportStep(p) \/ StartImport(p) \/ (~Exporting(p) /\ ImportDies(p)),
         UNCHANGED read
  PROVE  /\ Alone(p)
         /\ ShapeInv'
         /\ WritesFile(p)'
         /\ pc[p] \in ImportLabels /\ pc'[p] \in ImportLabels
<1> DEFINE Goal == /\ Alone(p)
                   /\ ShapeInv'
                   /\ WritesFile(p)'
                   /\ pc[p] \in ImportLabels /\ pc'[p] \in ImportLabels
<1>t. ShapeInv /\ WritesFile(p) /\ ReadSoFar(p)
  BY DEF ExportInv
<1>l. /\ AfterMacros(File(p)) \in {"layers-open", "colors-open", "done"}
      /\ AfterLayers(File(p)) \in {"colors-open", "done"}
  BY DEF AfterMacros, AfterLayers
<1> USE <1>t DEF ShapeInv, WritesFile, ExportLabels, ImportLabels, Importing, Ended, Running,
            Goto, File, LayerLabels, Holding, Inside, Reading, PageLabels, MatrixLabels, LedsLabels, Kept,
            Alone, deviceVars, stores
<1>1. CASE StartImport(p)
  BY <1>1 DEF StartImport, Begin
<1>2. CASE Parse(p)
  BY <1>2, <1>l DEF Parse, AfterParse, Fail
<1>3. CASE OpenSection(p)
  <2>1. pc[p] = "macros-open" => 0 \in 0 .. LastPage(File(p).macros)
    BY PagesOf
  <2>2. 0 \in Layers
    BY SizeAssumption DEF Layers
  <2> QED BY <1>3, <2>1, <2>2 DEF OpenSection, Open, OpenSession
<1>5. CASE CloseSection(p)
  BY <1>5, <1>l DEF CloseSection, Close, CloseSession
<1>6. CASE WriteMacroPage(p)
  <2>1. /\ next[p] \in 0 .. LastPage(File(p).macros) /\ Valid(File(p)) /\ HasMacros(File(p))
        /\ LastPage(File(p).macros) \in Pages
    BY <1>6, PagesOf DEF WriteMacroPage
  <2>2. next[p] \in Pages /\ next[p] + 1 \in Nat
        /\ next[p] # LastPage(File(p).macros) => next[p] + 1 \in 0 .. LastPage(File(p).macros)
    BY <2>1, SizeAssumption DEF Pages
  <2>3. /\ macros' \in [Pages -> PageImages]
        /\ \A i \in Pages : \E t \in Tables : macros'[i] = Page(t, i)
    BY <1>6, <2>1, <2>2, PagesOf DEF WriteMacroPage, SetMacros, Valid
  <2> QED BY <1>6, <2>2, <2>3 DEF WriteMacroPage, SetMacros
<1>7. CASE ReadLayer(p) \/ ReadColors(p) \/ ReadProfile(p)
  BY <1>7 DEF ReadLayer, ReadColors, ReadProfile, Ask, SendRequest
<1>8. CASE TakeLayer(p)
  <2>1. next[p] \in Nat /\ next[p] + 1 \in Nat
    OBVIOUS
  <2> QED BY <1>8, <2>1 DEF TakeLayer, Take, NextLayer
<1>9. CASE WriteLayer(p)
  <2>1. next[p] \in Layers /\ next[p] + 1 \in Nat /\ LayerTarget(File(p), next[p]) \in KeyBuffers
    BY <1>9, TargetType DEF WriteLayer, ImportJobs
  <2>2. matrix' \in [Layers -> KeyBuffers]
    BY <1>9, <2>1 DEF WriteLayer, SetKeyMatrix
  <2> QED BY <1>9, <2>1, <2>2 DEF WriteLayer, NextLayer, SetKeyMatrix
<1>10. CASE TakeColors(p) \/ TakeProfile(p)
  BY <1>10 DEF TakeColors, TakeProfile, Take
<1>11. CASE WriteProfile(p) \/ WakeUp(p) \/ WriteColors(p)
  <2>1. WriteColors(p) => ColorTarget(File(p)) \in ColorBuffers
    BY ColorsType DEF WriteColors, ImportJobs
  <2> QED BY <1>11, <2>1 DEF WriteProfile, WakeUp, WriteColors, SetProfile, SetLedColors
<1>12. CASE ImportFails(p)
  BY <1>12 DEF ImportFails, OpenRefused, PanicOnRead, Panic, CloseSession, Fail
<1>13. CASE ~Exporting(p) /\ ImportDies(p)
  BY <1>13 DEF ImportDies, Die, CloseSession, Fail, Exporting, ReadSoFar
<1> QED BY <1>1, <1>2, <1>3, <1>5, <1>6, <1>7, <1>8, <1>9, <1>10, <1>11, <1>12, <1>13
        DEF ImportStep

LEMMA ImportsKeep ==
  ASSUME Exclusive, ExportInv, NEW p \in Procs, UNCHANGED read,
         ImportStep(p) \/ StartImport(p) \/ (~Exporting(p) /\ ImportDies(p))
  PROVE  ExportInv'
<1>1. /\ Alone(p) /\ ShapeInv' /\ WritesFile(p)'
      /\ pc[p] \in ImportLabels /\ pc'[p] \in ImportLabels
  BY ImportsKeepShape
<1>2. ReadSoFar(p)'
  BY <1>1 DEF ExportInv, ReadSoFar, TableSoFar, MatrixSoFar, LedsSoFar, ImportLabels, Ended,
              PageLabels, MatrixLabels
<1> QED BY <1>1, <1>2, OneStep

(* A step inside an export's sections, or out of one, moves the process    *)
(* alone and writes nothing.                                               *)
LEMMA ExportMoves ==
  ASSUME ExportInv, NEW p \in Procs, NEW to \in ExportLabels,
         pc[p] \in Reading, pc' = [pc EXCEPT ![p] = to], UNCHANGED <<deviceVars, cmd>>,
         to \notin Importing,
         got' = got \/ \E v : got' = [got EXCEPT ![p] = v],
         next' = next \/ next' = [next EXCEPT ![p] = @ + 1],
         read' = read \/ \E r : read' = [read EXCEPT ![p] = r],
         \/ holders' = holders \ {p} /\ to \notin Inside
         \/ holders' = holders /\ to \in Inside
  PROVE  Alone(p) /\ ShapeInv' /\ WritesFile(p)'
<1>t. ShapeInv
  BY DEF ExportInv
<1>1. Alone(p)
  BY <1>t DEF Alone, Kept, ShapeInv
<1>2. /\ DOMAIN got' = Procs /\ DOMAIN cmd' = Procs /\ DOMAIN read' = Procs
      /\ next' \in [Procs -> Nat] /\ pc' \in [Procs -> ExportLabels]
      /\ UNCHANGED <<matrix, macros, colors>>
  BY <1>t DEF ShapeInv, deviceVars, stores
<1>3. holders' \in SUBSET Procs /\ \A q \in Procs : q \in holders' <=> pc'[q] \in Inside
  BY <1>t DEF ShapeInv, Inside
<1>4. ShapeInv'
  BY <1>t, <1>2, <1>3 DEF ShapeInv
<1>5. WritesFile(p)'
  BY <1>t DEF WritesFile, ShapeInv, Importing, ImportLabels, Ended, LayerLabels
<1> QED BY <1>1, <1>4, <1>5

LEMMA PartsMove ==
  ASSUME ExportInv, NEW p \in Procs, ClosePart(p) \/ TakePage(p) \/ TakeMatrix(p)
  PROVE  Alone(p) /\ ShapeInv' /\ WritesFile(p)'
<1> DEFINE Mine == Alone(p) /\ ShapeInv' /\ WritesFile(p)'
           Moves(to) == pc' = [pc EXCEPT ![p] = to]
<1>l. /\ {"done", "matrix-open", "leds-open", "write-file"} \subseteq
           ExportLabels \ (Inside \union Importing)
      /\ {"page-read", "table-close", "matrix-read", "matrix-close"} \subseteq
           (ExportLabels \intersect Inside) \ Importing
      /\ {"table-close", "matrix-close", "leds-close", "page-wait", "matrix-wait"} \subseteq Reading
  BY DEF ExportLabels, ImportLabels, Importing, Ended, Inside, Reading, Holding, LayerLabels,
         PageLabels, MatrixLabels, LedsLabels
<1>1. CASE ClosePart(p)
  <2>1. PICK to \in {"done", "matrix-open", "leds-open", "write-file"} : Moves(to)
    BY <1>1 DEF ClosePart, Close, Goto
  <2>2. pc[p] \in Reading /\ UNCHANGED <<deviceVars, cmd, got, next>> /\ holders' = holders \ {p}
    BY <1>1, <1>l DEF ClosePart, Close, CloseSession
  <2>3. \E r : read' = [read EXCEPT ![p] = r]
    BY <1>1 DEF ClosePart
  <2> QED BY <2>1, <2>2, <2>3, <1>l, ExportMoves
<1>2. CASE TakePage(p)
  <2>1. PICK to \in {"page-read", "table-close"} : Moves(to)
    BY <1>2 DEF TakePage, Goto
  <2>2. /\ pc[p] \in Reading /\ UNCHANGED <<deviceVars, cmd, got, holders>>
        /\ next' = [next EXCEPT ![p] = @ + 1]
    BY <1>2, <1>l DEF TakePage
  <2>3. \E r : read' = [read EXCEPT ![p] = r]
    BY <1>2 DEF TakePage
  <2> QED BY <2>1, <2>2, <2>3, <1>l, ExportMoves
<1>3. CASE TakeMatrix(p)
  <2>1. PICK to \in {"matrix-read", "matrix-close"} : Moves(to)
    BY <1>3 DEF TakeMatrix, Take, Goto
  <2>2. /\ pc[p] \in Reading /\ UNCHANGED <<deviceVars, cmd, holders>>
        /\ next' = [next EXCEPT ![p] = @ + 1]
    BY <1>3, <1>l DEF TakeMatrix, Take
  <2>3. \E v : got' = [got EXCEPT ![p] = v]
    BY <1>3 DEF TakeMatrix, Take
  <2>4. \E r : read' = [read EXCEPT ![p] = r]
    BY <1>3 DEF TakeMatrix
  <2> QED BY <2>1, <2>2, <2>3, <2>4, <1>l, ExportMoves
<1> QED BY <1>1, <1>2, <1>3

LEMMA ExportsKeep ==
  ASSUME Exclusive, Prompt, ExportInv, NEW p \in Procs,
         StartExport(p) \/ ExportStep(p) \/ ExportDies(p)
  PROVE  ExportInv'
<1>t. ShapeInv /\ WritesFile(p) /\ ReadSoFar(p)
  BY DEF ExportInv
<1> DEFINE Mine == Alone(p) /\ ShapeInv' /\ WritesFile(p)' /\ ReadSoFar(p)'
<1> SUFFICES Mine
  BY OneStep
<1>m. ClosePart(p) \/ TakePage(p) \/ TakeMatrix(p)
        => Alone(p) /\ ShapeInv' /\ WritesFile(p)'
  BY PartsMove
<1> USE <1>t DEF ShapeInv, WritesFile, ReadSoFar, TableSoFar, MatrixSoFar, LedsSoFar,
            ExportLabels, ImportLabels, Importing, Ended, Running, Goto, LayerLabels, Holding, Inside,
            Reading, PageLabels, MatrixLabels, LedsLabels, Kept, Alone, deviceVars, stores
(* The process is outside a session afterwards and has read nothing.       *)
<1>o. ASSUME ShapeInv', Alone(p), read'[p] = Unread, pc'[p] \in Ended \union {"table-open"},
             pc'[p] = "table-open" => cmd'[p].op # "import-hcl"
      PROVE  Mine
  BY <1>o
<1>1. CASE StartExport(p)
  <2>1. PICK job \in ExportJobs[p] : Begin(p, job, "table-open")
    BY <1>1 DEF StartExport
  <2>2. job.op # "import-hcl"
    BY <2>1, ExportAssumption
  <2> QED BY <1>1, <2>1, <2>2, <1>o DEF StartExport, Begin
<1>2. CASE OpenPart(p)
  <2>1. 0 \in Pages /\ 0 \in Layers
    BY SizeAssumption DEF Pages, Layers
  <2>2. FirstPages(0)' = <<>> /\ FirstLayers(0)' = <<>>
    BY NothingCopied DEF FirstPages, FirstLayers
  <2>3. next'[p] = 0 /\ read' = read
    BY <1>2 DEF OpenPart
  <2>4. CASE Open(p, "table-open", "page-read")
    BY <1>2, <2>1, <2>2, <2>3, <2>4 DEF OpenPart, Open, OpenSession, Unread, Part
  <2>5. CASE Open(p, "matrix-open", "matrix-read")
    BY <1>2, <2>1, <2>2, <2>3, <2>5 DEF OpenPart, Open, OpenSession, Part
  <2>6. CASE Open(p, "leds-open", "leds-read")
    BY <1>2, <2>3, <2>6 DEF OpenPart, Open, OpenSession
  <2> QED BY <1>2, <2>4, <2>5, <2>6 DEF OpenPart
<1>3. CASE ClosePart(p)
  <2>1. Alone(p) /\ ShapeInv' /\ WritesFile(p)'
    BY <1>3, <1>m
  <2>2. UNCHANGED <<macros, cmd>>
    BY <1>3 DEF ClosePart, Close
  <2>3. CASE pc'[p] = "done"
    BY <1>3, <2>1, <2>3, <1>o DEF ClosePart
  <2>4. CASE pc'[p] # "done"
    <3>1. read'[p] = read[p]
      BY <1>3, <2>4 DEF ClosePart
    <3>2. \/ pc[p] = "table-close" /\ pc'[p] = "matrix-open"
          \/ pc[p] = "matrix-close" /\ pc'[p] = "leds-open"
          \/ pc[p] = "leds-close" /\ pc'[p] = "write-file"
      BY <1>3, <2>4 DEF ClosePart, Close
    <3> QED BY <2>1, <2>2, <3>1, <3>2
  <2> QED BY <2>3, <2>4
<1>4. CASE AskPage(p)
  <2>1. Answering(p, GetMacros(next[p]))'
    BY <1>4 DEF AskPage, Ask, SendRequest, Answering, GetMacros
  <2> QED BY <1>4, <2>1 DEF AskPage, Ask, SendRequest, FirstPages
<1>5. CASE TakePage(p)
  <2>1. GetMacros(next[p]) \in Requests /\ next[p] \in Pages /\ next[p] \in Nat
    BY <1>5, SizeAssumption DEF TakePage, Requests, Pages
  <2>2. reply = Answer(GetMacros(next[p]))
    BY <1>5, <2>1, AnswerIsMine DEF TakePage
  <2>3. reply.op = "GetMacros" /\ reply.data = macros[next[p]] /\ reply # NoReply
    BY <2>1, <2>2, NoReplyAssumption DEF Answer, GetMacros, Replies
  <2>4. Append(read[p].pages, Copied(p)) = FirstPages(next[p] + 1)
    <3>1. read[p].pages = FirstPages(next[p]) /\ Copied(p) = macros[next[p]]
      BY <1>5, <2>3 DEF TakePage, Part, Copied
    <3> QED BY <2>1, <3>1, OneMoreCopied DEF FirstPages
  <2>5. CASE next[p] + 1 \in Pages
    <3>1. read' = [read EXCEPT ![p].pages = FirstPages(next[p] + 1)]
      BY <1>5, <2>4, <2>5 DEF TakePage
    <3>2. read'[p] = Part(FirstPages(next[p] + 1), <<>>, <<>>)
      BY <1>5, <3>1 DEF TakePage, Part
    <3>3. Alone(p) /\ ShapeInv' /\ WritesFile(p)'
      BY <1>5, <1>m
    <3>4. pc'[p] = "page-read" /\ next'[p] = next[p] + 1 /\ cmd' = cmd /\ pc[p] = "page-wait"
      BY <1>5, <2>5 DEF TakePage
    <3>5. FirstPages(next[p])' = FirstPages(next[p] + 1)
      BY <1>5, <3>4 DEF TakePage, FirstPages
    <3> QED BY <2>5, <3>2, <3>3, <3>4, <3>5 DEF Part
  <2>6. CASE next[p] + 1 \notin Pages
    <3>1. next[p] + 1 = NumPages
      BY <2>1, <2>6, SizeAssumption DEF Pages
    <3>2. PICK table \in Decodings(FirstPages(NumPages)) :
            read' = [read EXCEPT ![p] = [Unread EXCEPT !.table = table]]
      BY <1>5, <2>4, <2>6, <3>1 DEF TakePage
    <3>3. table \in TableNow
      BY <3>2 DEF TableNow, FirstPages
    <3>4. read'[p] = Part(<<>>, table, <<>>)
      BY <3>2 DEF Unread, Part
    <3>5. TableNow' = TableNow
      BY <1>5 DEF TakePage, TableNow
    <3>6. Alone(p) /\ ShapeInv' /\ WritesFile(p)'
      BY <1>5, <1>m
    <3>7. pc'[p] = "table-close" /\ cmd' = cmd /\ pc[p] = "page-wait"
      BY <1>5, <2>6 DEF TakePage
    <3> QED BY <3>3, <3>4, <3>5, <3>6, <3>7 DEF Part
  <2> QED BY <2>5, <2>6
<1>6. CASE AskMatrix(p)
  <2>1. Answering(p, GetKeyMatrix(next[p]))'
    BY <1>6 DEF AskMatrix, Ask, SendRequest, Answering, GetKeyMatrix
  <2> QED BY <1>6, <2>1 DEF AskMatrix, Ask, SendRequest, FirstLayers
<1>7. CASE TakeMatrix(p)
  <2>1. GetKeyMatrix(next[p]) \in Requests /\ next[p] \in Layers /\ next[p] \in Nat
    BY <1>7, SizeAssumption DEF TakeMatrix, Take, Requests, Layers
  <2>2. reply = Answer(GetKeyMatrix(next[p]))
    BY <1>7, <2>1, AnswerIsMine DEF TakeMatrix, Take
  <2>3. reply.data = matrix[next[p]]
    BY <2>2 DEF Answer, GetKeyMatrix
  <2>4. Append(read[p].layers, reply.data) = FirstLayers(next[p] + 1)
    BY <1>7, <2>1, <2>3, OneMoreCopied DEF TakeMatrix, Take, Part, FirstLayers
  <2>5. read' = [read EXCEPT ![p].layers = FirstLayers(next[p] + 1)]
    BY <1>7, <2>4 DEF TakeMatrix
  <2>6. read'[p] = Part(<<>>, read[p].table, FirstLayers(next[p] + 1))
    <3>1. PICK table : read[p] = Part(<<>>, table, FirstLayers(next[p]))
      BY <1>7 DEF TakeMatrix, Take
    <3>2. read'[p] = [read[p] EXCEPT !.layers = FirstLayers(next[p] + 1)]
      BY <2>5
    <3> QED BY <3>1, <3>2 DEF Part
  <2>7. CASE next[p] + 1 \in Layers
    BY <1>7, <2>1, <2>5, <2>6, <2>7 DEF TakeMatrix, Take, Part, FirstLayers
  <2>8. CASE next[p] + 1 \notin Layers
    <3>1. next[p] + 1 = NumLayers
      BY <2>1, <2>8, SizeAssumption DEF Layers
    <3>2. \A l \in Layers : read'[p].layers[l + 1] = matrix[l]
      BY <2>6, <3>1, SizeAssumption DEF Part, FirstLayers, Layers
    <3>3. Alone(p) /\ ShapeInv' /\ WritesFile(p)'
      BY <1>7, <1>m
    <3>4. pc'[p] = "matrix-close" /\ UNCHANGED <<cmd, matrix>> /\ pc[p] = "matrix-wait"
      BY <1>7, <2>8 DEF TakeMatrix, Take
    <3> QED BY <3>2, <3>3, <3>4 DEF Layers
  <2> QED BY <2>7, <2>8
<1>8. CASE AskLeds(p)
  <2>1. Answering(p, GetLedColors)'
    BY <1>8 DEF AskLeds, Ask, SendRequest, Answering, GetLedColors
  <2> QED BY <1>8, <2>1 DEF AskLeds, Ask, SendRequest
<1>9. CASE TakeLeds(p)
  <2>1. reply = Answer(GetLedColors)
    BY <1>9, AnswerIsMine DEF TakeLeds, Take, Requests
  <2>2. reply.data = colors
    BY <2>1 DEF Answer, GetLedColors
  <2> QED BY <1>9, <2>2 DEF TakeLeds, Take
<1>10. CASE WriteFile(p)
  BY <1>10, <1>o DEF WriteFile
<1>11. CASE EndsEarly(p)
  <2>1. /\ pc' = [pc EXCEPT ![p] = "failed"] /\ UNCHANGED <<deviceVars, cmd, next>>
        /\ got' = [got EXCEPT ![p] = NoBuffer] /\ read' = [read EXCEPT ![p] = Unread]
    BY <1>11 DEF EndsEarly, OpenRefused, Panic, Fail
  <2>2. holders' = holders \ {p}
    BY <1>11 DEF EndsEarly, OpenRefused, Panic, CloseSession
  <2> QED BY <2>1, <2>2, <1>o
<1>12. CASE ExportDies(p)
  BY <1>12, <1>o DEF ExportDies, Exporting, Die, CloseSession, Fail
<1> QED BY <1>1, <1>2, <1>3, <1>4, <1>5, <1>6, <1>7, <1>8, <1>9, <1>10, <1>11, <1>12
        DEF ExportStep

(* The keyboard answers and settles; its user changes the profile, which   *)
(* an export does not read.                                                *)
LEMMA KeyboardKeeps ==
  ASSUME ExportInv, KeyboardStep \/ UserStep, UNCHANGED read
  PROVE  ExportInv'
<1>1. /\ UNCHANGED <<matrix, macros, colors, pc, cmd, got, next, holders>>
      /\ UNCHANGED <<asked, reply>> \/ DeviceAnswers
  BY DEF KeyboardStep, UserStep, UserSetsProfile, DeviceAnswers, DeviceSettles, stores, processVars
<1>2. ShapeInv' /\ SoleHolder'
  BY <1>1 DEF ExportInv, ShapeInv, SoleHolder
<1>3. ASSUME NEW p \in Procs PROVE WritesFile(p)' /\ ReadSoFar(p)'
  <2>1. Kept(p) /\ WritesFile(p) /\ ReadSoFar(p)
    BY <1>1 DEF Kept, ExportInv
  <2> QED BY <1>1, <2>1, FileKeeps, ReadFrame
<1> QED BY <1>2, <1>3 DEF ExportInv

LEMMA ExportInvNext ==
  ASSUME Exclusive, Prompt, ExportInv, [ExportNext]_exportVars
  PROVE  ExportInv'
<1>1. ASSUME NEW p \in Procs, StartExport(p) \/ ExportStep(p) \/ ExportDies(p) PROVE ExportInv'
  BY <1>1, ExportsKeep
<1>2. ASSUME NEW p \in Procs, Aside,
             ImportStep(p) \/ StartImport(p) \/ (~Exporting(p) /\ ImportDies(p))
      PROVE  ExportInv'
  BY <1>2, ImportsKeep DEF Aside
<1>3. CASE KeyboardAside
  BY <1>3, KeyboardKeeps DEF KeyboardAside, Aside
<1>4. CASE UNCHANGED exportVars
  <2>1. UNCHANGED <<matrix, macros, colors, profile, asked, reply, holders, pc, cmd, got, next, read>>
    BY <1>4 DEF exportVars, importVars, vars, deviceVars, stores, processVars
  <2>2. ShapeInv' /\ SoleHolder'
    BY <2>1 DEF ExportInv, ShapeInv, SoleHolder
  <2>3. ASSUME NEW p \in Procs PROVE WritesFile(p)' /\ ReadSoFar(p)'
    <3>1. Kept(p) /\ WritesFile(p) /\ ReadSoFar(p)
      BY <2>1 DEF Kept, ExportInv
    <3> QED BY <2>1, <3>1, FileKeeps, ReadFrame
  <2> QED BY <2>2, <2>3 DEF ExportInv
<1> QED BY <1>1, <1>2, <1>3, <1>4, ExportAssumption DEF ExportNext, ImportAside

(* With exclusive opens and a prompt device, each session of an export     *)
(* ends with what the keyboard holds, for any number of processes that     *)
(* import, export and die next to it.                                      *)
THEOREM PartIsCurrentHolds == ASSUME Exclusive, Prompt PROVE ExportSpec => PartIsCurrent
<1> DEFINE Parts ==
      \A p \in Procs :
        /\ Passes(p, "table-close") => read[p].table \in TableNow
        /\ Passes(p, "matrix-close") => \A l \in Layers : read[p].layers[l + 1] = matrix[l]
        /\ Passes(p, "leds-close") => got[p] = colors
<1>1. ExportInv /\ [ExportNext]_exportVars => ExportInv'
  BY ExportInvNext
<1>2. ExportInv => [Parts]_exportVars
  BY DEF ExportInv, ReadSoFar, TableSoFar, MatrixSoFar, LedsSoFar, Passes
<1> QED BY ExportInvInit, <1>1, <1>2, PTL DEF ExportSpec, PartIsCurrent

-----------------------------------------------------------------------------
(* What a whole export says of a keyboard that nobody wrote meanwhile.     *)

(* A table that is certain is the one whose pages the keyboard holds.      *)
LEMMA CertainTableHolds ==
  ASSUME ShapeInv, NEW table \in Tables, TableNow = {table}
  PROVE  Holds(table)
<1>1. PICK t \in Tables : macros[0] = Page(t, 0)
  BY SizeAssumption DEF ShapeInv, Pages
<1> DEFINE first == FirstPages(NumPages)
           Whole(u) == \A i \in {0} \union 0 .. PageCount[u] - 1 : first[i + 1] = Page(u, i)
<1>2. TableNow = Decodings(first)
  BY DEF TableNow, FirstPages
<1>3. \A i \in Pages : first[i + 1] = macros[i]
  BY SizeAssumption DEF FirstPages, Pages
<1>4. first[1].table = t
  BY <1>1, <1>3, SizeAssumption DEF Page, Pages
<1>5. \A u \in Tables : {0} \union 0 .. PageCount[u] - 1 \subseteq Pages
  BY SizeAssumption, ImportAssumption DEF Pages
<1>6. CASE Whole(t)
  <2>1. t = table
    BY <1>2, <1>4, <1>6 DEF Decodings
  <2> QED BY <1>3, <1>5, <1>6, <2>1 DEF Holds
<1>7. CASE ~Whole(t)
  <2>1. Tables = {table}
    BY <1>2, <1>4, <1>7 DEF Decodings
  <2>2. \A i \in Pages : macros[i] = Page(table, i)
    BY <2>1 DEF ShapeInv
  <2> QED BY <1>5, <2>2 DEF Holds
<1> QED BY <1>6, <1>7

(* Whatever was exported, colours compile back to what was read.           *)
LEMMA ColorsCompileBack ==
  ASSUME NEW job, NEW parts, NEW lit \in ColorBuffers
  PROVE  ColorTarget(Exported(job, parts, lit)) = lit
BY DEF ColorTarget, Exported, ColorBuffers

(* A key code or a macro is printed as an action that the file can have.   *)
LEMMA PrintedIsAction ==
  ASSUME NEW table \in Tables, NEW value \in Values, value \notin Keyless
  PROVE  Printed(table, value) \in Values \union {table[i] : i \in DOMAIN table}
<1>1. CASE Refers(table, value)
  <2>1. value \in MacroReferences /\ table \in Seq(MacroNames) /\ value.macro < Len(table)
    BY <1>1, ImportAssumption DEF Refers
  <2>2. value.macro + 1 \in DOMAIN table
    BY <2>1 DEF MacroReferences
  <2> QED BY <1>1, <2>2 DEF Printed
<1>2. CASE ~Refers(table, value)
  BY <1>2 DEF Printed
<1> QED BY <1>1, <1>2

(* What a slot that is printed compiles to: a macro that is played once,   *)
(* or the value itself.                                                    *)
LEMMA SlotCompilesBack ==
  ASSUME NEW job, NEW parts, NEW lit, ShapeInv, NEW l \in Layers, NEW s \in Slots,
         parts.table \in Tables, DistinctNames(parts.table),
         \A k \in Layers : parts.layers[k + 1] = matrix[k],
         matrix[l][s] # Baseline(job, l, s), matrix[l][s] \notin Keyless
  PROVE  LET file == Exported(job, parts, lit)
             old == matrix[l][s] IN
         SlotValue(file, file.layers[l][s])
           = IF Refers(file.macros, old) THEN [old EXCEPT !.plays = Once] ELSE old
<1> DEFINE file == Exported(job, parts, lit)
           value == matrix[l][s]
           table == parts.table
<1>1. value \in Values /\ table \in Seq(MacroNames)
  BY ImportAssumption DEF ShapeInv, KeyBuffers
<1>2. /\ file.macros = table
      /\ file.plays = [i \in DOMAIN table |-> Once]
      /\ file.layers[l][s] = Printed(table, value)
  BY DEF Exported
<1>3. CASE Refers(table, value)
  <2>1. value \in MacroReferences /\ value.macro \in Nat /\ value.macro < Len(table)
    BY <1>1, <1>3, ImportAssumption DEF Refers, MacroReferences
  <2> DEFINE i == value.macro + 1
  <2>2. i \in DOMAIN table /\ table[i] \in MacroNames /\ i - 1 = value.macro
    BY <1>1, <2>1
  <2>3. Printed(table, value) = table[i]
    BY <1>3 DEF Printed
  <2>4. (CHOOSE j \in DOMAIN table : table[j] = table[i]) = i
    BY <2>2 DEF DistinctNames
  <2>5. SlotValue(file, table[i]) = [macro |-> value.macro, plays |-> Once]
    <3> HIDE DEF file, table, i
    <3>1. Position(file, table[i]) = i
      BY <1>2, <2>4 DEF Position
    <3> QED BY <1>2, <2>2, <3>1 DEF SlotValue
  <2>6. [value EXCEPT !.plays = Once] = [macro |-> value.macro, plays |-> Once]
    BY <2>1 DEF MacroReferences
  <2> HIDE DEF file, value, table, i
  <2> QED BY <1>2, <1>3, <2>3, <2>5, <2>6 DEF file, value, table
<1>4. CASE ~Refers(table, value)
  <2>1. Printed(table, value) = value
    BY <1>4 DEF Printed
  <2>2. SlotValue(file, value) = value
    BY <1>1, ImportAssumption DEF SlotValue
  <2> HIDE DEF file, value, table
  <2> QED BY <1>2, <1>4, <2>1, <2>2 DEF file, value, table
<1> QED BY <1>3, <1>4

(* A document of what the keyboard holds is valid just if all of it can be *)
(* written.                                                                *)
LEMMA ExportIsValid ==
  ASSUME ShapeInv, NEW job, NEW parts, NEW lit, parts.table \in Tables,
         \A l \in Layers : parts.layers[l + 1] = matrix[l]
  PROVE  Valid(Exported(job, parts, lit)) <=> Writable(job, parts.table)
<1> DEFINE file == Exported(job, parts, lit)
           names == {parts.table[i] : i \in DOMAIN parts.table}
<1>1. /\ file.macros = parts.table
      /\ \A l \in Layers : DOMAIN file.layers[l] = {s \in Slots : matrix[l][s] # Baseline(job, l, s)}
      /\ \A l \in Layers : \A s \in DOMAIN file.layers[l] :
           file.layers[l][s] = Printed(parts.table, matrix[l][s])
  BY DEF Exported
<1>2. NoAction \notin Values \union names
  BY ImportAssumption, ExportAssumption
<1>3. ASSUME Writable(job, parts.table) PROVE ActionsOf(file) \subseteq Values \union names
  <2>1. ASSUME NEW l \in Layers, NEW s \in Slots, matrix[l][s] # Baseline(job, l, s)
        PROVE  Printed(parts.table, matrix[l][s]) \in Values \union names
    <3>1. matrix[l][s] \notin Keyless /\ matrix[l][s] \in Values
      BY <1>3, <2>1 DEF Writable, ShapeInv, KeyBuffers
    <3> QED BY <3>1, PrintedIsAction
  <2> HIDE DEF file, names
  <2> QED BY <1>1, <2>1 DEF ActionsOf
<1>4. ASSUME ActionsOf(file) \subseteq Values \union names,
             NEW l \in Layers, NEW s \in Slots, matrix[l][s] \in Keyless
      PROVE  matrix[l][s] = Baseline(job, l, s)
  <2> SUFFICES ASSUME matrix[l][s] # Baseline(job, l, s) PROVE FALSE
    OBVIOUS
  <2>1. s \in DOMAIN file.layers[l] /\ file.layers[l][s] = NoAction
    BY <1>1, <1>4 DEF Printed
  <2>2. NoAction \in ActionsOf(file)
    BY <2>1 DEF ActionsOf
  <2> QED BY <1>2, <1>4, <2>2
<1> HIDE DEF file
<1>5. Valid(file) <=> /\ DistinctNames(parts.table)
                      /\ \A i \in DOMAIN parts.table : parts.table[i] \notin Unwritable
                      /\ ActionsOf(file) \subseteq Values \union names
  BY <1>1 DEF Valid, DistinctNames
<1> QED BY <1>3, <1>4, <1>5 DEF Writable, file

(* What a valid document of the keyboard makes of a slot.                  *)
LEMMA ExportRestores ==
  ASSUME ShapeInv, NEW job, NEW parts, NEW lit, parts.table \in Tables, Writable(job, parts.table),
         \A l \in Layers : parts.layers[l + 1] = matrix[l],
         NEW l \in Layers, NEW s \in Slots
  PROVE  ComesBack(job, Exported(job, parts, lit), l, s)
<1> DEFINE file == Exported(job, parts, lit)
           old == matrix[l][s]
           new == LayerTarget(file, l)[s]
<1>1. s \in DOMAIN file.layers[l] <=> old # Baseline(job, l, s)
  BY DEF Exported
<1>2. CASE old # Baseline(job, l, s)
  <2>1. old \notin Keyless /\ DistinctNames(parts.table)
    BY <1>2 DEF Writable
  <2>2. SlotValue(file, file.layers[l][s])
          = IF Refers(file.macros, old) THEN [old EXCEPT !.plays = Once] ELSE old
    BY <1>2, <2>1, SlotCompilesBack
  <2>3. new = SlotValue(file, file.layers[l][s])
    <3> HIDE DEF file
    <3> QED BY <1>1, <1>2 DEF LayerTarget
  <2> HIDE DEF file
  <2> QED BY <2>2, <2>3 DEF ComesBack, file
<1>3. CASE old = Baseline(job, l, s)
  <2>1. new = Factory[l][s]
    <3> HIDE DEF file
    <3> QED BY <1>1, <1>3 DEF LayerTarget
  <2> HIDE DEF file
  <2> QED BY <1>3, <2>1 DEF ComesBack, Baseline, file
<1> QED BY <1>2, <1>3

(* What an export has read in its earlier sessions is still what the       *)
(* keyboard holds, as long as nobody wrote.                                *)
AfterMatrix == {"matrix-close", "leds-open", "leds-close", "write-file"} \union LedsLabels
AfterTable == {"table-close", "matrix-open"} \union MatrixLabels \union AfterMatrix
StillCurrent(p) ==
  /\ pc[p] \in AfterTable => read[p].table \in TableNow
  /\ pc[p] \in AfterMatrix => \A l \in Layers : read[p].layers[l + 1] = matrix[l]
  /\ pc[p] = "write-file" => got[p] = colors
QuietInv == DOMAIN quiet = Procs /\ \A p \in Procs : quiet[p] => StillCurrent(p)

LEMMA QuietInit == ExportInit => QuietInv
BY DEF ExportInit, ImportInit, QuietInv, StillCurrent, AfterTable, AfterMatrix, MatrixLabels,
       LedsLabels

LEMMA StaysCurrent ==
  ASSUME NEW q \in Procs, StillCurrent(q), Kept(q), UNCHANGED <<matrix, macros, colors>>
  PROVE  StillCurrent(q)'
<1>1. TableNow' = TableNow
  BY DEF TableNow
<1> QED BY <1>1 DEF StillCurrent, Kept

(* One step of an export takes over what it has just read.                 *)
LEMMA ExportStaysCurrent ==
  ASSUME ExportInv, ExportInv', NEW p \in Procs, StillCurrent(p) \/ StartExport(p),
         StartExport(p) \/ ExportStep(p) \/ ExportDies(p)
  PROVE  StillCurrent(p)'
<1>t. /\ ShapeInv /\ ReadSoFar(p) /\ TableSoFar(p)' /\ MatrixSoFar(p)'
  BY DEF ExportInv, ReadSoFar
<1> USE <1>t DEF ShapeInv, AfterTable, AfterMatrix, MatrixLabels, LedsLabels, PageLabels, Goto
<1>1. UNCHANGED <<matrix, macros, colors>> /\ TableNow' = TableNow
  <2>1. UNCHANGED <<matrix, macros, colors>>
    BY DEF ExportStep, StartExport, Begin, OpenPart, Open, ClosePart, Close, AskPage, Ask,
           SendRequest, TakePage, AskMatrix, TakeMatrix, Take, AskLeds, TakeLeds, WriteFile,
           EndsEarly, OpenRefused, Panic, ExportDies, Die, deviceVars, stores
  <2> QED BY <2>1 DEF TableNow
<1>2. CASE StartExport(p) \/ EndsEarly(p) \/ ExportDies(p) \/ WriteFile(p)
  <2>1. pc'[p] \in {"table-open", "failed", "done"}
    BY <1>2 DEF StartExport, Begin, EndsEarly, OpenRefused, Panic, ExportDies, Die, Fail, WriteFile
  <2> QED BY <2>1 DEF StillCurrent
<1>3. CASE OpenPart(p) \/ AskPage(p) \/ AskMatrix(p) \/ AskLeds(p) \/ TakeLeds(p)
  <2>1. read'[p] = read[p] /\ pc'[p] # "write-file"
    BY <1>3 DEF OpenPart, Open, AskPage, Ask, AskMatrix, AskLeds, TakeLeds, Take
  <2>2. /\ pc'[p] \in AfterTable => pc[p] \in AfterTable
        /\ pc'[p] \in AfterMatrix => pc[p] \in AfterMatrix
    BY <1>3 DEF OpenPart, Open, AskPage, Ask, AskMatrix, AskLeds, TakeLeds, Take
  <2>3. StillCurrent(p)
    BY <1>3, <2>2 DEF StillCurrent, OpenPart, Open, AskPage, Ask, AskMatrix, AskLeds, TakeLeds,
                      Take, StartExport, Begin, Running, Ended
  <2> QED BY <1>1, <2>1, <2>2, <2>3 DEF StillCurrent
<1>4. CASE ClosePart(p)
  <2>1. \/ pc[p] = "table-close" /\ pc'[p] \in {"matrix-open", "done"}
        \/ pc[p] = "matrix-close" /\ pc'[p] = "leds-open"
        \/ pc[p] = "leds-close" /\ pc'[p] = "write-file"
    BY <1>4 DEF ClosePart, Close
  <2>2. got'[p] = got[p] /\ (pc'[p] # "done" => read'[p] = read[p])
    BY <1>4 DEF ClosePart, Close
  <2>3. StillCurrent(p)
    BY <2>1 DEF StartExport, Begin, Running, Ended
  <2>4. pc[p] = "leds-close" => got[p] = colors
    BY DEF ReadSoFar, LedsSoFar
  <2> QED BY <1>1, <2>1, <2>2, <2>3, <2>4 DEF StillCurrent
<1>5. CASE TakePage(p)
  <2>1. pc'[p] \in {"page-read", "table-close"}
    BY <1>5 DEF TakePage
  <2> QED BY <2>1 DEF StillCurrent, TableSoFar
<1>6. CASE TakeMatrix(p)
  <2>1. pc[p] = "matrix-wait" /\ pc'[p] \in {"matrix-read", "matrix-close"}
    BY <1>6 DEF TakeMatrix, Take
  <2>2. read'[p].table = read[p].table
    <3>1. PICK table : read[p] = Part(<<>>, table, FirstLayers(next[p]))
      BY <2>1 DEF ReadSoFar, MatrixSoFar
    <3>2. read'[p] = [read[p] EXCEPT !.layers = Append(@, reply.data)]
      BY <1>6 DEF TakeMatrix
    <3> QED BY <3>1, <3>2 DEF Part
  <2>3. StillCurrent(p)
    BY <2>1 DEF StartExport, Begin, Running, Ended
  <2> QED BY <1>1, <2>1, <2>2, <2>3 DEF StillCurrent, MatrixSoFar
<1> QED BY <1>2, <1>3, <1>4, <1>5, <1>6 DEF ExportStep

LEMMA ExportLeavesOthers ==
  ASSUME ExportInv, NEW p \in Procs, StartExport(p) \/ ExportStep(p) \/ ExportDies(p),
         DOMAIN quiet = Procs
  PROVE  /\ UNCHANGED <<matrix, macros, colors>>
         /\ \A q \in Procs \ {p} : Kept(q) /\ quiet'[q] = quiet[q]
         /\ DOMAIN quiet' = Procs
         /\ StartExport(p) \/ quiet' = quiet
<1>1. ShapeInv
  BY DEF ExportInv
<1> QED
  BY <1>1 DEF ShapeInv, Kept, ExportStep, StartExport, Begin, OpenPart, Open, ClosePart, Close,
       AskPage, Ask, SendRequest, TakePage, AskMatrix, TakeMatrix, Take, AskLeds, TakeLeds,
       WriteFile, EndsEarly, OpenRefused, Panic, ExportDies, Die, Fail, Goto, deviceVars, stores

LEMMA QuietNext ==
  ASSUME ExportInv, ExportInv', QuietInv, [ExportNext]_exportVars
  PROVE  QuietInv'
<1>t. /\ DOMAIN quiet = Procs
      /\ \A q \in Procs : quiet[q] => StillCurrent(q)
  BY DEF QuietInv
<1>1. ASSUME NEW p \in Procs, StartExport(p) \/ ExportStep(p) \/ ExportDies(p) PROVE QuietInv'
  <2>1. /\ UNCHANGED <<matrix, macros, colors>>
        /\ \A q \in Procs \ {p} : Kept(q) /\ quiet'[q] = quiet[q]
        /\ DOMAIN quiet' = Procs
        /\ StartExport(p) \/ quiet' = quiet
    BY <1>1, <1>t, ExportLeavesOthers
  <2>2. ASSUME NEW q \in Procs \ {p}, quiet'[q] PROVE StillCurrent(q)'
    BY <2>1, <2>2, <1>t, StaysCurrent
  <2>3. ASSUME quiet'[p] PROVE StillCurrent(p)'
    <3>1. StartExport(p) \/ StillCurrent(p)
      BY <2>1, <2>3, <1>t
    <3> QED BY <1>1, <3>1, ExportStaysCurrent
  <2> QED BY <2>1, <2>2, <2>3 DEF QuietInv
(* A write takes quiet away from every export that has begun.              *)
<1>2. ASSUME NEW q \in Procs, Aside, pc'[q] = pc[q],
             <<matrix, macros, colors>>' # <<matrix, macros, colors>>, quiet'[q]
      PROVE  StillCurrent(q)'
  <2>1. ~Exporting(q)
    BY <1>2 DEF Aside
  <2>2. pc[q] \in AfterTable => Exporting(q)
    BY DEF ExportInv, ReadSoFar, Exporting, Running, Ended, AfterTable, AfterMatrix,
           MatrixLabels, LedsLabels, ExportLabels, ImportLabels, Reading
  <2> QED BY <1>2, <2>1, <2>2 DEF StillCurrent, AfterTable, AfterMatrix
<1>3. Aside => DOMAIN quiet' = Procs
  BY <1>t DEF Aside
<1>4. ASSUME NEW p \in Procs, Aside,
             ImportStep(p) \/ StartImport(p) \/ (~Exporting(p) /\ ImportDies(p))
      PROVE  QuietInv'
  <2>1. Alone(p) /\ pc'[p] \in ImportLabels
    BY <1>4, ImportsKeepShape DEF Aside
  <2>2. StillCurrent(p)'
    BY <2>1 DEF StillCurrent, ImportLabels, Ended, AfterTable, AfterMatrix, MatrixLabels, LedsLabels
  <2>3. ASSUME NEW q \in Procs \ {p}, quiet'[q] PROVE StillCurrent(q)'
    <3>1. Kept(q)
      BY <2>1 DEF Alone
    <3>2. CASE <<matrix, macros, colors>>' = <<matrix, macros, colors>>
      BY <1>4, <1>t, <2>3, <3>1, <3>2, StaysCurrent DEF Aside
    <3>3. CASE <<matrix, macros, colors>>' # <<matrix, macros, colors>>
      <4>1. q \in Procs /\ pc'[q] = pc[q]
        BY <3>1 DEF Kept
      <4> QED BY <1>2, <1>4, <2>3, <3>3, <4>1
    <3> QED BY <3>2, <3>3
  <2> QED BY <1>3, <1>4, <2>2, <2>3 DEF QuietInv
<1>5. CASE KeyboardAside \/ UNCHANGED exportVars
  <2>1. /\ UNCHANGED <<matrix, macros, colors, quiet>>
        /\ \A q \in Procs : Kept(q)
    BY <1>5 DEF KeyboardAside, KeyboardStep, UserStep, UserSetsProfile, DeviceAnswers,
                DeviceSettles, Aside, Kept, stores, processVars, exportVars, importVars, vars,
                deviceVars
  <2> QED BY <1>t, <2>1, StaysCurrent DEF QuietInv
<1> QED BY <1>1, <1>4, <1>5, ExportAssumption DEF ExportNext, ImportAside

(* Nobody gets a process past write-file but itself, with its file.        *)
LEMMA PassesByWriting ==
  ASSUME ExportInv, DOMAIN quiet = Procs, [ExportNext]_exportVars, NEW p \in Procs, Passes(p, "write-file")
  PROVE  disk' = Exported(cmd[p], read[p], got[p]) /\ UNCHANGED <<matrix, macros, colors>>
<1>1. pc[p] = "write-file" /\ pc'[p] # pc[p] /\ pc'[p] # "failed"
  BY DEF Passes
<1>2. ASSUME NEW q \in Procs, StartExport(q) \/ ExportStep(q) \/ ExportDies(q)
      PROVE  WriteFile(p)
  <2>1. p = q
    BY <1>1, <1>2, ExportLeavesOthers DEF Kept
  <2> QED BY <1>1, <1>2, <2>1
          DEF ExportStep, StartExport, Begin, Running, Ended, OpenPart, Open, ClosePart, Close,
              AskPage, Ask, TakePage, AskMatrix, TakeMatrix, Take, AskLeds, TakeLeds, EndsEarly,
              OpenRefused, Panic, ExportDies, Die, Fail, Goto, ExportInv, ShapeInv
<1>3. ASSUME NEW q \in Procs, Aside,
             ImportStep(q) \/ StartImport(q) \/ (~Exporting(q) /\ ImportDies(q))
      PROVE  FALSE
  <2>1. Alone(q) /\ pc[q] \in ImportLabels
    BY <1>3, ImportsKeepShape DEF Aside
  <2> QED BY <1>1, <2>1 DEF Alone, Kept, ImportLabels, Ended
<1>4. ~(KeyboardAside \/ UNCHANGED exportVars)
  BY <1>1 DEF KeyboardAside, KeyboardStep, UserStep, processVars, exportVars, importVars, vars
<1>5. WriteFile(p)
  BY <1>2, <1>3, <1>4, ExportAssumption DEF ExportNext, ImportAside
<1> QED BY <1>5 DEF WriteFile, deviceVars, stores

(* With exclusive opens and a prompt device, an export during which nobody *)
(* wrote is accepted just if all that is on the keyboard can be written in *)
(* a file, and brings back all of it but the two losses that ComesBack     *)
(* names, for any number of other processes and any tables and layers.     *)
THEOREM QuietExportRestoresHolds ==
  ASSUME Exclusive, Prompt PROVE ExportSpec => QuietExportRestores
<1> DEFINE Restored(p) ==
      /\ Valid(disk') <=> Writable(cmd[p], disk'.macros)
      /\ MacrosMatch(disk')
      /\ ColorsMatch(disk')
      /\ Valid(disk') /\ HasLayers(disk') =>
           \A l \in Layers, s \in Slots : ComesBack(cmd[p], disk', l, s)
           Restores ==
      \A p \in Procs :
        /\ Passes(p, "write-file") /\ quiet[p]
        /\ \E table \in Tables : TableNow = {table}
        => Restored(p)
<1>1. ExportInv /\ [ExportNext]_exportVars => ExportInv'
  BY ExportInvNext
<1>2. ExportInv /\ ExportInv' /\ QuietInv /\ [ExportNext]_exportVars => QuietInv'
  BY QuietNext
<1>3. ExportInv /\ QuietInv /\ [ExportNext]_exportVars => [Restores]_exportVars
  <2> SUFFICES ASSUME ExportInv, QuietInv, [ExportNext]_exportVars, NEW p \in Procs,
                      Passes(p, "write-file"), quiet[p],
                      NEW table \in Tables, TableNow = {table}
               PROVE  Restored(p)
    OBVIOUS
  <2>1. ShapeInv /\ StillCurrent(p) /\ pc[p] = "write-file"
    BY DEF ExportInv, QuietInv, Passes
  <2>2. /\ read[p].table = table
        /\ \A l \in Layers : read[p].layers[l + 1] = matrix[l]
        /\ got[p] = colors
    BY <2>1 DEF StillCurrent, AfterTable, AfterMatrix
  <2>3. disk' = Exported(cmd[p], read[p], colors)
    BY <2>2, PassesByWriting DEF QuietInv
  <2>4. disk'.macros = table
    BY <2>2, <2>3 DEF Exported
  <2>5. Holds(table)
    BY <2>1, CertainTableHolds
  <2>6. ColorTarget(disk') = colors
    BY <2>1, <2>3, ColorsCompileBack DEF ShapeInv
  <2>7. Valid(disk') <=> Writable(cmd[p], table)
    BY <2>1, <2>2, <2>3, ExportIsValid
  <2>8. ASSUME Writable(cmd[p], table), NEW l \in Layers, NEW s \in Slots
        PROVE  ComesBack(cmd[p], disk', l, s)
    BY <2>1, <2>2, <2>3, <2>8, ExportRestores
  <2> HIDE DEF TableNow
  <2> QED BY <2>4, <2>5, <2>6, <2>7, <2>8 DEF MacrosMatch, ColorsMatch
<1> QED BY ExportInvInit, QuietInit, <1>1, <1>2, <1>3, PTL DEF ExportSpec, QuietExportRestores
=============================================================================
