------------------------ MODULE ImportCommandProofs ------------------------
(***************************************************************************)
(* Proofs about import-hcl for any number of processes, any files, tables, *)
(* layers and slots.                                                       *)
(***************************************************************************)
EXTENDS ImportHistory, TLAPS

-----------------------------------------------------------------------------
(* Types, whatever the platform and however slow the device.               *)

MacroLabels == {"macros-open", "macros-write", "macros-close"}
LayerLabels == {"layer-read", "layer-wait", "layer-write"}
WriteLabels == {"layer-write", "profile-read", "profile-wait", "profile-write",
                "profile-sleep", "colors-write"}
Holding == {"macros-write", "macros-close", "layers-close", "colors-read", "colors-wait",
            "colors-close", "profile-read", "profile-wait", "profile-write",
            "profile-sleep", "colors-write"} \union LayerLabels

(* What a process at a label knows of its file and its loop variable: past *)
(* the parser the file is valid, only the macro section of a real run that *)
(* has macros is entered, and what is written is never a dry run's.        *)
KnownOf(p) ==
  /\ pc[p] \notin {"idle", "failed"} => cmd[p] \in ImportJobs
  /\ pc[p] \notin Ended \union {"parsing"} => Valid(File(p))
  /\ pc[p] \in MacroLabels => HasMacros(File(p)) /\ ~cmd[p].dry
  /\ pc[p] = "macros-write" => next[p] \in 0 .. LastPage(File(p).macros)
  /\ pc[p] \in LayerLabels => next[p] \in Layers
  /\ pc[p] \in WriteLabels => ~cmd[p].dry
  /\ pc[p] = "profile-write" => got[p] \in Profiles
  /\ p \in holders <=> pc[p] \in Holding

TypeInv == TypeOK /\ \A p \in Procs : KnownOf(p)

(* The length assertions let nothing but a buffer of the store through.    *)
LEMMA LengthTellsStore ==
  ASSUME DeviceTypeOK, NEW op \in {"GetKeyMatrix", "GetLedColors", "GetProfile"},
         LengthMatches(op)
  PROVE  /\ reply # NoReply /\ reply.op = op
         /\ op = "GetKeyMatrix" => reply.data \in KeyBuffers
         /\ op = "GetLedColors" => reply.data \in ColorBuffers
         /\ op = "GetProfile" => reply.data \in Profiles
<1>1. reply # NoReply
  BY DEF LengthMatches, ReplyLen, PayloadLen
<1>2. reply \in Replies /\ PayloadLen(reply.op) = PayloadLen(op)
  BY <1>1 DEF DeviceTypeOK, LengthMatches, ReplyLen
<1>3. CASE reply \in [op : {"GetKeyMatrix"}, at : Layers, data : KeyBuffers]
  BY <1>1, <1>2, <1>3 DEF PayloadLen
<1>4. CASE reply \in [op : {"GetMacros"}, at : Pages, data : PageImages]
  BY <1>1, <1>2, <1>4 DEF PayloadLen
<1>5. CASE reply \in [op : {"GetLedColors"}, at : {0}, data : ColorBuffers]
  BY <1>1, <1>2, <1>5 DEF PayloadLen
<1>6. CASE reply \in [op : {"GetProfile"}, at : {0}, data : Profiles]
  BY <1>1, <1>2, <1>6 DEF PayloadLen
<1> QED BY <1>2, <1>3, <1>4, <1>5, <1>6 DEF Replies

(* An answer has the type of its store.                                    *)
LEMMA AnswerType ==
  ASSUME DeviceTypeOK, NEW req \in Requests
  PROVE  Answer(req) \in Replies
<1>1. CASE req \in {GetKeyMatrix(l) : l \in Layers}
  BY <1>1 DEF Answer, GetKeyMatrix, Replies, DeviceTypeOK
<1>2. CASE req \in {GetMacros(i) : i \in Pages}
  BY <1>2 DEF Answer, GetMacros, Replies, DeviceTypeOK
<1>3. CASE req = GetLedColors
  BY <1>3 DEF Answer, GetLedColors, Replies, DeviceTypeOK
<1>4. CASE req = GetProfile
  BY <1>4 DEF Answer, GetProfile, Replies, DeviceTypeOK
<1> QED BY <1>1, <1>2, <1>3, <1>4 DEF Requests

(* A valid file compiles to whole layers of slot values: a macro becomes   *)
(* an index that a slot can hold.                                          *)
LEMMA TargetType ==
  ASSUME NEW file \in Files, Valid(file), NEW l \in Layers
  PROVE  LayerTarget(file, l) \in KeyBuffers
<1> SUFFICES ASSUME NEW s \in Slots, s \in DOMAIN file.layers[l]
             PROVE  SlotValue(file, file.layers[l][s]) \in Values
  BY ImportAssumption DEF LayerTarget, KeyBuffers
<1> DEFINE action == file.layers[l][s]
<1>1. action \in Values \union {file.macros[i] : i \in DOMAIN file.macros}
  BY DEF Valid, ActionsOf
<1>2. file.macros \in Tables /\ file.macros \in Seq(MacroNames)
  BY ImportAssumption DEF Valid
<1>3. CASE action \in MacroNames
  <2>1. \E i \in DOMAIN file.macros : file.macros[i] = action
    BY <1>1, <1>3, ImportAssumption
  <2>2. Position(file, action) \in DOMAIN file.macros
    BY <2>1 DEF Position
  <2>3. file.plays[Position(file, action)] \in Plays
    BY <2>2, ImportAssumption
  <2> QED BY <1>2, <1>3, <2>2, <2>3, ImportAssumption DEF SlotValue
<1>4. CASE action \notin MacroNames
  <2>1. \A i \in DOMAIN file.macros : file.macros[i] \in MacroNames
    BY <1>2
  <2> QED BY <1>1, <1>4, <2>1 DEF SlotValue
<1> QED BY <1>3, <1>4

LEMMA ColorsType ==
  ASSUME NEW file \in Files
  PROVE  ColorTarget(file) \in ColorBuffers
BY ImportAssumption DEF ColorTarget, ColorBuffers

(* The pages of a valid file's table: their numbers and their images.      *)
LEMMA PagesOf ==
  ASSUME NEW file, Valid(file)
  PROVE  /\ LastPage(file.macros) \in Int
         /\ HasMacros(file) => LastPage(file.macros) \in Pages
         /\ HasMacros(file) => 0 \in 0 .. LastPage(file.macros)
         /\ \A i \in Pages : Page(file.macros, i) \in PageImages
<1>1. /\ file.macros \in Tables
      /\ PageCount[file.macros] \in (IF file.macros = <<>> THEN {0} ELSE 1 .. NumPages)
      /\ \A i \in Pages : Page(file.macros, i) \in PageImages
  BY ImportAssumption DEF Valid, Page
<1> QED BY <1>1, SizeAssumption DEF LastPage, HasMacros, Pages

LEMMA TypeInit == ImportInit => TypeInv
<1> SUFFICES ASSUME ImportInit PROVE TypeInv
  OBVIOUS
<1>1. macros \in [Pages -> PageImages]
  BY ImportAssumption DEF ImportInit, Page
<1>2. DeviceTypeOK
  BY <1>1, ImportAssumption DEF ImportInit, DeviceTypeOK
<1>3. TypeOK
  BY <1>2 DEF ImportInit, TypeOK, SessionTypeOK, ImportLabels, Ended
<1> QED BY <1>3 DEF ImportInit, TypeInv, KnownOf, Ended, MacroLabels, LayerLabels, WriteLabels, Holding

LEMMA TypeNext == TypeInv /\ [Next]_importVars => TypeInv'
<1> SUFFICES ASSUME TypeInv, [Next]_importVars PROVE TypeInv'
  OBVIOUS
<1> USE DEF TypeInv, TypeOK, SessionTypeOK, KnownOf, ImportLabels, Ended, Running, Goto, File,
            MacroLabels, LayerLabels, WriteLabels, Holding
<1>1. ASSUME NEW p \in Procs, StartImport(p) PROVE TypeInv'
  BY <1>1 DEF StartImport, Begin, deviceVars, stores, DeviceTypeOK
<1>2. ASSUME NEW p \in Procs, Parse(p) PROVE TypeInv'
  <2>1. AfterMacros(File(p)) \in {"layers-open", "colors-open", "done"}
    BY DEF AfterMacros, AfterLayers
  <2> QED BY <1>2, <2>1 DEF Parse, AfterParse, Fail, deviceVars, stores, DeviceTypeOK
<1>3. ASSUME NEW p \in Procs, OpenSection(p) PROVE TypeInv'
  <2>1. pc[p] = "macros-open" => 0 \in 0 .. LastPage(File(p).macros)
    BY PagesOf
  <2>2. 0 \in Layers
    BY SizeAssumption DEF Layers
  <2> QED BY <1>3, <2>1, <2>2 DEF OpenSection, Open, OpenSession, deviceVars, stores, DeviceTypeOK
<1>5. ASSUME NEW p \in Procs, CloseSection(p) PROVE TypeInv'
  <2>1. /\ AfterMacros(File(p)) \in {"layers-open", "colors-open", "done"}
        /\ AfterLayers(File(p)) \in {"colors-open", "done"}
    BY DEF AfterMacros, AfterLayers
  <2> QED BY <1>5, <2>1 DEF CloseSection, Close, CloseSession, deviceVars, stores, DeviceTypeOK
<1>6. ASSUME NEW p \in Procs, WriteMacroPage(p) PROVE TypeInv'
  <2>1. /\ next[p] \in 0 .. LastPage(File(p).macros) /\ Valid(File(p)) /\ HasMacros(File(p))
        /\ LastPage(File(p).macros) \in Pages
    BY <1>6, PagesOf DEF WriteMacroPage
  <2>2. next[p] \in Pages /\ next[p] + 1 \in Nat
        /\ next[p] # LastPage(File(p).macros) => next[p] + 1 \in 0 .. LastPage(File(p).macros)
    BY <2>1, SizeAssumption DEF Pages
  <2>3. macros' \in [Pages -> PageImages]
    BY <1>6, <2>1, <2>2, PagesOf DEF WriteMacroPage, SetMacros, DeviceTypeOK
  <2> QED BY <1>6, <2>2, <2>3 DEF WriteMacroPage, SetMacros, DeviceTypeOK
<1>7. ASSUME NEW p \in Procs, ReadLayer(p) PROVE TypeInv'
  <2>1. asked' \in [by : Procs, req : Requests]
    BY <1>7 DEF ReadLayer, Ask, SendRequest, Requests
  <2> QED BY <1>7, <2>1 DEF ReadLayer, Ask, SendRequest, stores, DeviceTypeOK
<1>8. ASSUME NEW p \in Procs, TakeLayer(p) PROVE TypeInv'
  <2>1. reply.data \in KeyBuffers
    BY <1>8, LengthTellsStore DEF TakeLayer, Take
  <2>2. next[p] \in Layers /\ next[p] \in Nat /\ next[p] + 1 \in Nat
    BY <1>8, SizeAssumption DEF TakeLayer, Take, Layers
  <2>3. CASE SkipLayer(p)
    BY <1>8, <2>1, <2>2, <2>3 DEF TakeLayer, Take, NextLayer, deviceVars, stores, DeviceTypeOK
  <2>4. CASE ~SkipLayer(p)
    BY <1>8, <2>1, <2>2, <2>4 DEF TakeLayer, Take, SkipLayer, deviceVars, stores, DeviceTypeOK
  <2> QED BY <2>3, <2>4
<1>9. ASSUME NEW p \in Procs, WriteLayer(p) PROVE TypeInv'
  <2>1. next[p] \in Layers /\ next[p] + 1 \in Nat /\ LayerTarget(File(p), next[p]) \in KeyBuffers
    BY <1>9, TargetType, SizeAssumption DEF WriteLayer, Layers, ImportJobs
  <2>2. matrix' \in [Layers -> KeyBuffers]
    BY <1>9, <2>1 DEF WriteLayer, SetKeyMatrix, DeviceTypeOK
  <2> QED BY <1>9, <2>1, <2>2 DEF WriteLayer, NextLayer, SetKeyMatrix, DeviceTypeOK
<1>10. ASSUME NEW p \in Procs, ReadColors(p) \/ ReadProfile(p) PROVE TypeInv'
  <2>1. asked' \in [by : Procs, req : Requests]
    BY <1>10 DEF ReadColors, ReadProfile, Ask, SendRequest, Requests
  <2> QED BY <1>10, <2>1 DEF ReadColors, ReadProfile, Ask, SendRequest, stores, DeviceTypeOK
<1>11. ASSUME NEW p \in Procs, TakeColors(p) PROVE TypeInv'
  <2>1. reply.data \in ColorBuffers
    BY <1>11, LengthTellsStore DEF TakeColors, Take
  <2> QED BY <1>11, <2>1 DEF TakeColors, Take, deviceVars, stores, DeviceTypeOK
<1>12. ASSUME NEW p \in Procs, TakeProfile(p) PROVE TypeInv'
  <2>1. reply.data \in Profiles
    BY <1>12, LengthTellsStore DEF TakeProfile, Take
  <2> QED BY <1>12, <2>1 DEF TakeProfile, Take, deviceVars, stores, DeviceTypeOK
<1>13. ASSUME NEW p \in Procs, WriteProfile(p) PROVE TypeInv'
  <2>1. profile' \in Profiles
    BY <1>13, ImportAssumption DEF WriteProfile, SetProfile, Profiles
  <2> QED BY <1>13, <2>1 DEF WriteProfile, SetProfile, DeviceTypeOK
<1>14. ASSUME NEW p \in Procs, WakeUp(p) PROVE TypeInv'
  BY <1>14 DEF WakeUp, deviceVars, stores, DeviceTypeOK
<1>15. ASSUME NEW p \in Procs, WriteColors(p) PROVE TypeInv'
  <2>1. colors' \in ColorBuffers
    BY <1>15, ColorsType DEF WriteColors, SetLedColors, ImportJobs
  <2> QED BY <1>15, <2>1 DEF WriteColors, SetLedColors, DeviceTypeOK
<1>16. ASSUME NEW p \in Procs, ImportFails(p) PROVE TypeInv'
  BY <1>16 DEF ImportFails, OpenRefused, PanicOnRead, Panic, CloseSession, Fail, deviceVars, stores,
              DeviceTypeOK
<1>17. ASSUME NEW p \in Procs, ImportDies(p) PROVE TypeInv'
  BY <1>17 DEF ImportDies, Die, CloseSession, Fail, deviceVars, stores, DeviceTypeOK
<1>18. ASSUME KeyboardStep PROVE TypeInv'
  <2>1. DeviceAnswers => reply' \in Replies
    BY AnswerType DEF DeviceAnswers, DeviceTypeOK
  <2> QED BY <1>18, <2>1 DEF KeyboardStep, DeviceAnswers, DeviceSettles, processVars, stores, DeviceTypeOK
<1>19. ASSUME UserStep PROVE TypeInv'
  BY <1>19 DEF UserStep, UserSetsProfile, processVars, DeviceTypeOK
<1>20. CASE UNCHANGED importVars
  BY <1>20 DEF importVars, vars, deviceVars, stores, processVars, DeviceTypeOK
<1> QED BY <1>1, <1>2, <1>3, <1>5, <1>6, <1>7, <1>8, <1>9, <1>10, <1>11, <1>12, <1>13,
           <1>14, <1>15, <1>16, <1>17, <1>18, <1>19, <1>20 DEF Next, ImportStep

(* Types are kept on every platform, however slow the device and whatever  *)
(* the reports that are read: each store holds buffers of its own kind.    *)
THEOREM TypeCorrect == Spec => []TypeOK
<1>1. TypeInv => TypeOK
  BY DEF TypeInv
<1> QED BY TypeInit, TypeNext, <1>1, PTL DEF Spec

-----------------------------------------------------------------------------
(* Who writes. *)

(* Each store is changed by one action of a process, the profile also by   *)
(* the user.                                                               *)
LEMMA WhoWrites ==
  ASSUME [Next]_importVars
  PROVE  /\ matrix' # matrix => \E p \in Procs : WriteLayer(p)
         /\ macros' # macros => \E p \in Procs : WriteMacroPage(p)
         /\ colors' # colors => \E p \in Procs : WriteColors(p)
         /\ profile' # profile => UserStep \/ \E p \in Procs : WriteProfile(p)
BY DEF Next, ImportStep, importVars, vars, deviceVars, stores, processVars, StartImport, Begin,
       Parse, OpenSection, Open, ImportFails, OpenRefused, Fail, CloseSection, Close,
       WriteMacroPage, SetMacros, ReadLayer, Ask, SendRequest, TakeLayer, Take, WriteLayer,
       SetKeyMatrix, ReadColors, TakeColors, ReadProfile, TakeProfile, WriteProfile, SetProfile,
       WakeUp, WriteColors, SetLedColors, PanicOnRead, Panic, ImportDies, Die, KeyboardStep,
       DeviceAnswers, DeviceSettles, UserStep, UserSetsProfile

(* A mode change is begun by a process that writes the profile; the user's *)
(* own changes come from no process.                                       *)
LEMMA WhoSwitches ==
  ASSUME TypeInv, [Next]_importVars
  PROVE  /\ settling' /\ ~settling => \E p \in Procs : WriteProfile(p)
         /\ profile' # profile /\ pc' # pc => \E p \in Procs : WriteProfile(p)
<1>1. UserStep \/ KeyboardStep => pc' = pc /\ (settling' => settling)
  BY DEF TypeInv, TypeOK, DeviceTypeOK, UserStep, UserSetsProfile, KeyboardStep, DeviceAnswers,
         DeviceSettles, stores, processVars
<1>2. settling' /\ ~settling => \E p \in Procs : WriteProfile(p)
  BY <1>1 DEF Next, ImportStep, importVars, vars, deviceVars, stores, processVars, StartImport,
       Begin, Parse, OpenSection, Open, ImportFails, OpenRefused, Fail, CloseSection, Close,
       WriteMacroPage, SetMacros, ReadLayer, Ask, SendRequest, TakeLayer, Take, WriteLayer,
       SetKeyMatrix, ReadColors, TakeColors, ReadProfile, TakeProfile, WakeUp, WriteColors,
       SetLedColors, PanicOnRead, Panic, ImportDies, Die
<1> QED BY <1>1, <1>2, WhoWrites

(* On every platform, the keyboard is written only by a process that       *)
(* imports a valid file for real and has an open handle.                   *)
THEOREM OnlyImportsWriteHolds == Spec => OnlyImportsWrite
<1> DEFINE Writing(p) == /\ Advances(p) /\ Running(p) /\ p \in holders
                         /\ Valid(File(p)) /\ ~cmd[p].dry
<1>1. ASSUME TypeInv, NEW p \in Procs,
             WriteLayer(p) \/ WriteMacroPage(p) \/ WriteColors(p) \/ WriteProfile(p)
      PROVE  Writing(p)
  <2>1. Running(p) /\ p \in holders /\ Valid(File(p)) /\ ~cmd[p].dry
    BY <1>1 DEF TypeInv, KnownOf, WriteLayer, WriteMacroPage, WriteColors, WriteProfile, Running,
                Ended, Holding, LayerLabels, MacroLabels, WriteLabels
  <2>2. next \in [Procs -> Nat] /\ pc \in [Procs -> ImportLabels]
    BY <1>1 DEF TypeInv, TypeOK
  <2>3. ASSUME WriteLayer(p) \/ WriteMacroPage(p) PROVE next'[p] # next[p]
    BY <2>2, <2>3 DEF WriteLayer, WriteMacroPage
  <2>4. ASSUME WriteColors(p) \/ WriteProfile(p) PROVE pc'[p] # pc[p]
    BY <2>2, <2>4 DEF WriteColors, WriteProfile, Goto
  <2> QED BY <1>1, <2>1, <2>3, <2>4 DEF Advances
<1>2. TypeInv /\ [Next]_importVars
        => [KeyboardWritten => \E p \in Procs : Writing(p)]_importVars
  BY <1>1, WhoWrites, WhoSwitches DEF KeyboardWritten
<1> QED BY TypeInit, TypeNext, <1>2, PTL DEF Spec, OnlyImportsWrite

-----------------------------------------------------------------------------
(* Sections: what a process that is alone in its session has established.  *)

OneProcess == \A p, q \in Procs : p = q
SoleHolder == \A p, q \in holders : p = q

(* While a process sleeps, the device either still works on its request or *)
(* has prepared the answer to it, and that answer is not outdated.         *)
Answering(p, req) ==
  \/ asked = [by |-> p, req |-> req]
  \/ asked = NoRequest /\ reply = Answer(req)

(* The pages and the layers up to the loop variable are written, and what  *)
(* was asked for is about to be read as it is.                             *)
MacrosSoFar(p) ==
  /\ pc[p] = "macros-write" =>
       \A i \in Pages : i < next[p] => macros[i] = Page(File(p).macros, i)
  /\ pc[p] = "macros-close" => Holds(File(p).macros)
LayersSoFar(p) ==
  /\ pc[p] \in LayerLabels /\ ~cmd[p].dry =>
       \A l \in Layers : l < next[p] => matrix[l] = LayerTarget(File(p), l)
  /\ pc[p] = "layers-close" /\ ~cmd[p].dry =>
       \A l \in Layers : matrix[l] = LayerTarget(File(p), l)
  /\ pc[p] = "layer-wait" => Answering(p, GetKeyMatrix(next[p]))
ColorsSoFar(p) ==
  /\ pc[p] = "colors-close" /\ ~cmd[p].dry => colors = ColorTarget(File(p))
  /\ pc[p] = "colors-wait" => Answering(p, GetLedColors)
ProfileSoFar(p) == pc[p] = "colors-write" => ~settling
SectionInv(p) == MacrosSoFar(p) /\ LayersSoFar(p) /\ ColorsSoFar(p) /\ ProfileSoFar(p)

AloneInv == TypeInv /\ SoleHolder /\ \A p \in Procs : SectionInv(p)

LEMMA AloneInit == ImportInit => AloneInv
BY TypeInit DEF ImportInit, AloneInv, SoleHolder, SectionInv, MacrosSoFar, LayersSoFar,
                ColorsSoFar, ProfileSoFar, LayerLabels

(* Nothing is said of a process outside its sections.                      *)
LEMMA OutsideIsFree ==
  ASSUME NEW p \in Procs, pc'[p] \notin Holding
  PROVE  SectionInv(p)'
BY DEF Holding, SectionInv, MacrosSoFar, LayersSoFar, ColorsSoFar, ProfileSoFar, LayerLabels

(* A process inside its section is alone there.                            *)
LEMMA OthersOutside ==
  ASSUME TypeInv', SoleHolder', NEW p \in Procs, pc'[p] \in Holding
  PROVE  \A q \in Procs \ {p} : pc'[q] \notin Holding
<1>1. \A q \in Procs : q \in holders' <=> pc'[q] \in Holding
  BY DEF TypeInv, KnownOf
<1> QED BY <1>1 DEF SoleHolder

(* What a prompt device has in its report when the sleep is over.          *)
LEMMA AnswerIsMine ==
  ASSUME Prompt, NEW p \in Procs, NEW req \in Requests, Answering(p, req), AnswerDue(p)
  PROVE  reply = Answer(req)
<1>1. [by |-> p, req |-> req] # NoRequest
  BY NoRequestAssumption
<1> QED BY <1>1 DEF Answering, AnswerDue

(* Steps that change nothing a process's sections depend on.               *)
LEMMA SectionFrame ==
  ASSUME NEW p \in Procs, SectionInv(p), UNCHANGED deviceVars,
         pc'[p] = pc[p], cmd'[p] = cmd[p], got'[p] = got[p], next'[p] = next[p]
  PROVE  SectionInv(p)'
<1>1. /\ UNCHANGED <<matrix, macros, colors, profile, settling, asked, reply>>
      /\ File(p)' = File(p)
  BY DEF deviceVars, stores, File
<1>2. \A req : Answering(p, req)' <=> Answering(p, req)
  BY <1>1 DEF Answering, Answer
<1>3. MacrosSoFar(p)'
  BY <1>1 DEF SectionInv, MacrosSoFar, Holds
<1>4. LayersSoFar(p)'
  <2>1. Answering(p, GetKeyMatrix(next[p]))' <=> Answering(p, GetKeyMatrix(next[p]))
    BY <1>1 DEF Answering, Answer, GetKeyMatrix
  <2> QED BY <1>1, <2>1 DEF SectionInv, LayersSoFar, LayerLabels
<1>5. ColorsSoFar(p)'
  BY <1>1, <1>2 DEF SectionInv, ColorsSoFar
<1>6. ProfileSoFar(p)'
  BY <1>1, <1>2 DEF SectionInv, ProfileSoFar
<1> QED BY <1>3, <1>4, <1>5, <1>6 DEF SectionInv

(* At most one process has a handle: the platform sees to it, or there is  *)
(* only one.                                                               *)
LEMMA SoleHolderNext ==
  ASSUME Exclusive \/ OneProcess, TypeInv, SoleHolder, [Next]_importVars
  PROVE  SoleHolder'
<1>t. holders \in SUBSET Procs
  BY DEF TypeInv, TypeOK, SessionTypeOK
<1>1. ASSUME NEW p \in Procs, OpenSection(p) PROVE SoleHolder'
  <2>1. holders' = holders \union {p} /\ (Exclusive => holders = {})
    BY <1>1 DEF OpenSection, Open, OpenSession, CanOpen
  <2> QED BY <2>1, <1>t DEF SoleHolder, OneProcess
<1>2. ASSUME ~\E p \in Procs : OpenSection(p) PROVE holders' \subseteq holders
  BY <1>2 DEF Next, ImportStep, importVars, vars, processVars, StartImport, Begin,
       Parse, ImportFails, OpenRefused, CloseSection, Close, CloseSession,
       WriteMacroPage, ReadLayer, Ask, SendRequest, TakeLayer, Take, WriteLayer,
       ReadColors, TakeColors, ReadProfile, TakeProfile, WriteProfile,
       WakeUp, WriteColors, PanicOnRead, Panic, ImportDies, Die, KeyboardStep, UserStep
<1> QED BY <1>1, <1>2 DEF SoleHolder

LEMMA SectionNext ==
  ASSUME Exclusive \/ OneProcess, Prompt, AloneInv, [Next]_importVars
  PROVE  \A p \in Procs : SectionInv(p)'
<1>t. /\ TypeInv /\ SoleHolder /\ \A p \in Procs : SectionInv(p)
      /\ pc \in [Procs -> ImportLabels] /\ next \in [Procs -> Nat]
      /\ cmd \in [Procs -> ImportJobs \union {NoCommand}]
      /\ got \in [Procs -> KeyBuffers \union ColorBuffers \union Profiles \union {NoBuffer}]
      /\ matrix \in [Layers -> KeyBuffers] /\ macros \in [Pages -> PageImages]
      /\ profile \in Profiles
      /\ TypeInv' /\ SoleHolder'
  BY SoleHolderNext, TypeNext DEF AloneInv, TypeInv, TypeOK, DeviceTypeOK
<1> DEFINE Goal == \A q \in Procs : SectionInv(q)'
           Frame(p) == /\ \A q \in Procs \ {p} :
                            pc'[q] = pc[q] /\ cmd'[q] = cmd[q] /\ got'[q] = got[q] /\ next'[q] = next[q]
(* Outside a section: the others go on as they were.                       *)
<1>o. ASSUME NEW p \in Procs, Frame(p), UNCHANGED deviceVars, pc'[p] \notin Holding PROVE Goal
  BY <1>o, <1>t, SectionFrame, OutsideIsFree
(* Inside a section: there are no others.                                  *)
<1>i. ASSUME NEW p \in Procs, pc'[p] \in Holding, SectionInv(p)' PROVE Goal
  <2>1. \A q \in Procs \ {p} : pc'[q] \notin Holding
    BY <1>i, <1>t, OthersOutside
  <2> QED BY <1>i, <2>1, OutsideIsFree
<1> HIDE DEF Goal
<1>1. ASSUME NEW p \in Procs, StartImport(p) PROVE Goal
  BY <1>1, <1>t, <1>o DEF StartImport, Begin, Goto, Holding, LayerLabels
<1>2. ASSUME NEW p \in Procs, Parse(p) PROVE Goal
  <2>1. pc'[p] \notin Holding
    BY <1>2, <1>t DEF Parse, Fail, Goto, AfterParse, AfterMacros, AfterLayers, Holding, LayerLabels
  <2> QED BY <1>2, <1>t, <1>o, <2>1 DEF Parse, Fail, Goto
<1>3. ASSUME NEW p \in Procs, OpenSection(p) PROVE Goal
  <2>1. pc'[p] \in {"macros-write", "layer-read", "colors-read"} /\ next'[p] = 0
    BY <1>3, <1>t DEF OpenSection, Open, Goto
  <2>2. /\ \A i \in Pages : ~(i < 0)
        /\ \A i \in Layers : ~(i < 0)
    BY SizeAssumption DEF Pages, Layers
  <2>3. SectionInv(p)'
    BY <2>1, <2>2 DEF SectionInv, MacrosSoFar, LayersSoFar, ColorsSoFar, ProfileSoFar, LayerLabels
  <2> QED BY <2>1, <2>3, <1>i DEF Holding, LayerLabels
<1>5. ASSUME NEW p \in Procs, CloseSection(p) PROVE Goal
  <2>1. pc'[p] \notin Holding
    BY <1>5, <1>t DEF CloseSection, Close, Goto, AfterMacros, AfterLayers, Holding, LayerLabels
  <2> QED BY <1>5, <1>t, <1>o, <2>1 DEF CloseSection, Close, Goto
<1>6. ASSUME NEW p \in Procs, WriteMacroPage(p) PROVE Goal
  <2> DEFINE table == File(p).macros
  <2>1. /\ next[p] \in 0 .. LastPage(table) /\ LastPage(table) \in Pages
        /\ MacrosSoFar(p) /\ pc[p] = "macros-write" /\ File(p)' = File(p)
    BY <1>6, <1>t, PagesOf DEF WriteMacroPage, SectionInv, TypeInv, KnownOf, MacroLabels, Ended, File
  <2>2. /\ macros' = [macros EXCEPT ![next[p]] = Page(table, next[p])]
        /\ next'[p] = next[p] + 1
        /\ pc'[p] = IF next[p] = LastPage(table) THEN "macros-close" ELSE "macros-write"
    BY <1>6, <1>t DEF WriteMacroPage, SetMacros, Goto
  <2>3. \A i \in Pages : i < next[p] + 1 => macros'[i] = Page(table, i)
    BY <2>1, <2>2, <1>t, SizeAssumption DEF MacrosSoFar, Pages
  <2>4. next[p] = LastPage(table) => \A i \in 0 .. PageCount[table] - 1 : macros'[i] = Page(table, i)
    BY <2>1, <2>3, SizeAssumption DEF LastPage, Pages
  <2>5. MacrosSoFar(p)'
    BY <2>1, <2>2, <2>3, <2>4 DEF MacrosSoFar, Holds
  <2> QED BY <2>2, <2>5, <1>i DEF SectionInv, LayersSoFar, ColorsSoFar, ProfileSoFar, LayerLabels, Holding
<1>7. ASSUME NEW p \in Procs, ReadLayer(p) \/ ReadColors(p) \/ ReadProfile(p) PROVE Goal
  <2>1. \/ /\ pc[p] = "layer-read" /\ pc'[p] = "layer-wait"
           /\ asked' = [by |-> p, req |-> GetKeyMatrix(next'[p])]
        \/ /\ pc[p] = "colors-read" /\ pc'[p] = "colors-wait"
           /\ asked' = [by |-> p, req |-> GetLedColors]
        \/ /\ pc[p] = "profile-read" /\ pc'[p] = "profile-wait"
           /\ asked' = [by |-> p, req |-> GetProfile]
    BY <1>7, <1>t DEF ReadLayer, ReadColors, ReadProfile, Ask, SendRequest, Goto
  <2>2. next' = next /\ matrix' = matrix /\ File(p)' = File(p) /\ cmd' = cmd
    BY <1>7 DEF ReadLayer, ReadColors, ReadProfile, Ask, SendRequest, stores, File
  <2>3. SectionInv(p)'
    BY <2>1, <2>2, <1>t DEF SectionInv, MacrosSoFar, LayersSoFar, ColorsSoFar, ProfileSoFar,
         LayerLabels, Answering, File
  <2> QED BY <2>1, <2>3, <1>i DEF Holding, LayerLabels
<1>8. ASSUME NEW p \in Procs, TakeLayer(p) PROVE Goal
  <2>1. /\ pc[p] = "layer-wait" /\ next[p] \in Layers /\ LayersSoFar(p)
        /\ matrix' = matrix /\ cmd' = cmd /\ File(p)' = File(p)
    BY <1>8, <1>t DEF TakeLayer, Take, SectionInv, TypeInv, KnownOf, LayerLabels, deviceVars, stores, File
  <2>2. reply.data = matrix[next[p]]
    <3>1. reply = Answer(GetKeyMatrix(next[p])) /\ GetKeyMatrix(next[p]) \in Requests
      BY <1>8, <2>1, AnswerIsMine DEF TakeLayer, Take, LayersSoFar, Requests
    <3> QED BY <3>1 DEF Answer, GetKeyMatrix
  <2>3. CASE SkipLayer(p)
    <3>1. /\ next'[p] = next[p] + 1
          /\ pc'[p] = IF next[p] + 1 \in Layers THEN "layer-read" ELSE "layers-close"
      BY <1>8, <1>t, <2>3 DEF TakeLayer, Take, Goto, NextLayer
    <3>2. ~cmd[p].dry => \A l \in Layers : l < next[p] + 1 => matrix[l] = LayerTarget(File(p), l)
      BY <2>1, <2>2, <2>3, SizeAssumption DEF SkipLayer, LayersSoFar, LayerLabels, Layers
    <3>3. next[p] + 1 \notin Layers => \A l \in Layers : l < next[p] + 1
      BY <2>1, SizeAssumption DEF Layers
    <3>4. LayersSoFar(p)'
      BY <2>1, <3>1, <3>2, <3>3 DEF LayersSoFar, LayerLabels
    <3> QED BY <3>1, <3>4, <1>i DEF SectionInv, MacrosSoFar, ColorsSoFar, ProfileSoFar, Holding, LayerLabels
  <2>4. CASE ~SkipLayer(p)
    <3>1. next'[p] = next[p] /\ pc'[p] = "layer-write"
      BY <1>8, <1>t, <2>4 DEF TakeLayer, Take, Goto
    <3>2. LayersSoFar(p)'
      BY <2>1, <3>1 DEF LayersSoFar, LayerLabels
    <3> QED BY <3>1, <3>2, <1>i DEF SectionInv, MacrosSoFar, ColorsSoFar, ProfileSoFar, Holding, LayerLabels
  <2> QED BY <2>3, <2>4
<1>9. ASSUME NEW p \in Procs, WriteLayer(p) PROVE Goal
  <2>1. /\ pc[p] = "layer-write" /\ next[p] \in Layers /\ LayersSoFar(p) /\ ~cmd[p].dry
        /\ cmd' = cmd /\ File(p)' = File(p)
    BY <1>9, <1>t DEF WriteLayer, SectionInv, TypeInv, KnownOf, LayerLabels, WriteLabels, File
  <2>2. /\ matrix' = [matrix EXCEPT ![next[p]] = LayerTarget(File(p), next[p])]
        /\ next'[p] = next[p] + 1
        /\ pc'[p] = IF next[p] + 1 \in Layers THEN "layer-read" ELSE "layers-close"
    BY <1>9, <1>t DEF WriteLayer, SetKeyMatrix, Goto, NextLayer
  <2>3. \A l \in Layers : l < next[p] + 1 => matrix'[l] = LayerTarget(File(p), l)
    BY <2>1, <2>2, <1>t, SizeAssumption DEF LayersSoFar, LayerLabels, Layers
  <2>4. next[p] + 1 \notin Layers => \A l \in Layers : l < next[p] + 1
    BY <2>1, SizeAssumption DEF Layers
  <2>5. LayersSoFar(p)'
    BY <2>1, <2>2, <2>3, <2>4 DEF LayersSoFar, LayerLabels
  <2> QED BY <2>2, <2>5, <1>i DEF SectionInv, MacrosSoFar, ColorsSoFar, ProfileSoFar, Holding, LayerLabels
<1>10. ASSUME NEW p \in Procs, TakeColors(p) PROVE Goal
  <2>1. reply.data = colors
    <3>1. reply = Answer(GetLedColors)
      BY <1>10, <1>t, AnswerIsMine DEF TakeColors, Take, SectionInv, ColorsSoFar, Requests
    <3> QED BY <3>1 DEF Answer, GetLedColors
  <2>2. /\ pc'[p] = IF reply.data = ColorTarget(File(p)) \/ cmd[p].dry
                      THEN "colors-close" ELSE "profile-read"
        /\ colors' = colors /\ cmd' = cmd /\ File(p)' = File(p)
    BY <1>10, <1>t DEF TakeColors, Take, Goto, deviceVars, stores, File
  <2>3. ColorsSoFar(p)'
    BY <2>1, <2>2 DEF ColorsSoFar
  <2> QED BY <2>2, <2>3, <1>i DEF SectionInv, MacrosSoFar, LayersSoFar, ProfileSoFar, Holding, LayerLabels
<1>11. ASSUME NEW p \in Procs, TakeProfile(p) \/ WriteProfile(p) PROVE Goal
  <2>1. pc'[p] \in {"profile-write", "profile-sleep"}
    BY <1>11, <1>t DEF TakeProfile, Take, WriteProfile, Goto
  <2> QED BY <2>1, <1>i DEF SectionInv, MacrosSoFar, LayersSoFar, ColorsSoFar, ProfileSoFar,
                            Holding, LayerLabels
<1>12. ASSUME NEW p \in Procs, WakeUp(p) PROVE Goal
  <2>1. pc'[p] = "colors-write" /\ ~settling'
    BY <1>12, <1>t DEF WakeUp, Goto, deviceVars, stores
  <2> QED BY <2>1, <1>i DEF SectionInv, MacrosSoFar, LayersSoFar, ColorsSoFar, ProfileSoFar,
                            Holding, LayerLabels
<1>13. ASSUME NEW p \in Procs, WriteColors(p) PROVE Goal
  <2>1. /\ pc'[p] = "colors-close" /\ colors' = ColorTarget(File(p)) /\ File(p)' = File(p)
    BY <1>13, <1>t DEF WriteColors, SetLedColors, Goto, File
  <2>2. ColorsSoFar(p)'
    BY <2>1 DEF ColorsSoFar
  <2> QED BY <2>1, <2>2, <1>i DEF SectionInv, MacrosSoFar, LayersSoFar, ProfileSoFar, Holding, LayerLabels
<1>14. ASSUME NEW p \in Procs, ImportFails(p) \/ ImportDies(p) PROVE Goal
  BY <1>14, <1>t, <1>o DEF ImportFails, OpenRefused, PanicOnRead, Panic, ImportDies, Die, Fail, Goto,
                           Holding, LayerLabels
<1>15. ASSUME KeyboardStep PROVE Goal
  <2>1. /\ UNCHANGED <<matrix, macros, colors, profile, pc, cmd, got, next>>
        /\ settling' => settling
    BY <1>15 DEF KeyboardStep, DeviceAnswers, DeviceSettles, processVars, stores
  <2>2. ASSUME NEW p \in Procs, NEW req \in Requests, Answering(p, req) PROVE Answering(p, req)'
    <3>1. Answer(req)' = Answer(req)
      BY <2>1 DEF Answer
    <3>2. CASE DeviceAnswers
      BY <2>2, <3>1, <3>2 DEF DeviceAnswers, Answering
    <3>3. CASE DeviceSettles
      BY <2>2, <3>1, <3>3 DEF DeviceSettles, Answering
    <3> QED BY <1>15, <3>2, <3>3 DEF KeyboardStep
  <2>3. ASSUME NEW p \in Procs PROVE SectionInv(p)'
    <3>1. SectionInv(p) /\ File(p)' = File(p)
      BY <1>t, <2>1 DEF File
    <3>2. pc[p] = "layer-wait" => GetKeyMatrix(next[p]) \in Requests
      BY <1>t DEF TypeInv, KnownOf, LayerLabels, Requests
    <3>3. GetLedColors \in Requests /\ GetProfile \in Requests
      BY DEF Requests
    <3>4. LayersSoFar(p)'
      BY <2>1, <2>2, <3>1, <3>2 DEF SectionInv, LayersSoFar, LayerLabels
    <3>5. ColorsSoFar(p)' /\ MacrosSoFar(p)'
      BY <2>1, <2>2, <3>1, <3>3 DEF SectionInv, ColorsSoFar, MacrosSoFar, Holds
    <3>6. ProfileSoFar(p)'
      BY <2>1, <2>2, <3>1, <3>3 DEF SectionInv, ProfileSoFar
    <3> QED BY <3>4, <3>5, <3>6 DEF SectionInv
  <2> QED BY <2>3 DEF Goal
<1>16. ASSUME UserStep PROVE Goal
  <2>1. UNCHANGED <<matrix, macros, colors, settling, asked, reply, pc, cmd, got, next>>
    BY <1>16 DEF UserStep, UserSetsProfile, processVars
  <2>2. ASSUME NEW p \in Procs PROVE SectionInv(p)'
    <3>1. SectionInv(p) /\ File(p)' = File(p)
      BY <1>t, <2>1 DEF File
    <3>2. /\ Answer(GetKeyMatrix(next[p]))' = Answer(GetKeyMatrix(next[p]))
          /\ Answer(GetLedColors)' = Answer(GetLedColors)
      BY <2>1 DEF Answer, GetKeyMatrix, GetLedColors
    <3> QED BY <2>1, <3>1, <3>2 DEF SectionInv, MacrosSoFar, LayersSoFar, ColorsSoFar,
                                    ProfileSoFar, LayerLabels, Answering, Holds
  <2> QED BY <2>2 DEF Goal
<1>17. ASSUME UNCHANGED importVars PROVE Goal
  BY <1>17, <1>t, SectionFrame DEF importVars, vars, processVars, Goal
<1>18. Goal
  <2>1. ASSUME NEW p \in Procs, ImportStep(p) PROVE Goal
    BY <2>1, <1>2, <1>3, <1>5, <1>6, <1>7, <1>8, <1>9, <1>10, <1>11, <1>12, <1>13,
       <1>14 DEF ImportStep
  <2>2. ASSUME Next PROVE Goal
    <3>1. ASSUME NEW p \in Procs, StartImport(p) \/ ImportStep(p) \/ ImportDies(p) PROVE Goal
      BY <3>1, <1>1, <1>14, <2>1
    <3> QED BY <2>2, <3>1, <1>15, <1>16 DEF Next
  <2> QED BY <1>17, <2>2
<1> QED BY <1>18 DEF Goal

LEMMA AloneNext ==
  ASSUME Exclusive \/ OneProcess, Prompt
  PROVE  AloneInv /\ [Next]_importVars => AloneInv'
<1> SUFFICES ASSUME AloneInv, [Next]_importVars PROVE AloneInv'
  OBVIOUS
<1>1. TypeInv' /\ SoleHolder'
  BY TypeNext, SoleHolderNext DEF AloneInv
<1>2. \A p \in Procs : SectionInv(p)'
  BY SectionNext
<1> QED BY <1>1, <1>2 DEF AloneInv

(* With exclusive opens and a prompt device, whatever other imports do in  *)
(* between and whatever died before: when a section ends, its part of the  *)
(* keyboard is what the file says.                                         *)
THEOREM SectionEstablishesHolds == ASSUME Exclusive, Prompt PROVE Spec => SectionEstablishes
<1> DEFINE Sections ==
      \A p \in Procs :
        /\ Passes(p, "macros-close") => MacrosMatch(File(p))
        /\ Passes(p, "layers-close") /\ ~cmd[p].dry => LayersMatch(File(p))
        /\ Passes(p, "colors-close") /\ ~cmd[p].dry => ColorsMatch(File(p))
<1>1. AloneInv /\ [Next]_importVars => AloneInv'
  BY AloneNext
<1>2. AloneInv => [Sections]_importVars
  BY DEF AloneInv, SectionInv, MacrosSoFar, LayersSoFar, ColorsSoFar, Passes, MacrosMatch,
         LayersMatch, ColorsMatch
<1> QED BY AloneInit, <1>1, <1>2, PTL DEF Spec, SectionEstablishes

(* Lighting sessions beside a user who may pick an effect at any moment.   *)

(* Before the profile is written, the keyboard has one that it had when    *)
(* the session was opened or that the user has picked since; what is read  *)
(* and written back is one of these; and it is in SelfDefine mode then,    *)
(* until the user picks another.                                           *)
ToWrite == {"colors-read", "colors-wait", "profile-read", "profile-wait", "profile-write"}
SessionSoFar(p) ==
  /\ session[p] \in [found : SUBSET Profiles, picked : SUBSET Profiles]
  /\ pc[p] \in ToWrite => profile \in Seen(p)
  /\ pc[p] = "profile-wait" =>
       \/ asked = [by |-> p, req |-> GetProfile]
       \/ asked = NoRequest /\ reply.data \in Seen(p)
  /\ pc[p] = "profile-write" => got[p] \in Seen(p)
  /\ pc[p] \in {"profile-sleep", "colors-write"} =>
       profile.mode = SelfDefine \/ profile \in session[p].picked
HistoryInv ==
  /\ AloneInv
  /\ DOMAIN session = Procs
  /\ \A p \in Procs : SessionSoFar(p)

LEMMA HistoryImports == [HistoryNext]_historyVars => [Next]_importVars
BY DEF HistoryNext, ProcessStep, UserPicks, Next, historyVars

LEMMA HistoryInvInit == HistoryInit => HistoryInv
BY AloneInit DEF HistoryInit, HistoryInv, ImportInit, SessionSoFar, NoSession, ToWrite

(* Nothing is recorded of a process outside its lighting section.          *)
LEMMA UnlitIsFree ==
  ASSUME Recorded, NEW p \in Procs, pc'[p] \notin Lighting
  PROVE  SessionSoFar(p)'
<1>1. session'[p] = NoSession
  BY DEF Recorded
<1> QED BY <1>1 DEF SessionSoFar, NoSession, Lighting, ToWrite

(* While a process lights the keyboard, another one cannot touch it.       *)
LEMMA OthersKeepSession ==
  ASSUME AloneInv, NEW p \in Procs, NEW q \in Procs, p # q, SessionSoFar(p), pc[p] \in Lighting,
         StartImport(q) \/ ImportStep(q) \/ ImportDies(q), Recorded
  PROVE  SessionSoFar(p)'
<1>1. pc \in [Procs -> ImportLabels] /\ DOMAIN got = Procs
  BY DEF AloneInv, TypeInv, TypeOK
<1>2. pc[q] \notin Holding
  BY DEF AloneInv, TypeInv, KnownOf, SoleHolder, Holding, Lighting
<1>3. /\ UNCHANGED deviceVars
      /\ pc'[p] = pc[p] /\ got'[p] = got[p]
  BY <1>1, <1>2 DEF Holding, LayerLabels, StartImport, Begin, ImportStep, Parse, Goto, Fail,
     OpenSection, Open, ImportFails, OpenRefused, CloseSection, Close, WriteMacroPage,
     ReadLayer, Ask, TakeLayer, Take, WriteLayer, ReadColors, TakeColors, ReadProfile, TakeProfile,
     WriteProfile, WakeUp, WriteColors, PanicOnRead, Panic, ImportDies, Die
<1>4. session'[p] = session[p]
  BY <1>3 DEF Recorded
<1> QED BY <1>3, <1>4 DEF SessionSoFar, Seen, deviceVars, stores

(* The steps of the session itself.                                        *)
LEMMA OwnStepsRecorded ==
  ASSUME Prompt, AloneInv, NEW p \in Procs, SessionSoFar(p), pc'[p] \in Lighting,
         StartImport(p) \/ ImportStep(p) \/ ImportDies(p), Recorded
  PROVE  SessionSoFar(p)'
<1>t. /\ pc \in [Procs -> ImportLabels] /\ DOMAIN got = Procs /\ profile \in Profiles
      /\ pc[p] = "profile-write" => got[p] \in Profiles
  BY DEF AloneInv, TypeInv, TypeOK, DeviceTypeOK, KnownOf
<1> USE DEF Lighting, ToWrite
<1>1. pc[p] \in Lighting => session'[p] = session[p] /\ Seen(p)' = Seen(p)
  BY DEF Recorded, Seen
<1>2. CASE OpenSection(p)
  <2>1. pc'[p] = "colors-read" /\ pc[p] = "colors-open" /\ profile' = profile
    BY <1>2, <1>t DEF OpenSection, Open, Goto, deviceVars, stores
  <2>2. session'[p] = [found |-> {profile}, picked |-> {}]
    BY <2>1 DEF Recorded
  <2> QED BY <1>t, <2>1, <2>2 DEF SessionSoFar, Seen
<1>3. CASE ReadColors(p) \/ TakeColors(p)
  <2>1. /\ pc[p] \in {"colors-read", "colors-wait"} /\ profile' = profile
        /\ pc'[p] \in {"colors-wait", "profile-read", "colors-close"}
    BY <1>3, <1>t DEF ReadColors, Ask, SendRequest, TakeColors, Take, Goto, deviceVars, stores
  <2> QED BY <1>1, <2>1 DEF SessionSoFar
<1>4. CASE ReadProfile(p)
  <2>1. /\ pc[p] = "profile-read" /\ pc'[p] = "profile-wait" /\ profile' = profile
        /\ asked' = [by |-> p, req |-> GetProfile]
    BY <1>4, <1>t DEF ReadProfile, Ask, SendRequest, Goto, stores
  <2> QED BY <1>1, <2>1 DEF SessionSoFar, GetProfile
<1>5. CASE TakeProfile(p)
  <2>1. /\ pc[p] = "profile-wait" /\ pc'[p] = "profile-write" /\ profile' = profile
        /\ got'[p] = reply.data /\ AnswerDue(p)
    BY <1>5, <1>t DEF TakeProfile, Take, Goto, deviceVars, stores
  <2>2. [by |-> p, req |-> GetProfile] # NoRequest
    BY NoRequestAssumption DEF Requests
  <2>3. reply.data \in Seen(p)
    BY <2>1, <2>2 DEF SessionSoFar, AnswerDue
  <2> QED BY <1>1, <2>1, <2>3 DEF SessionSoFar
<1>6. CASE WriteProfile(p)
  <2>1. /\ pc[p] = "profile-write" /\ pc'[p] = "profile-sleep"
        /\ profile' = [got[p] EXCEPT !.mode = SelfDefine]
    BY <1>6, <1>t DEF WriteProfile, SetProfile, Goto
  <2>2. profile'.mode = SelfDefine
    BY <1>t, <2>1 DEF Profiles
  <2> QED BY <1>1, <2>1, <2>2 DEF SessionSoFar
<1>7. CASE WakeUp(p) \/ WriteColors(p)
  <2>1. /\ pc[p] \in {"profile-sleep", "colors-write"} /\ profile' = profile
        /\ pc'[p] \in {"colors-write", "colors-close"}
    BY <1>7, <1>t DEF WakeUp, WriteColors, SetLedColors, Goto, deviceVars, stores
  <2> QED BY <1>1, <2>1 DEF SessionSoFar
<1>8. ~(StartImport(p) \/ Parse(p) \/ CloseSection(p) \/ WriteMacroPage(p)
         \/ ReadLayer(p) \/ TakeLayer(p) \/ WriteLayer(p) \/ ImportFails(p) \/ ImportDies(p))
  BY <1>t DEF StartImport, Begin, Parse, AfterParse, AfterMacros, AfterLayers, ImportFails,
     OpenRefused, CloseSection, Close, WriteMacroPage, ReadLayer, Ask, TakeLayer, Take, WriteLayer,
     NextLayer, PanicOnRead, Panic, ImportDies, Die, Fail, Goto
<1> QED BY <1>2, <1>3, <1>4, <1>5, <1>6, <1>7, <1>8 DEF ImportStep

LEMMA HistoryInvNext ==
  ASSUME Exclusive, Prompt, HistoryInv, [HistoryNext]_historyVars
  PROVE  HistoryInv'
<1>1. AloneInv'
  BY HistoryImports, AloneNext DEF HistoryInv
<1>2. DOMAIN session' = Procs
  BY DEF HistoryInv, HistoryNext, ProcessStep, Recorded, UserPicks, historyVars
<1> SUFFICES ASSUME NEW p \in Procs PROVE SessionSoFar(p)'
  BY <1>1, <1>2 DEF HistoryInv
<1>t. /\ AloneInv /\ SessionSoFar(p) /\ profile \in Profiles /\ profile' \in Profiles
  BY <1>1 DEF HistoryInv, AloneInv, TypeInv, TypeOK, DeviceTypeOK
<1>3. CASE ProcessStep
  <2>1. PICK q \in Procs : StartImport(q) \/ ImportStep(q) \/ ImportDies(q)
    BY <1>3 DEF ProcessStep
  <2>2. Recorded
    BY <1>3 DEF ProcessStep
  <2>3. CASE pc'[p] \notin Lighting
    BY <2>2, <2>3, UnlitIsFree
  <2>4. CASE pc'[p] \in Lighting /\ q = p
    BY <1>t, <2>1, <2>2, <2>4, OwnStepsRecorded
  <2>5. CASE pc'[p] \in Lighting /\ q # p
    <3>1. pc'[p] = pc[p]
      BY <1>t, <2>1, <2>5 DEF AloneInv, TypeInv, TypeOK, StartImport, Begin, ImportStep, Parse, Goto,
         Fail, OpenSection, Open, ImportFails, OpenRefused, CloseSection, Close, WriteMacroPage,
         ReadLayer, Ask, TakeLayer, Take, WriteLayer, ReadColors, TakeColors, ReadProfile,
         TakeProfile, WriteProfile, WakeUp, WriteColors, PanicOnRead, Panic, ImportDies, Die
    <3> QED BY <1>t, <2>1, <2>2, <2>5, <3>1, OthersKeepSession
  <2> QED BY <2>3, <2>4, <2>5
<1>4. CASE KeyboardStep /\ UNCHANGED session
  <2>1. /\ UNCHANGED <<profile, pc, got, session>>
        /\ UNCHANGED <<asked, reply>> \/ DeviceAnswers
    BY <1>4 DEF KeyboardStep, DeviceAnswers, DeviceSettles, processVars, stores
  <2>2. Seen(p)' = Seen(p)
    BY <2>1 DEF Seen
  <2>3. CASE DeviceAnswers /\ pc[p] = "profile-wait" /\ asked = [by |-> p, req |-> GetProfile]
    <3>1. asked' = NoRequest /\ reply'.data = profile
      BY <2>3 DEF DeviceAnswers, Answer, GetProfile
    <3> QED BY <1>t, <2>1, <2>2, <3>1 DEF SessionSoFar, ToWrite
  <2>4. CASE ~(DeviceAnswers /\ pc[p] = "profile-wait" /\ asked = [by |-> p, req |-> GetProfile])
    <3>1. pc[p] = "profile-wait" => UNCHANGED <<asked, reply>>
      BY <1>t, <2>1, <2>4 DEF SessionSoFar, DeviceAnswers
    <3> QED BY <1>t, <2>1, <2>2, <3>1 DEF SessionSoFar, GetProfile
  <2> QED BY <2>3, <2>4
<1>5. CASE UserPicks
  <2>1. UNCHANGED <<pc, got, asked, reply>>
    BY <1>5 DEF UserPicks, UserStep, UserSetsProfile, processVars
  <2>2. CASE pc[p] \notin Lighting
    <3>1. session'[p] = session[p]
      BY <1>5, <2>2 DEF UserPicks
    <3> QED BY <1>t, <2>1, <2>2, <3>1 DEF SessionSoFar, Lighting, ToWrite
  <2>3. CASE pc[p] \in Lighting
    <3>1. session'[p] = [session[p] EXCEPT !.picked = @ \union {profile'}]
      BY <1>5, <2>3 DEF UserPicks
    <3>2. /\ session'[p] \in [found : SUBSET Profiles, picked : SUBSET Profiles]
          /\ profile' \in session'[p].picked
          /\ session'[p].found = session[p].found /\ session[p].picked \subseteq session'[p].picked
      BY <1>t, <3>1 DEF SessionSoFar
    <3>3. profile' \in Seen(p)' /\ Seen(p) \subseteq Seen(p)'
      BY <3>2 DEF Seen
    <3> QED BY <1>t, <2>1, <3>2, <3>3 DEF SessionSoFar, GetProfile
  <2> QED BY <2>2, <2>3
<1>6. CASE UNCHANGED historyVars
  BY <1>t, <1>6 DEF historyVars, importVars, vars, deviceVars, stores, processVars, SessionSoFar, Seen
<1> QED BY <1>3, <1>4, <1>5, <1>6 DEF HistoryNext

(* With exclusive opens and a prompt device, colours change only while the *)
(* keyboard shows them, or something that the user has picked just then.   *)
THEOREM SelfDefineBeforeColorsHolds ==
  ASSUME Exclusive, Prompt PROVE HistorySpec => SelfDefineBeforeColors
<1> DEFINE Shown == \A p \in Procs : Passes(p, "colors-write") =>
                      ~settling /\ (profile.mode = SelfDefine \/ profile \in session[p].picked)
<1>1. HistoryInv /\ [HistoryNext]_historyVars => HistoryInv'
  BY HistoryInvNext
<1>2. HistoryInv => [Shown]_historyVars
  BY DEF HistoryInv, SessionSoFar, AloneInv, SectionInv, ProfileSoFar, Passes
<1> QED BY HistoryInvInit, <1>1, <1>2, PTL DEF HistorySpec, SelfDefineBeforeColors

(* Under the same assumptions, and whatever the user does meanwhile,       *)
(* entering SelfDefine writes other bytes than the keyboard has only where *)
(* the user has changed them since the session was opened, and never bytes *)
(* that it did not have.                                                   *)
THEOREM ProfileRestKeptHolds ==
  ASSUME Exclusive, Prompt PROVE HistorySpec => ProfileRestKept
<1> DEFINE Kept == \A p \in Procs : Passes(p, "profile-write") =>
                     profile'.rest \in {seen.rest : seen \in Seen(p)}
<1>1. HistoryInv /\ [HistoryNext]_historyVars => HistoryInv'
  BY HistoryInvNext
<1>2. ASSUME HistoryInv, [HistoryNext]_historyVars, NEW p \in Procs, Passes(p, "profile-write")
      PROVE  WriteProfile(p)
  <2>1. pc[p] = "profile-write" /\ pc'[p] # pc[p] /\ pc'[p] # "failed" /\ pc \in [Procs -> ImportLabels]
    BY <1>2 DEF Passes, HistoryInv, AloneInv, TypeInv, TypeOK
  <2>2. PICK q \in Procs : StartImport(q) \/ ImportStep(q) \/ ImportDies(q)
    BY <1>2, <2>1 DEF HistoryNext, ProcessStep, UserPicks, UserStep, KeyboardStep, processVars,
                      historyVars, importVars, vars
  <2> QED BY <2>1, <2>2 DEF StartImport, Begin, Running, Ended, ImportStep, Parse, Goto,
         Fail, OpenSection, Open, ImportFails, OpenRefused, CloseSection, Close, WriteMacroPage,
         ReadLayer, Ask, TakeLayer, Take, WriteLayer, ReadColors, TakeColors, ReadProfile,
         TakeProfile, WriteProfile, WakeUp, WriteColors, PanicOnRead, Panic, ImportDies, Die
<1>3. HistoryInv /\ [HistoryNext]_historyVars => [Kept]_historyVars
  <2> SUFFICES ASSUME HistoryInv, [HistoryNext]_historyVars, NEW p \in Procs,
                      Passes(p, "profile-write")
               PROVE  profile'.rest \in {seen.rest : seen \in Seen(p)}
    OBVIOUS
  <2>1. /\ profile' = [got[p] EXCEPT !.mode = SelfDefine]
        /\ got[p] \in Seen(p) /\ got[p] \in Profiles
    BY <1>2 DEF WriteProfile, SetProfile, HistoryInv, SessionSoFar, AloneInv, TypeInv, KnownOf
  <2>2. profile'.rest = got[p].rest
    BY <2>1 DEF Profiles
  <2> QED BY <2>1, <2>2
<1> QED BY HistoryInvInit, <1>1, <1>3, PTL DEF HistorySpec, ProfileRestKept

-----------------------------------------------------------------------------
(* A whole import, by the only process.                                    *)

ColorLabels == {"colors-open", "colors-read", "colors-wait", "profile-read", "profile-wait",
                "profile-write", "profile-sleep", "colors-write", "colors-close"}
PastMacros == ColorLabels \union LayerLabels \union {"layers-open", "layers-close", "done"}
PastLayers == ColorLabels \union {"done"}

(* A part stays established while the later sections run.                  *)
EstablishedBy(p) ==
  ~cmd[p].dry =>
    /\ pc[p] \in PastMacros => MacrosMatch(File(p))
    /\ pc[p] \in PastLayers => LayersMatch(File(p))
    /\ pc[p] = "done" => ColorsMatch(File(p))
Established == \A p \in Procs : EstablishedBy(p)

LEMMA EstablishedNext ==
  ASSUME OneProcess, AloneInv, Established, [Next]_importVars
  PROVE  Established'
<1> SUFFICES ASSUME NEW p \in Procs, ~cmd'[p].dry PROVE EstablishedBy(p)'
  BY DEF Established, EstablishedBy
<1>t. /\ \A q \in Procs : q = p
      /\ EstablishedBy(p) /\ SectionInv(p) /\ KnownOf(p)
      /\ pc \in [Procs -> ImportLabels]
  BY DEF AloneInv, Established, OneProcess, TypeInv, TypeOK
<1> USE DEF ColorLabels, LayerLabels, PastMacros, PastLayers
<1>f. ASSUME UNCHANGED <<matrix, macros, colors>>, cmd'[p] = cmd[p],
             pc'[p] \in PastMacros => MacrosMatch(File(p)),
             pc'[p] \in PastLayers => LayersMatch(File(p)),
             pc'[p] = "done" => ColorsMatch(File(p))
      PROVE  EstablishedBy(p)'
  BY <1>f DEF EstablishedBy, MacrosMatch, LayersMatch, ColorsMatch, Holds, File
(* A process that is not past its macros has established nothing.          *)
<1>n. ASSUME pc'[p] \notin PastMacros PROVE EstablishedBy(p)'
  BY <1>n DEF EstablishedBy
<1>1. ASSUME StartImport(p) \/ ImportFails(p) \/ ImportDies(p) \/ WriteMacroPage(p)
      PROVE  EstablishedBy(p)'
  <2>1. pc'[p] \notin PastMacros
    BY <1>1, <1>t DEF StartImport, Begin, ImportFails, OpenRefused, PanicOnRead, Panic, ImportDies,
       Die, Fail, Goto, WriteMacroPage
  <2> QED BY <2>1, <1>n
<1>2. ASSUME Parse(p) PROVE EstablishedBy(p)'
  <2>1. CASE ~Valid(File(p))
    BY <1>2, <1>t, <1>n, <2>1 DEF Parse, Fail, Goto
  <2>2. CASE Valid(File(p))
    <3>1. /\ UNCHANGED <<matrix, macros, colors>> /\ cmd' = cmd
          /\ pc'[p] = AfterParse(cmd[p])
      BY <1>2, <1>t, <2>2 DEF Parse, Goto, deviceVars, stores
    <3> QED BY <3>1, <1>f, <1>n DEF AfterParse, AfterMacros, AfterLayers, File,
                                    MacrosMatch, LayersMatch, ColorsMatch
  <2> QED BY <2>1, <2>2
<1>3. ASSUME OpenSection(p) PROVE EstablishedBy(p)'
  <2>1. /\ UNCHANGED <<matrix, macros, colors>> /\ cmd' = cmd
        /\ \/ pc[p] = "macros-open" /\ pc'[p] = "macros-write"
           \/ pc[p] = "layers-open" /\ pc'[p] = "layer-read"
           \/ pc[p] = "colors-open" /\ pc'[p] = "colors-read"
    BY <1>3, <1>t DEF OpenSection, Open, Goto, deviceVars, stores
  <2> QED BY <2>1, <1>t, <1>f, <1>n DEF EstablishedBy
<1>4. ASSUME CloseSection(p) PROVE EstablishedBy(p)'
  <2>1. /\ UNCHANGED <<matrix, macros, colors>> /\ cmd' = cmd
        /\ \/ pc[p] = "macros-close" /\ pc'[p] = AfterMacros(File(p))
           \/ pc[p] = "layers-close" /\ pc'[p] = AfterLayers(File(p))
           \/ pc[p] = "colors-close" /\ pc'[p] = "done"
    BY <1>4, <1>t DEF CloseSection, Close, Goto, deviceVars, stores
  <2>2. CASE pc[p] = "macros-close"
    <3>1. MacrosMatch(File(p))
      BY <1>t, <2>2 DEF SectionInv, MacrosSoFar, MacrosMatch
    <3> QED BY <2>1, <2>2, <3>1, <1>f DEF AfterMacros, AfterLayers, LayersMatch, ColorsMatch
  <2>3. CASE pc[p] = "layers-close"
    <3>1. MacrosMatch(File(p)) /\ LayersMatch(File(p))
      BY <1>t, <2>1, <2>3 DEF EstablishedBy, SectionInv, LayersSoFar, LayersMatch
    <3> QED BY <2>1, <2>3, <3>1, <1>f DEF AfterLayers, ColorsMatch
  <2>4. CASE pc[p] = "colors-close"
    <3>1. MacrosMatch(File(p)) /\ LayersMatch(File(p)) /\ ColorsMatch(File(p))
      BY <1>t, <2>1, <2>4 DEF EstablishedBy, SectionInv, ColorsSoFar, ColorsMatch
    <3> QED BY <2>1, <3>1, <1>f
  <2> QED BY <2>1, <2>2, <2>3, <2>4
(* Within the layer section and within the lighting section.               *)
<1>5. ASSUME ReadLayer(p) \/ TakeLayer(p) \/ WriteLayer(p) PROVE EstablishedBy(p)'
  <2>1. /\ UNCHANGED macros /\ cmd' = cmd
        /\ pc[p] \in LayerLabels /\ pc'[p] \in LayerLabels \union {"layers-close"}
    BY <1>5, <1>t DEF ReadLayer, Ask, SendRequest, TakeLayer, Take, WriteLayer, SetKeyMatrix, Goto,
       NextLayer, deviceVars, stores
  <2>2. MacrosMatch(File(p))'
    BY <1>t, <2>1 DEF EstablishedBy, MacrosMatch, Holds, File
  <2> QED BY <2>1, <2>2 DEF EstablishedBy
<1>6. ASSUME \/ ReadColors(p) \/ TakeColors(p) \/ ReadProfile(p) \/ TakeProfile(p)
             \/ WriteProfile(p) \/ WakeUp(p) \/ WriteColors(p)
      PROVE  EstablishedBy(p)'
  <2>1. /\ UNCHANGED <<matrix, macros>> /\ cmd' = cmd
        /\ pc[p] \in ColorLabels /\ pc'[p] \in ColorLabels
    BY <1>6, <1>t DEF ReadColors, Ask, SendRequest, TakeColors, Take, ReadProfile, TakeProfile,
       WriteProfile, SetProfile, WakeUp, WriteColors, SetLedColors, Goto, deviceVars, stores
  <2>2. MacrosMatch(File(p))' /\ LayersMatch(File(p))'
    BY <1>t, <2>1 DEF EstablishedBy, MacrosMatch, LayersMatch, Holds, File
  <2> QED BY <2>1, <2>2 DEF EstablishedBy
<1>7. ASSUME KeyboardStep \/ UserStep \/ UNCHANGED importVars PROVE EstablishedBy(p)'
  <2>1. UNCHANGED <<matrix, macros, colors, pc, cmd>>
    BY <1>7 DEF KeyboardStep, DeviceAnswers, DeviceSettles, UserStep, UserSetsProfile,
       importVars, vars, deviceVars, stores, processVars
  <2> QED BY <2>1, <1>t, <1>f DEF EstablishedBy
<1>8. ASSUME ImportStep(p) PROVE EstablishedBy(p)'
  BY <1>8, <1>1, <1>2, <1>3, <1>4, <1>5, <1>6 DEF ImportStep
<1>9. ASSUME Next PROVE EstablishedBy(p)'
  <2>1. ASSUME NEW q \in Procs, StartImport(q) \/ ImportStep(q) \/ ImportDies(q)
        PROVE  EstablishedBy(p)'
    <3>1. q = p
      BY <1>t
    <3> QED BY <2>1, <3>1, <1>1, <1>8
  <2> QED BY <1>9, <2>1, <1>7 DEF Next
<1> QED BY <1>7, <1>9

LEMMA EstablishedInit == ImportInit => Established
BY DEF ImportInit, Established, EstablishedBy, PastMacros, PastLayers, ColorLabels, LayerLabels

(* An import by the only process that ends well leaves the keyboard as the *)
(* file says in every part the file mentions, whatever was there before.   *)
THEOREM ImportEstablishesHolds ==
  ASSUME OneProcess, Prompt PROVE Spec => []ImportEstablishes
<1>1. AloneInv /\ [Next]_importVars => AloneInv'
  BY AloneNext
<1>2. AloneInv /\ Established /\ [Next]_importVars => Established'
  BY EstablishedNext
<1>3. Established => ImportEstablishes
  BY DEF Established, EstablishedBy, PastMacros, PastLayers, ImportEstablishes
<1> QED BY AloneInit, EstablishedInit, <1>1, <1>2, <1>3, PTL DEF Spec

(* The only process writes layers under the macro table their indices      *)
(* belong to.                                                              *)
THEOREM MacrosBeforeLayersHolds ==
  ASSUME OneProcess, Prompt PROVE Spec => MacrosBeforeLayers
<1> DEFINE Before == \A p \in Procs : Passes(p, "layer-write") => MacrosMatch(File(p))
<1>1. AloneInv /\ [Next]_importVars => AloneInv'
  BY AloneNext
<1>2. AloneInv /\ Established /\ [Next]_importVars => Established'
  BY EstablishedNext
<1>3. AloneInv /\ Established => [Before]_importVars
  BY DEF AloneInv, TypeInv, KnownOf, WriteLabels, Established, EstablishedBy, PastMacros,
         LayerLabels, Passes
<1> QED BY AloneInit, EstablishedInit, <1>1, <1>2, <1>3, PTL DEF Spec, MacrosBeforeLayers
=============================================================================
