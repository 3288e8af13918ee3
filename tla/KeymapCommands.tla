--------------------------- MODULE KeymapCommands ---------------------------
(***************************************************************************)
(* get-keymap and set-keymap, run by any number of processes against one   *)
(* keyboard.  set-keymap reads a whole layer, replaces one slot in its     *)
(* copy and writes the whole layer back: nothing but the platform's own    *)
(* exclusion protects the layer in between.                                *)
(***************************************************************************)
EXTENDS Process

(* What is left of the command line once slot_for_name, layer_from_arg and *)
(* encode_from_flags have accepted it.                                     *)
GetJobs == [op : {"get-keymap"}, layer : Layers, slot : Slots]
SetJobs == [op : {"set-keymap"}, layer : Layers, slot : Slots,
            value : Values, dry : BOOLEAN]
KeymapJobs == GetJobs \union SetJobs

CONSTANT Jobs     \* the commands the users give
ASSUME JobsAssumption == Jobs \subseteq KeymapJobs

(* Mutant: --dry-run is ignored.                                           *)
AlwaysWrites(job) == job.op = "set-keymap"

Writes(job) == job.op = "set-keymap" /\ ~job.dry

KeymapInit ==
  /\ macros \in [Pages -> PageImages]
  /\ matrix \in [Layers -> KeyBuffers]
  /\ colors \in ColorBuffers
  /\ profile \in Profiles
  /\ settling = FALSE
  /\ asked = NoRequest
  /\ reply = NoReply
  /\ holders = {}
  /\ pc = [p \in Procs |-> "idle"]
  /\ cmd = [p \in Procs |-> NoCommand]
  /\ got = [p \in Procs |-> NoBuffer]

StartKeymap(p) == \E job \in Jobs : Begin(p, job, "start")

(* Mutants: byte1 packed without the layer; the report awaited until it    *)
(* echoes the layer asked for.                                             *)
AskNormalLayer(p) == Ask(p, "opened", GetKeyMatrix(0), "reading")
TakeEchoedLayer(p) ==
  /\ pc[p] = "reading" /\ reply # NoReply /\ reply.at = cmd[p].layer
  /\ Take(p, "reading", "GetKeyMatrix", IF Writes(cmd[p]) THEN "patched" ELSE "closing")

(* KeyMatrixRepository::read_layer, its two halves. *)
AskLayer(p) == Ask(p, "opened", GetKeyMatrix(cmd[p].layer), "reading")
TakeLayer(p) ==
  Take(p, "reading", "GetKeyMatrix", IF Writes(cmd[p]) THEN "patched" ELSE "closing")

(* Mutants: the slot sent alone; the copy sent before it is patched; the   *)
(* layer always written back to layer 0.                                   *)
SlotAlone(p) == [s \in {cmd[p].slot} |-> cmd[p].value]
Unpatched(p) == got[p]
WriteNormalLayer(p) ==
  /\ pc[p] = "patched"
  /\ SetKeyMatrix(0, [got[p] EXCEPT ![cmd[p].slot] = cmd[p].value])
  /\ Goto(p, "closing")
  /\ UNCHANGED <<holders, cmd, got>>

(* The copy with one slot replaced, written back as the whole layer. *)
Patched(p) == [got[p] EXCEPT ![cmd[p].slot] = cmd[p].value]

WriteLayer(p) ==
  /\ pc[p] = "patched"
  /\ SetKeyMatrix(cmd[p].layer, Patched(p))
  /\ Goto(p, "closing")
  /\ UNCHANGED <<holders, cmd, got>>

KeymapStep(p) ==
  \/ Open(p, "start", "opened")
  \/ OpenRefused(p, "start")
  \/ AskLayer(p)
  \/ TakeLayer(p)
  \/ Panic(p, "reading", "GetKeyMatrix")
  \/ WriteLayer(p)
  \/ Close(p, "closing", "done")

DeviceStep == DeviceAnswers /\ UNCHANGED <<holders, processVars>>

Next ==
  \/ \E p \in Procs : StartKeymap(p) \/ KeymapStep(p) \/ Die(p)
  \/ DeviceStep

Spec == KeymapInit /\ [][Next]_vars

(* A process keeps running until it ends and the device keeps answering.   *)
(* Nobody is obliged to start a command, and nothing is obliged to die.    *)
Fairness ==
  /\ \A p \in Procs : WF_vars(KeymapStep(p))
  /\ WF_vars(DeviceStep)

FairSpec == Spec /\ Fairness

-----------------------------------------------------------------------------
(* Properties *)

KeymapLabels == Ended \union {"start", "opened", "reading", "patched", "closing"}

(* Every variable has its type: what is written back is always a whole     *)
(* layer.                                                                  *)
TypeOK ==
  /\ DeviceTypeOK
  /\ SessionTypeOK
  /\ pc \in [Procs -> KeymapLabels]
  /\ cmd \in [Procs -> Jobs \union {NoCommand}]
  /\ got \in [Procs -> KeyBuffers \union {NoBuffer}]

(* The buffer set-keymap is about to write back is the device's current    *)
(* content of the layer it names: nothing changed it since it was read,    *)
(* and it is not another layer's.                                          *)
FreshBuffer ==
  \A p \in Procs : pc[p] = "patched" => got[p] = matrix[cmd[p].layer]

(* A step changes the key matrix only at the one key of a running          *)
(* set-keymap that is not a dry run, and puts there the value it was given.*)
KeyChangedBy(p) ==
  LET job == cmd[p] IN
  /\ pc[p] = "patched" /\ job.op = "set-keymap" /\ ~job.dry
  /\ matrix' = [matrix EXCEPT ![job.layer] = [@ EXCEPT ![job.slot] = job.value]]

OneKeyChanged == [][matrix' # matrix => \E p \in Procs : KeyChangedBy(p)]_vars

(* The report a command accepts answers the request it sent: the layer it  *)
(* asked for, not one that another process asked for or an older answer.   *)
ResponseAnswersRequest ==
  [][\A p \in Procs :
       pc[p] = "reading" /\ pc'[p] \in {"patched", "closing"}
         => /\ reply.op = "GetKeyMatrix"
            /\ reply.at = cmd[p].layer
            /\ reply.data = matrix[cmd[p].layer]]_vars

(* Whatever the platform and the other processes do, a write touches the   *)
(* one layer its command names and gives its key the value it was given.   *)
OwnKeyWritten ==
  [][matrix' # matrix =>
       \E p \in Procs : /\ pc[p] = "patched"
                        /\ cmd[p].op = "set-keymap" /\ ~cmd[p].dry
                        /\ matrix'[cmd[p].layer][cmd[p].slot] = cmd[p].value
                        /\ \A l \in Layers \ {cmd[p].layer} : matrix'[l] = matrix[l]]_vars

(* Every command that starts ends: the sleeps, refused opens and failed    *)
(* assertions leave no process waiting for another.                        *)
CommandsEnd == \A p \in Procs : Running(p) ~> ~Running(p)

(* Under the platform's exclusion the commands are the atomic ones.        *)
Reported(p) == pc[p] \in {"closing", "done"}

Atomic == INSTANCE AtomicKeymap WITH
  NoValue <- NoBuffer,
  task <- cmd,
  status <- [p \in Procs |-> IF Reported(p) THEN "ok"
                             ELSE IF Running(p) THEN "running" ELSE pc[p]],
  seen <- [p \in Procs |-> IF Reported(p) THEN got[p][cmd[p].slot] ELSE NoBuffer]

AtomicSpec == Atomic!Spec
=============================================================================
