------------------------ MODULE KeymapCommandsProofs ------------------------
(***************************************************************************)
(* Proofs about get-keymap and set-keymap for any number of processes,     *)
(* layers, slots and values.                                               *)
(***************************************************************************)
EXTENDS KeymapCommands, TLAPS

-----------------------------------------------------------------------------
(* Types, whatever the platform and however slow the device.               *)

(* A running process has a command, set-keymap patches a buffer only when  *)
(* it writes, and what is written or reported was read from the device.    *)
CommandKnown == \A p \in Procs : Running(p) => cmd[p] \in Jobs
WriterWrites == \A p \in Procs : pc[p] = "patched" => Writes(cmd[p])
BufferHeld ==
  \A p \in Procs : pc[p] \in {"patched", "closing", "done"} => got[p] \in KeyBuffers

TypeInv == TypeOK /\ CommandKnown /\ WriterWrites /\ BufferHeld

(* The length assertion of read_layer lets nothing but a layer through.    *)
LEMMA LengthTellsStore ==
  ASSUME DeviceTypeOK, LengthMatches("GetKeyMatrix")
  PROVE  reply \in [op : {"GetKeyMatrix"}, at : Layers, data : KeyBuffers]
<1>1. reply # NoReply
  BY DEF LengthMatches, ReplyLen, PayloadLen
<1>2. reply \in Replies /\ PayloadLen(reply.op) = 504
  BY <1>1 DEF DeviceTypeOK, LengthMatches, ReplyLen, PayloadLen
<1>3. CASE reply \in [op : {"GetMacros"}, at : Pages, data : PageImages]
  BY <1>2, <1>3 DEF PayloadLen
<1>4. CASE reply \in [op : {"GetLedColors"}, at : {0}, data : ColorBuffers]
  BY <1>2, <1>4 DEF PayloadLen
<1>5. CASE reply \in [op : {"GetProfile"}, at : {0}, data : Profiles]
  BY <1>2, <1>5 DEF PayloadLen
<1> QED BY <1>2, <1>3, <1>4, <1>5 DEF Replies

(* An answer has the type of its store.                                    *)
LEMMA AnswerType ==
  ASSUME DeviceTypeOK, NEW req \in Requests
  PROVE  Answer(req) \in Replies
<1>1. CASE req \in {GetKeyMatrix(l) : l \in Layers}
  BY <1>1 DEF Answer, GetKeyMatrix, Replies, DeviceTypeOK
<1>2. CASE req \in {GetMacros(i) : i \in Pages}
  BY <1>2 DEF Answer, GetMacros, Replies, DeviceTypeOK
<1>3. CASE req = GetLedColors
  BY <1>3 DEF Answer, GetLedColors, Replies, DeviceTypeOK
<1>4. CASE req = GetProfile
  BY <1>4 DEF Answer, GetProfile, Replies, DeviceTypeOK
<1> QED BY <1>1, <1>2, <1>3, <1>4 DEF Requests

(* Jobs name a layer and a slot, and a value when they write.              *)
LEMMA JobFields ==
  ASSUME NEW job \in Jobs
  PROVE  /\ job.layer \in Layers /\ job.slot \in Slots
         /\ Writes(job) => job.value \in Values
BY JobsAssumption DEF KeymapJobs, GetJobs, SetJobs, Writes

LEMMA TypeInit == KeymapInit => TypeInv
BY DEF KeymapInit, TypeInv, TypeOK, DeviceTypeOK, SessionTypeOK, KeymapLabels, Ended,
       CommandKnown, WriterWrites, BufferHeld, Running

LEMMA TypeNext == TypeInv /\ [Next]_vars => TypeInv'
<1> SUFFICES ASSUME TypeInv, [Next]_vars PROVE TypeInv'
  OBVIOUS
<1> USE DEF TypeInv, TypeOK, SessionTypeOK, KeymapLabels, Ended, Running,
            CommandKnown, WriterWrites, BufferHeld
<1>1. ASSUME NEW p \in Procs, StartKeymap(p) PROVE TypeInv'
  BY <1>1 DEF StartKeymap, Begin, Goto, deviceVars, stores, DeviceTypeOK
<1>2. ASSUME NEW p \in Procs, Open(p, "start", "opened") PROVE TypeInv'
  BY <1>2 DEF Open, OpenSession, Goto, deviceVars, stores, DeviceTypeOK
<1>3. ASSUME NEW p \in Procs, OpenRefused(p, "start") PROVE TypeInv'
  BY <1>3 DEF OpenRefused, Fail, Goto, deviceVars, stores, DeviceTypeOK
<1>4. ASSUME NEW p \in Procs, AskLayer(p) PROVE TypeInv'
  <2>1. cmd[p].layer \in Layers
    BY <1>4, JobFields DEF AskLayer, Ask
  <2>2. asked' \in [by : Procs, req : Requests]
    BY <1>4, <2>1 DEF AskLayer, Ask, SendRequest, Requests
  <2> QED BY <1>4, <2>2 DEF AskLayer, Ask, SendRequest, Goto, stores, DeviceTypeOK
<1>5. ASSUME NEW p \in Procs, TakeLayer(p) PROVE TypeInv'
  <2>1. reply.data \in KeyBuffers
    BY <1>5, LengthTellsStore DEF TakeLayer, Take
  <2>2. CASE Writes(cmd[p])
    BY <1>5, <2>1, <2>2 DEF TakeLayer, Take, Goto, deviceVars, stores, DeviceTypeOK
  <2>3. CASE ~Writes(cmd[p])
    BY <1>5, <2>1, <2>3 DEF TakeLayer, Take, Goto, deviceVars, stores, DeviceTypeOK
  <2> QED BY <2>2, <2>3
<1>6. ASSUME NEW p \in Procs, Panic(p, "reading", "GetKeyMatrix") PROVE TypeInv'
  BY <1>6 DEF Panic, CloseSession, Fail, Goto, deviceVars, stores, DeviceTypeOK
<1>7. ASSUME NEW p \in Procs, WriteLayer(p) PROVE TypeInv'
  <2>1. /\ cmd[p].layer \in Layers /\ cmd[p].slot \in Slots
        /\ cmd[p].value \in Values /\ got[p] \in KeyBuffers
    BY <1>7, JobFields DEF WriteLayer
  <2>2. matrix' \in [Layers -> KeyBuffers]
    BY <1>7, <2>1 DEF WriteLayer, SetKeyMatrix, Patched, DeviceTypeOK, KeyBuffers
  <2> QED BY <1>7, <2>1, <2>2 DEF WriteLayer, SetKeyMatrix, Goto, DeviceTypeOK
<1>8. ASSUME NEW p \in Procs, Close(p, "closing", "done") PROVE TypeInv'
  BY <1>8 DEF Close, CloseSession, Goto, deviceVars, stores, DeviceTypeOK
<1>9. ASSUME NEW p \in Procs, Die(p) PROVE TypeInv'
  BY <1>9 DEF Die, CloseSession, Fail, Goto, deviceVars, stores, DeviceTypeOK
<1>10. ASSUME DeviceStep PROVE TypeInv'
  <2>1. reply' \in Replies
    BY <1>10, AnswerType DEF DeviceStep, DeviceAnswers, DeviceTypeOK
  <2> QED BY <1>10, <2>1 DEF DeviceStep, DeviceAnswers, processVars, stores, DeviceTypeOK
<1>11. CASE UNCHANGED vars
  BY <1>11 DEF vars, deviceVars, stores, processVars, DeviceTypeOK
<1> QED BY <1>1, <1>2, <1>3, <1>4, <1>5, <1>6, <1>7, <1>8, <1>9, <1>10, <1>11
        DEF Next, KeymapStep

(* Types are kept on every platform, however slow the device: in           *)
(* particular the key matrix only ever holds key matrix buffers.           *)
THEOREM TypeCorrect == Spec => []TypeOK
<1>1. TypeInv => TypeOK
  BY DEF TypeInv
<1> QED BY TypeInit, TypeNext, <1>1, PTL DEF Spec

(* No other step of the commands touches the key matrix.                   *)
LEMMA OnlyWritesChangeMatrix ==
  ASSUME [Next]_vars, matrix' # matrix
  PROVE  \E p \in Procs : WriteLayer(p)
BY DEF Next, vars, deviceVars, stores, processVars, StartKeymap, Begin, KeymapStep, Open,
       OpenRefused, Fail, AskLayer, Ask, SendRequest, TakeLayer, Take, Panic, Close, Die,
       DeviceStep, DeviceAnswers

(* On every platform, however slow the device and whatever other processes *)
(* do, a write reaches only the layer its command names and gives its key  *)
(* the value it was given; the other keys of that layer are what the       *)
(* process read, which may be out of date.                                 *)
THEOREM OwnKeyWrittenHolds == Spec => OwnKeyWritten
<1> DEFINE Written(p) ==
      /\ pc[p] = "patched"
      /\ cmd[p].op = "set-keymap" /\ ~cmd[p].dry
      /\ matrix'[cmd[p].layer][cmd[p].slot] = cmd[p].value
      /\ \A l \in Layers \ {cmd[p].layer} : matrix'[l] = matrix[l]
<1>1. ASSUME TypeInv, NEW p \in Procs, WriteLayer(p)
      PROVE  Written(p)
  <2>1. pc[p] = "patched" /\ Writes(cmd[p]) /\ cmd[p] \in Jobs /\ got[p] \in KeyBuffers
    BY <1>1 DEF WriteLayer, TypeInv, WriterWrites, CommandKnown, BufferHeld, Running, Ended
  <2>2. cmd[p].layer \in Layers /\ cmd[p].slot \in Slots /\ matrix \in [Layers -> KeyBuffers]
    BY <1>1, <2>1, JobFields DEF TypeInv, TypeOK, DeviceTypeOK
  <2>3. matrix' = [matrix EXCEPT ![cmd[p].layer] = [got[p] EXCEPT ![cmd[p].slot] = cmd[p].value]]
    BY <1>1 DEF WriteLayer, SetKeyMatrix, Patched
  <2> QED BY <2>1, <2>2, <2>3 DEF Writes, KeyBuffers
<1>2. TypeInv /\ [Next]_vars => [matrix' # matrix => \E p \in Procs : Written(p)]_vars
  BY <1>1, OnlyWritesChangeMatrix
<1> QED BY TypeInit, TypeNext, <1>2, PTL DEF Spec, OwnKeyWritten

-----------------------------------------------------------------------------
(* Exclusion: what a prompt device on a platform with exclusive opens      *)
(* guarantees.                                                             *)

Holding == {"opened", "reading", "patched", "closing"}

(* A process holds the handle exactly between its open and its close, and  *)
(* it is alone.                                                            *)
HolderHolds == \A p \in Procs : p \in holders <=> pc[p] \in Holding
SoleHolder == \A p, q \in holders : p = q

(* While a process sleeps, the device either still works on its request or *)
(* has prepared the answer to it, and that answer is not outdated.         *)
OwnAnswer ==
  \A p \in Procs : pc[p] = "reading" =>
    \/ asked = [by |-> p, req |-> GetKeyMatrix(cmd[p].layer)]
    \/ asked = NoRequest /\ reply = Answer(GetKeyMatrix(cmd[p].layer))

(* Together with the types and with FreshBuffer itself these are inductive:*)
(* FreshBuffer alone is not, since what is taken must be shown current.    *)
ExclusiveInv == TypeInv /\ HolderHolds /\ SoleHolder /\ OwnAnswer /\ FreshBuffer

LEMMA ExclusiveInit == KeymapInit => ExclusiveInv
BY TypeInit DEF KeymapInit, ExclusiveInv, HolderHolds, SoleHolder, OwnAnswer, FreshBuffer,
                Holding

(* A holder that is asked about is the only process past its open.         *)
LEMMA AloneWhenHolding ==
  ASSUME HolderHolds, SoleHolder, NEW p \in Procs, NEW q \in Procs,
         pc[p] \in Holding, pc[q] \in Holding
  PROVE  p = q
BY DEF HolderHolds, SoleHolder

(* With a prompt device, what a process takes is the layer it asked for,   *)
(* as the device holds it now.                                             *)
LEMMA TakenIsCurrent ==
  ASSUME Prompt, TypeInv, OwnAnswer, NEW p \in Procs, TakeLayer(p)
  PROVE  /\ reply.op = "GetKeyMatrix"
         /\ reply.at = cmd[p].layer
         /\ reply.data = matrix[cmd[p].layer]
<1>1. pc[p] = "reading" /\ ~(asked # NoRequest /\ asked.by = p)
  BY DEF TakeLayer, Take, AnswerDue
<1>2. Running(p) /\ cmd[p].layer \in Layers
  BY <1>1, JobFields DEF TypeInv, CommandKnown, Running, Ended
<1>3. reply = Answer(GetKeyMatrix(cmd[p].layer))
  <2>1. CASE asked = [by |-> p, req |-> GetKeyMatrix(cmd[p].layer)]
    <3>1. GetKeyMatrix(cmd[p].layer) \in Requests
      BY <1>2 DEF Requests
    <3>2. asked # NoRequest
      BY <2>1, <3>1, NoRequestAssumption
    <3> QED BY <1>1, <2>1, <3>2
  <2> QED BY <1>1, <2>1 DEF OwnAnswer
<1> QED BY <1>3 DEF Answer, GetKeyMatrix

LEMMA ExclusiveNext ==
  Exclusive /\ Prompt /\ ExclusiveInv /\ [Next]_vars => ExclusiveInv'
<1> SUFFICES ASSUME Exclusive, Prompt, ExclusiveInv, [Next]_vars
             PROVE  (HolderHolds /\ SoleHolder /\ OwnAnswer /\ FreshBuffer)'
  BY TypeNext DEF ExclusiveInv
<1> DEFINE Goal == HolderHolds /\ SoleHolder /\ OwnAnswer /\ FreshBuffer
<1>t. TypeInv /\ HolderHolds /\ SoleHolder /\ OwnAnswer /\ FreshBuffer
  BY DEF ExclusiveInv
<1>pc. pc \in [Procs -> KeymapLabels] /\ got \in [Procs -> KeyBuffers \union {NoBuffer}]
       /\ cmd \in [Procs -> Jobs \union {NoCommand}] /\ holders \in SUBSET Procs
  BY <1>t DEF TypeInv, TypeOK, SessionTypeOK
<1> USE DEF Holding, HolderHolds, SoleHolder, OwnAnswer, FreshBuffer, Goto, Answer, GetKeyMatrix
<1>1. ASSUME NEW p \in Procs, StartKeymap(p) PROVE Goal'
  BY <1>1, <1>t, <1>pc DEF StartKeymap, Begin, Running, Ended, deviceVars, stores
<1>2. ASSUME NEW p \in Procs, Open(p, "start", "opened") PROVE Goal'
  <2>1. holders = {} /\ \A q \in Procs : pc[q] \notin Holding
    BY <1>2, <1>t DEF Open, OpenSession, CanOpen
  <2> QED BY <1>2, <1>t, <1>pc, <2>1 DEF Open, OpenSession, deviceVars, stores
<1>3. ASSUME NEW p \in Procs, OpenRefused(p, "start") PROVE Goal'
  BY <1>3, <1>t, <1>pc DEF OpenRefused, Fail, deviceVars, stores
<1>4. ASSUME NEW p \in Procs, AskLayer(p) PROVE Goal'
  <2>1. \A q \in Procs \ {p} : pc[q] \notin Holding
    BY <1>4, <1>t, AloneWhenHolding DEF AskLayer, Ask
  <2> QED BY <1>4, <1>t, <1>pc, <2>1 DEF AskLayer, Ask, SendRequest, stores
<1>5. ASSUME NEW p \in Procs, TakeLayer(p) PROVE Goal'
  <2>1. \A q \in Procs \ {p} : pc[q] \notin Holding
    BY <1>5, <1>t, AloneWhenHolding DEF TakeLayer, Take
  <2>2. reply.data = matrix[cmd[p].layer]
    BY <1>5, <1>t, TakenIsCurrent
  <2>3. got' = [got EXCEPT ![p] = reply.data] /\ matrix' = matrix /\ holders' = holders
        /\ cmd' = cmd /\ pc' \in {[pc EXCEPT ![p] = "patched"], [pc EXCEPT ![p] = "closing"]}
    BY <1>5 DEF TakeLayer, Take, deviceVars, stores
  <2> QED BY <1>5, <1>t, <1>pc, <2>1, <2>2, <2>3 DEF TakeLayer, Take
<1>6. ASSUME NEW p \in Procs, Panic(p, "reading", "GetKeyMatrix") PROVE Goal'
  BY <1>6, <1>t, <1>pc DEF Panic, CloseSession, Fail, deviceVars, stores
<1>7. ASSUME NEW p \in Procs, WriteLayer(p) PROVE Goal'
  <2>1. \A q \in Procs \ {p} : pc[q] \notin Holding
    BY <1>7, <1>t, AloneWhenHolding DEF WriteLayer
  <2> QED BY <1>7, <1>t, <1>pc, <2>1 DEF WriteLayer, SetKeyMatrix
<1>8. ASSUME NEW p \in Procs, Close(p, "closing", "done") PROVE Goal'
  BY <1>8, <1>t, <1>pc DEF Close, CloseSession, deviceVars, stores
<1>9. ASSUME NEW p \in Procs, Die(p) PROVE Goal'
  BY <1>9, <1>t, <1>pc DEF Die, CloseSession, Fail, deviceVars, stores
<1>10. ASSUME DeviceStep PROVE Goal'
  BY <1>10, <1>t, <1>pc, NoRequestAssumption DEF DeviceStep, DeviceAnswers, processVars, stores
<1>11. CASE UNCHANGED vars
  BY <1>11, <1>t DEF vars, deviceVars, stores, processVars
<1> QED BY <1>1, <1>2, <1>3, <1>4, <1>5, <1>6, <1>7, <1>8, <1>9, <1>10, <1>11
        DEF Next, KeymapStep

-----------------------------------------------------------------------------
(* The properties. *)

(* With exclusive opens and a prompt device, the buffer set-keymap is      *)
(* about to write back is the layer as the device holds it.                *)
THEOREM FreshBufferHolds == ASSUME Exclusive, Prompt PROVE Spec => []FreshBuffer
<1>1. KeymapInit => ExclusiveInv
  BY ExclusiveInit
<1>2. ExclusiveInv /\ [Next]_vars => ExclusiveInv'
  BY ExclusiveNext
<1>3. ExclusiveInv => FreshBuffer
  BY DEF ExclusiveInv
<1> QED BY <1>1, <1>2, <1>3, PTL DEF Spec

(* What a write does under the invariant.                                  *)
LEMMA WriteChangesOneKey ==
  ASSUME ExclusiveInv, NEW p \in Procs, WriteLayer(p)
  PROVE  KeyChangedBy(p)
<1>1. pc[p] = "patched" /\ Writes(cmd[p]) /\ got[p] = matrix[cmd[p].layer]
  BY DEF WriteLayer, ExclusiveInv, FreshBuffer, TypeInv, WriterWrites
<1>2. matrix' = [matrix EXCEPT ![cmd[p].layer] = [matrix[cmd[p].layer] EXCEPT ![cmd[p].slot] = cmd[p].value]]
  BY <1>1 DEF WriteLayer, SetKeyMatrix, Patched
<1> QED BY <1>1, <1>2 DEF KeyChangedBy, Writes

(* With exclusive opens and a prompt device, the key matrix changes only   *)
(* at the key a set-keymap names: no other command's change is undone.     *)
THEOREM OneKeyChangedHolds == ASSUME Exclusive, Prompt PROVE Spec => OneKeyChanged
<1>1. KeymapInit => ExclusiveInv
  BY ExclusiveInit
<1>2. ExclusiveInv /\ [Next]_vars => ExclusiveInv'
  BY ExclusiveNext
<1>3. ExclusiveInv /\ [Next]_vars
        => [matrix' # matrix => \E p \in Procs : KeyChangedBy(p)]_vars
  BY OnlyWritesChangeMatrix, WriteChangesOneKey
<1> QED BY <1>1, <1>2, <1>3, PTL DEF Spec, OneKeyChanged

(* With exclusive opens and a prompt device, a command takes the answer to *)
(* its own request, as the device still holds it.                          *)
THEOREM ResponseAnswersRequestHolds ==
  ASSUME Exclusive, Prompt PROVE Spec => ResponseAnswersRequest
<1> DEFINE Answers ==
      \A p \in Procs :
        pc[p] = "reading" /\ pc'[p] \in {"patched", "closing"}
          => /\ reply.op = "GetKeyMatrix"
             /\ reply.at = cmd[p].layer
             /\ reply.data = matrix[cmd[p].layer]
<1>1. KeymapInit => ExclusiveInv
  BY ExclusiveInit
<1>2. ExclusiveInv /\ [Next]_vars => ExclusiveInv'
  BY ExclusiveNext
<1>3. ExclusiveInv /\ [Next]_vars => [Answers]_vars
  <2> SUFFICES ASSUME ExclusiveInv, [Next]_vars, NEW p \in Procs,
                      pc[p] = "reading", pc'[p] \in {"patched", "closing"}
               PROVE  TakeLayer(p)
    BY TakenIsCurrent DEF ExclusiveInv
  <2>1. pc \in [Procs -> KeymapLabels]
    BY DEF ExclusiveInv, TypeInv, TypeOK
  <2>2. ASSUME NEW q \in Procs, StartKeymap(q) \/ Die(q) PROVE FALSE
    BY <2>1, <2>2 DEF StartKeymap, Begin, Die, Fail, Goto, Running, Ended, KeymapLabels
  <2>3. ASSUME NEW q \in Procs, KeymapStep(q) PROVE TakeLayer(p)
    <3>1. CASE TakeLayer(q)
      BY <3>1, <2>1 DEF TakeLayer, Take, Goto
    <3>2. CASE Panic(q, "reading", "GetKeyMatrix") \/ OpenRefused(q, "start")
      BY <3>2, <2>1 DEF Panic, OpenRefused, Fail, Goto
    <3>3. CASE \/ Open(q, "start", "opened") \/ AskLayer(q)
               \/ WriteLayer(q) \/ Close(q, "closing", "done")
      BY <3>3, <2>1 DEF Open, AskLayer, Ask, WriteLayer, Close, Goto
    <3> QED BY <2>3, <3>1, <3>2, <3>3 DEF KeymapStep
  <2>4. ASSUME pc' = pc PROVE FALSE
    BY <2>4
  <2>5. DeviceStep \/ UNCHANGED vars => pc' = pc
    BY DEF DeviceStep, processVars, vars
  <2> QED BY <2>2, <2>3, <2>4, <2>5 DEF Next
<1> QED BY <1>1, <1>2, <1>3, PTL DEF Spec, ResponseAnswersRequest

-----------------------------------------------------------------------------
(* Refinement. *)

LEMMA AtomicInit == KeymapInit => Atomic!Init
BY DEF KeymapInit, Atomic!Init, Reported, Running, Ended, KeyBuffers

LEMMA AtomicNext ==
  ASSUME Exclusive, Prompt, ExclusiveInv, ExclusiveInv', [Next]_vars
  PROVE  [Atomic!Next]_(Atomic!vars)
<1>t. /\ pc \in [Procs -> KeymapLabels] /\ got \in [Procs -> KeyBuffers \union {NoBuffer}]
      /\ cmd \in [Procs -> Jobs \union {NoCommand}] /\ matrix \in [Layers -> KeyBuffers]
  BY DEF ExclusiveInv, TypeInv, TypeOK, DeviceTypeOK
<1> USE DEF Reported, Running, Ended, Goto, KeymapLabels
<1>1. ASSUME NEW p \in Procs, StartKeymap(p) PROVE Atomic!Begin(p)
  BY <1>1, <1>t DEF StartKeymap, Begin, Atomic!Begin, deviceVars, stores
<1>2. ASSUME NEW p \in Procs, Open(p, "start", "opened") PROVE UNCHANGED Atomic!vars
  BY <1>2, <1>t DEF Open, Atomic!vars, deviceVars, stores
<1>3. ASSUME NEW p \in Procs, OpenRefused(p, "start") PROVE Atomic!Fail(p)
  BY <1>3, <1>t DEF OpenRefused, Fail, Atomic!Fail, deviceVars, stores
<1>4. ASSUME NEW p \in Procs, AskLayer(p) PROVE UNCHANGED Atomic!vars
  BY <1>4, <1>t DEF AskLayer, Ask, SendRequest, Atomic!vars, stores
<1>5. ASSUME NEW p \in Procs, TakeLayer(p) PROVE Atomic!Complete(p) \/ UNCHANGED Atomic!vars
  <2>1. reply.data = matrix[cmd[p].layer]
    BY <1>5, TakenIsCurrent DEF ExclusiveInv
  <2>2. CASE Writes(cmd[p])
    BY <1>5, <1>t, <2>2 DEF TakeLayer, Take, Atomic!vars, deviceVars, stores
  <2>3. CASE ~Writes(cmd[p])
    BY <1>5, <1>t, <2>1, <2>3 DEF TakeLayer, Take, Atomic!Complete, deviceVars, stores
  <2> QED BY <2>2, <2>3
<1>6. ASSUME NEW p \in Procs, Panic(p, "reading", "GetKeyMatrix") PROVE Atomic!Fail(p)
  BY <1>6, <1>t DEF Panic, Fail, Atomic!Fail, deviceVars, stores
<1>7. ASSUME NEW p \in Procs, WriteLayer(p) PROVE Atomic!Complete(p)
  <2>1. KeyChangedBy(p) /\ got[p] = matrix[cmd[p].layer]
    BY <1>7, WriteChangesOneKey DEF WriteLayer, ExclusiveInv, FreshBuffer
  <2>2. cmd[p].layer \in Layers
    BY <1>7, JobFields DEF WriteLayer, ExclusiveInv, TypeInv, CommandKnown
  <2>3. /\ pc[p] = "patched" /\ pc' = [pc EXCEPT ![p] = "closing"]
        /\ got' = got /\ cmd' = cmd
    BY <1>7 DEF WriteLayer
  <2> QED BY <1>t, <2>1, <2>2, <2>3 DEF KeyChangedBy, Writes, Atomic!Complete
<1>8. ASSUME NEW p \in Procs, Close(p, "closing", "done") PROVE UNCHANGED Atomic!vars
  BY <1>8, <1>t DEF Close, Atomic!vars, deviceVars, stores
<1>9. ASSUME NEW p \in Procs, Die(p) PROVE Atomic!Fail(p)
  BY <1>9, <1>t DEF Die, Fail, Atomic!Fail, deviceVars, stores
<1>10. ASSUME DeviceStep PROVE UNCHANGED Atomic!vars
  BY <1>10 DEF DeviceStep, DeviceAnswers, processVars, stores, Atomic!vars
<1>11. CASE UNCHANGED vars
  BY <1>11 DEF vars, deviceVars, stores, processVars, Atomic!vars
<1> QED BY <1>1, <1>2, <1>3, <1>4, <1>5, <1>6, <1>7, <1>8, <1>9, <1>10, <1>11
        DEF Next, KeymapStep, Atomic!Next

(* With exclusive opens and a prompt device, every get-keymap and          *)
(* set-keymap is one atomic step on one key.                               *)
THEOREM ImplementsAtomic == ASSUME Exclusive, Prompt PROVE Spec => AtomicSpec
<1>1. KeymapInit => ExclusiveInv
  BY ExclusiveInit
<1>2. ExclusiveInv /\ [Next]_vars => ExclusiveInv'
  BY ExclusiveNext
<1>3. KeymapInit => Atomic!Init
  BY AtomicInit
<1>4. ExclusiveInv /\ ExclusiveInv' /\ [Next]_vars => [Atomic!Next]_(Atomic!vars)
  BY AtomicNext
<1> QED BY <1>1, <1>2, <1>3, <1>4, PTL DEF Spec, AtomicSpec, Atomic!Spec
=============================================================================
