---------------------------- MODULE AtomicKeymap ----------------------------
(***************************************************************************)
(* What get-keymap and set-keymap promise: each command that succeeds acts *)
(* on one key of one layer in a single step, reports the value that key    *)
(* held just before it, and leaves every other key of the keyboard alone.  *)
(* A command may fail at any point, also after it took effect (the result  *)
(* is then lost to the user), but never halfway.                           *)
(***************************************************************************)
CONSTANTS Procs, Layers, Slots, Values, Jobs, Writes(_), NoCommand, NoValue

VARIABLES
  matrix,     \* layer -> slot -> value
  task,       \* process -> its command
  status,     \* process -> "idle", "running", "ok" or "failed"
  seen        \* process -> the value the command reports as the old one

vars == <<matrix, task, status, seen>>

Init ==
  /\ matrix \in [Layers -> [Slots -> Values]]
  /\ task = [p \in Procs |-> NoCommand]
  /\ status = [p \in Procs |-> "idle"]
  /\ seen = [p \in Procs |-> NoValue]

Begin(p) ==
  /\ status[p] # "running"
  /\ \E job \in Jobs : task' = [task EXCEPT ![p] = job]
  /\ status' = [status EXCEPT ![p] = "running"]
  /\ seen' = [seen EXCEPT ![p] = NoValue]
  /\ UNCHANGED matrix

Complete(p) ==
  LET job == task[p] IN
  /\ status[p] = "running"
  /\ status' = [status EXCEPT ![p] = "ok"]
  /\ seen' = [seen EXCEPT ![p] = matrix[job.layer][job.slot]]
  /\ matrix' = IF Writes(job)
                 THEN [matrix EXCEPT ![job.layer][job.slot] = job.value]
                 ELSE matrix
  /\ UNCHANGED task

Fail(p) ==
  /\ status[p] \in {"running", "ok"}
  /\ status' = [status EXCEPT ![p] = "failed"]
  /\ seen' = [seen EXCEPT ![p] = NoValue]
  /\ UNCHANGED <<matrix, task>>

Next == \E p \in Procs : Begin(p) \/ Complete(p) \/ Fail(p)

Spec == Init /\ [][Next]_vars
=============================================================================
