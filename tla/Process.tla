------------------------------ MODULE Process ------------------------------
(***************************************************************************)
(* One run of the rk-a72 binary: where it is, the command line it was      *)
(* given, and the last payload it parsed.  Every command does all its      *)
(* argument checks before it opens the device, holds at most one session   *)
(* at a time, and leaves through one of three doors: done, failed (an I/O  *)
(* error, a failed assertion or a kill), or still running.                 *)
(***************************************************************************)
EXTENDS Session

CONSTANTS
  NoCommand,    \* no command line yet
  NoBuffer      \* nothing received yet

VARIABLES
  pc,           \* process -> label of the next step
  cmd,          \* process -> the command it runs
  got           \* process -> the last payload it received

processVars == <<pc, cmd, got>>
vars == <<deviceVars, holders, processVars>>

Ended == {"idle", "done", "failed"}
Running(p) == pc[p] \notin Ended

Goto(p, label) == pc' = [pc EXCEPT ![p] = label]

(* The process is gone, and what it had read with it. *)
Fail(p) ==
  /\ Goto(p, "failed")
  /\ got' = [got EXCEPT ![p] = NoBuffer]
  /\ UNCHANGED cmd

(* main: the command line is parsed and its command begins. *)
Begin(p, command, label) ==
  /\ ~Running(p)
  /\ Goto(p, label)
  /\ cmd' = [cmd EXCEPT ![p] = command]
  /\ got' = [got EXCEPT ![p] = NoBuffer]
  /\ UNCHANGED <<deviceVars, holders>>

(* WiredSession::open, from label `from` to label `to`. *)
Open(p, from, to) ==
  /\ pc[p] = from
  /\ OpenSession(p)
  /\ Goto(p, to)
  /\ UNCHANGED <<deviceVars, cmd, got>>

(* The other handle is still open and the platform refuses a second one. *)
OpenRefused(p, from) ==
  /\ pc[p] = from
  /\ ~CanOpen
  /\ Fail(p)
  /\ UNCHANGED <<deviceVars, holders>>

(* send_feature_report of a Get request. *)
Ask(p, from, req, to) ==
  /\ pc[p] = from
  /\ SendRequest(p, req)
  /\ Goto(p, to)
  /\ UNCHANGED <<cmd, got>>

(* get_feature_report and the length assertion of the repository. *)
Take(p, from, op, to) ==
  /\ pc[p] = from
  /\ AnswerDue(p)
  /\ LengthMatches(op)
  /\ Goto(p, to)
  /\ got' = [got EXCEPT ![p] = reply.data]
  /\ UNCHANGED <<deviceVars, holders, cmd>>

(* The assertion fails: the process panics and its handle is dropped. *)
Panic(p, from, op) ==
  /\ pc[p] = from
  /\ AnswerDue(p)
  /\ ~LengthMatches(op)
  /\ CloseSession(p)
  /\ Fail(p)
  /\ UNCHANGED deviceVars

(* The session's block ends. *)
Close(p, from, to) ==
  /\ pc[p] = from
  /\ CloseSession(p)
  /\ Goto(p, to)
  /\ UNCHANGED <<deviceVars, cmd, got>>

(* An I/O error or a kill, anywhere: the handle goes with the process. *)
Die(p) ==
  /\ Running(p)
  /\ CloseSession(p)
  /\ Fail(p)
  /\ UNCHANGED deviceVars
=============================================================================
