------------------------------ MODULE Session ------------------------------
(***************************************************************************)
(* WiredSession: one open handle per process.  A request that reads is     *)
(* send_feature_report, a fixed sleep, get_feature_report; one that does   *)
(* not read is the send alone.  Nothing pairs the report that is read with *)
(* the request that was sent.                                              *)
(***************************************************************************)
EXTENDS Device

CONSTANTS
  Exclusive,    \* TRUE: a second open of the path fails (macOS)
                \* FALSE: it succeeds (Linux, Windows)
  Prompt        \* TRUE: the device answers within the sleep of 150 ms

ASSUME SessionAssumption == Exclusive \in BOOLEAN /\ Prompt \in BOOLEAN

VARIABLE holders    \* the processes that hold an open handle

SessionTypeOK == holders \in SUBSET Procs

CanOpen == Exclusive => holders = {}

OpenSession(p) ==
  /\ CanOpen
  /\ holders' = holders \union {p}

(* Dropping the WiredSession, at the end of its block or with the process. *)
CloseSession(p) == holders' = holders \ {p}

SendRequest(p, req) ==
  /\ asked' = [by |-> p, req |-> req]
  /\ UNCHANGED <<stores, reply, holders>>

(* Mutant: no sleep before the report is read.                             *)
NoSleep(p) == TRUE

(* The sleep is over.  If the device is prompt, it has answered p by then. *)
AnswerDue(p) == ~(Prompt /\ asked # NoRequest /\ asked.by = p)

(* The reply is accepted on its length alone. *)
LengthMatches(op) == ReplyLen = PayloadLen(op)
=============================================================================
