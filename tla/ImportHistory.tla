--------------------------- MODULE ImportHistory ---------------------------
(***************************************************************************)
(* import-hcl beside a user who picks lighting effects on the keyboard     *)
(* while colours are being imported.                                       *)
(*                                                                         *)
(* Nothing but the user knows whether a profile was picked by the user or  *)
(* left by a process, so a history variable says it: it constrains no step *)
(* of ImportCommand and no step reads it.                                  *)
(***************************************************************************)
EXTENDS ImportCommand

VARIABLE session    \* history: process -> the profile when its lighting session
                    \* was opened, and those the user has picked since

historyVars == <<importVars, session>>

Lighting == {"colors-read", "colors-wait", "profile-read", "profile-wait", "profile-write",
             "profile-sleep", "colors-write", "colors-close"}
NoSession == [found |-> {}, picked |-> {}]

HistoryInit ==
  /\ ImportInit
  /\ session = [p \in Procs |-> NoSession]

(* A step of a process, which may open or end lighting sessions.           *)
Recorded ==
  session' = [p \in Procs |->
    IF pc'[p] \notin Lighting THEN NoSession
    ELSE IF pc[p] \notin Lighting THEN [found |-> {profile}, picked |-> {}]
    ELSE session[p]]

ProcessStep == (\E p \in Procs : StartImport(p) \/ ImportStep(p) \/ ImportDies(p)) /\ Recorded

UserPicks ==
  /\ UserStep
  /\ session' = [p \in Procs |->
       IF pc[p] \in Lighting THEN [session[p] EXCEPT !.picked = @ \union {profile'}]
       ELSE session[p]]

HistoryNext ==
  \/ ProcessStep
  \/ KeyboardStep /\ UNCHANGED session
  \/ UserPicks

HistorySpec == HistoryInit /\ [][HistoryNext]_historyVars

-----------------------------------------------------------------------------
(* Properties *)

(* Colours are written only once the keyboard shows them: the mode change  *)
(* has been applied, and the profile is in SelfDefine mode unless the user *)
(* has picked the one it is in while the import was on its way.            *)
SelfDefineBeforeColors ==
  [][\A p \in Procs : Passes(p, "colors-write") =>
       ~settling /\ (profile.mode = SelfDefine \/ profile \in session[p].picked)]_historyVars

(* Switching to SelfDefine puts back all the other profile bytes, as they  *)
(* were at some moment of the session.  So the only change it can undo is  *)
(* one that the user made between its read and its write.                  *)
Seen(p) == session[p].found \union session[p].picked
ProfileRestKept ==
  [][\A p \in Procs : Passes(p, "profile-write") =>
       profile'.rest \in {seen.rest : seen \in Seen(p)}]_historyVars

(* After an import with lighting the keyboard shows the file's colours,    *)
(* unless the user has picked something else meanwhile.                    *)
LightingShown ==
  [][\A p \in Procs :
       Passes(p, "colors-close") /\ ~cmd[p].dry
         => profile.mode = SelfDefine \/ profile \in session[p].picked]_historyVars
=============================================================================
