----------------------------- MODULE ApplyAtomic -----------------------------
(***************************************************************************)
(* What the apply engine promises to its callers, without lock, sessions   *)
(* or commands: each call replaces the managed part of the running         *)
(* configuration in one step, or not at all, and answers accordingly; from *)
(* that step to its answer no other call touches the device, so that what  *)
(* it saves is what it committed.                                          *)
(***************************************************************************)
CONSTANTS Call, InitialConfigs,
          Replace(_, _),      \* Replace(c, conf): conf after c's commit
          WantsSave(_)

VARIABLES running, saved, landed, cancelled, answer

vars == <<running, saved, landed, cancelled, answer>>

Unanswered == {c \in landed : answer[c] = "none"}

Init ==
  /\ running \in InitialConfigs
  /\ saved = running
  /\ landed = {}
  /\ cancelled = {}
  /\ answer = [c \in Call |-> "none"]

Land(c) ==
  /\ answer[c] = "none" /\ c \notin landed
  /\ Unanswered = {}
  /\ running' = Replace(c, running)
  /\ landed' = landed \cup {c}
  /\ UNCHANGED <<saved, cancelled, answer>>

Save(c) ==
  /\ WantsSave(c)
  /\ Unanswered = {c}
  /\ saved' = running
  /\ UNCHANGED <<running, landed, cancelled, answer>>

Cancel(c) ==
  /\ answer[c] = "none"
  /\ cancelled' = cancelled \cup {c}
  /\ UNCHANGED <<running, saved, landed, answer>>

\* Only a cancelled call may be wrong about its commit, and only by denying it.
Answer(c) ==
  /\ answer[c] = "none"
  /\ \/ c \in landed /\ answer' = [answer EXCEPT ![c] = "applied"]
     \/ c \notin landed \cap (Call \ cancelled) /\ answer' = [answer EXCEPT ![c] = "failed"]
  /\ UNCHANGED <<running, saved, landed, cancelled>>

Next == \E c \in Call : Land(c) \/ Save(c) \/ Cancel(c) \/ Answer(c)

Spec == Init /\ [][Next]_vars
=============================================================================
