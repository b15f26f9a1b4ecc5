---------------------------- MODULE ApplyExecutor ----------------------------
(***************************************************************************)
(* defaultExecutor.Execute (src/apply/default_executor.go) with the CLI    *)
(* session it drives (src/internal/vyos/runner.go): concurrent calls, in   *)
(* one process or several, that serialise on a lock file, open a candidate *)
(* session named after the process id, replay a plan in it, commit,        *)
(* optionally save, and clean up.                                          *)
(*                                                                         *)
(* pc[c] is the statement call c is at; wait[c] says that it waits for     *)
(* something outside the program: the child process of that statement, or  *)
(* the 10 ms of the lock's retry timer.  A Call is one call of Execute.    *)
(*                                                                         *)
(* A definition called a mutant is the one after it with a plausible bug;  *)
(* PROJECT.json names the property that catches it.                        *)
(***************************************************************************)
EXTENDS VyOSConfig, Sequences, Integers

CONSTANTS Call,
          SidOf,          \* the process id of the process that makes the call
          PlanOf,         \* its plan: deletes, sets (Commit is always true), save
          NoCall,
          MayCrash,       \* bound: processes that may be killed
          OperatorLeaf    \* bound: leaves a human may commit meanwhile

Plan == [dels : Seq(Root), sets : Seq([leaf : Leaf, val : Val]), save : BOOLEAN]

ASSUME ExecutorAssumption ==
  /\ SidOf \in [Call -> Sid]
  /\ PlanOf \in [Call -> Plan]
  /\ NoCall \notin Call
  /\ MayCrash \subseteq Sid /\ OperatorLeaf \subseteq Leaf

VARIABLES lock,           \* holder of /run/lock/olg-vyos-apply.lock
          pc, wait, idx,  \* control; idx counts the plan's commands, deletes first
          dead,           \* calls whose process was killed
          ctx,            \* the caller's context
          cleanup,        \* the context of the current cleanup, 5 s
          applied, persisted, code, notes,          \* result and error
          landed, foreign, ran                      \* history

control == <<lock, pc, wait, idx, dead, ctx, cleanup>>
outcome == <<applied, persisted, code, notes>>
\* landed: calls whose commit reached the running configuration;
\* foreign[c]: leaves somebody else changed, in the running configuration or
\* in the candidate, while c's session was open; ran[c]: cleanup commands started.
history == <<landed, foreign, ran>>
vars == <<device, control, outcome, history>>

EditSteps == {"delete", "set", "commit"}
CleanupSteps == {"fail_discard", "discard", "close"}
SessionSteps == EditSteps \cup CleanupSteps \cup {"save"}
CommandSteps == {"getenv", "setup"} \cup SessionSteps
LockedSteps == CommandSteps \cup {"release"}
Over == {"returned", "crashed"}
Steps == {"idle", "entry", "lock"} \cup LockedSteps \cup Over

Codes == {"ok", "executor_failed", "delete_failed", "set_failed",
          "commit_failed", "save_failed"}
\* Mutant: a failed save is reported as an uncategorized failure.
FailureOfUncategorized == [delete |-> "delete_failed", set |-> "set_failed",
                        commit |-> "commit_failed", save |-> "apply_failed",
                        getenv |-> "executor_failed", setup |-> "executor_failed"]
FailureOf == [delete |-> "delete_failed", set |-> "set_failed",
              commit |-> "commit_failed", save |-> "save_failed",
              getenv |-> "executor_failed", setup |-> "executor_failed"]

TypeOK ==
  /\ DeviceTypeOK
  /\ lock \in Call \cup {NoCall}
  /\ pc \in [Call -> Steps]
  /\ wait \in [Call -> BOOLEAN]
  /\ idx \in [Call -> Nat]
  /\ dead \subseteq Call
  /\ ctx \in [Call -> {"live", "done"}]
  /\ cleanup \in [Call -> {"live", "done"}]
  /\ applied \in [Call -> BOOLEAN]
  /\ persisted \in [Call -> BOOLEAN]
  /\ code \in [Call -> Codes]
  /\ notes \in [Call -> SUBSET {"discard", "close", "release"}]
  /\ landed \subseteq Call
  /\ foreign \in [Call -> SUBSET Leaf]
  /\ ran \in [Call -> SUBSET {"discard", "close"}]

Init ==
  /\ DeviceInit
  /\ lock = NoCall
  /\ pc = [c \in Call |-> "idle"]
  /\ wait = [c \in Call |-> FALSE]
  /\ idx = [c \in Call |-> 1]
  /\ dead = {}
  /\ ctx = [c \in Call |-> "live"]
  /\ cleanup = [c \in Call |-> "live"]
  /\ applied = [c \in Call |-> FALSE]
  /\ persisted = [c \in Call |-> FALSE]
  /\ code = [c \in Call |-> "ok"]
  /\ notes = [c \in Call |-> {}]
  /\ landed = {}
  /\ foreign = [c \in Call |-> {}]
  /\ ran = [c \in Call |-> {}]

-----------------------------------------------------------------------------
\* Helpers.

At(c, step) == pc[c] = step /\ c \notin dead
InSession(c) == pc[c] \in SessionSteps
\* Mutant: cleanup without a time limit.
CtxOfUnlimited(c) == IF pc[c] \in CleanupSteps THEN "live" ELSE ctx[c]
\* Cleanup runs under cleanupContext, which ignores the caller's cancellation.
CtxOf(c) == IF pc[c] \in CleanupSteps THEN cleanup[c] ELSE ctx[c]

Goto(c, step) ==
  /\ pc' = [pc EXCEPT ![c] = step]
  /\ wait' = [wait EXCEPT ![c] = FALSE]

\* A call that is over has no locals.
Forget(c) ==
  /\ idx' = [idx EXCEPT ![c] = 1]
  /\ cleanup' = [cleanup EXCEPT ![c] = "live"]
  /\ foreign' = [foreign EXCEPT ![c] = {}]

\* Mutant: the last set command is lost.
EditStepShort(p, i) ==
  IF i <= Len(p.dels) THEN "delete"
  ELSE IF i < Len(p.dels) + Len(p.sets) THEN "set" ELSE "commit"

\* The statement that handles command i of plan p.
EditStep(p, i) ==
  IF i <= Len(p.dels) THEN "delete"
  ELSE IF i <= Len(p.dels) + Len(p.sets) THEN "set" ELSE "commit"

CurrentRoot(c) == PlanOf[c].dels[idx[c]]
CurrentSet(c) == PlanOf[c].sets[idx[c] - Len(PlanOf[c].dels)]

\* What the child process of the current statement does to the device.
CommandEffect(c) ==
  \/ pc[c] = "getenv" /\ UNCHANGED device
  \/ pc[c] = "setup" /\ SetupSession(SidOf[c])
  \/ pc[c] = "delete" /\ DeleteRoot(SidOf[c], CurrentRoot(c))
  \/ pc[c] = "set" /\ SetLeaf(SidOf[c], CurrentSet(c).leaf, CurrentSet(c).val)
  \/ pc[c] = "commit" /\ CommitSession(SidOf[c])
  \/ pc[c] = "save" /\ SaveRunning(SidOf[c])
  \/ pc[c] \in {"fail_discard", "discard"} /\ DiscardEdits(SidOf[c])
  \/ pc[c] = "close" /\ TeardownSession(SidOf[c])

\* The history of actor c's step: the leaves it changes under the open session
\* of another call, and the edits its own setup finds in the candidate.
Disturbed(d) ==
  {l \in Leaf : \/ running'[l] # running[l] /\ cand[SidOf[d]].edits[l] = Keep
                \/ cand'[SidOf[d]].edits[l] # cand[SidOf[d]].edits[l]}
Disturb(c) ==
  foreign' = [d \in Call |->
                IF d # c THEN IF InSession(d) THEN foreign[d] \cup Disturbed(d) ELSE foreign[d]
                ELSE IF pc[c] = "setup" THEN {l \in Leaf : cand'[SidOf[c]].edits[l] # Keep}
                ELSE foreign[c]]

\* How a child process ends.  exec.CommandContext kills it once its context is
\* done, and then reports the exit status, not the context's error ("lost": the
\* effect was already there), unless the process exits 0 anyway ("late").
Outcomes(c) ==
  {"ok", "fail"} \cup (IF CtxOf(c) = "done" THEN {"lost", "late"} ELSE {})

Ends(c, o) ==
  /\ pc[c] \in CommandSteps /\ wait[c]
  /\ o \in Outcomes(c)
  /\ IF o = "fail" THEN UNCHANGED device ELSE CommandEffect(c)
  /\ Disturb(c)

-----------------------------------------------------------------------------
\* Entry and the lock.

Begin(c) ==
  /\ At(c, "idle")
  /\ Goto(c, "entry")
  /\ UNCHANGED <<device, lock, idx, dead, ctx, cleanup, outcome, history>>

Cancel(c) ==
  /\ pc[c] \notin Over \cup {"idle"} /\ c \notin dead
  /\ ctx[c] = "live"
  /\ ctx' = [ctx EXCEPT ![c] = "done"]
  /\ UNCHANGED <<device, lock, pc, wait, idx, dead, cleanup, outcome, history>>

\* A failure before the lock is held: nothing to release.
ReturnUnlocked(c) ==
  /\ code' = [code EXCEPT ![c] = "executor_failed"]
  /\ Goto(c, "returned")
  /\ UNCHANGED <<device, lock, idx, dead, ctx, cleanup,
                 applied, persisted, notes, history>>

Enter(c) ==
  /\ At(c, "entry")
  /\ \/ ctx[c] = "done" /\ ReturnUnlocked(c)
     \/ /\ ctx[c] = "live"
        /\ Goto(c, "lock")
        /\ UNCHANGED <<device, lock, idx, dead, ctx, cleanup, outcome, history>>

\* Mutant: a shared lock.
TryLockShared(c) ==
  /\ At(c, "lock") /\ ~wait[c]
  /\ lock' = c /\ Goto(c, "getenv")
  /\ UNCHANGED <<device, idx, dead, ctx, cleanup, outcome, history>>

\* flock(LOCK_EX|LOCK_NB) comes before the look at the context.
TryLock(c) ==
  /\ At(c, "lock") /\ ~wait[c]
  /\ IF lock = NoCall
     THEN lock' = c /\ Goto(c, "getenv")
     ELSE wait' = [wait EXCEPT ![c] = TRUE] /\ UNCHANGED <<lock, pc>>
  /\ UNCHANGED <<device, idx, dead, ctx, cleanup, outcome, history>>

LockRetry(c) ==
  /\ At(c, "lock") /\ wait[c]
  /\ wait' = [wait EXCEPT ![c] = FALSE]
  /\ UNCHANGED <<device, lock, pc, idx, dead, ctx, cleanup, outcome, history>>

\* Mutant: the context is looked at once the lock is free.
LockCancelledLate(c) ==
  /\ At(c, "lock") /\ wait[c] /\ ctx[c] = "done" /\ lock = NoCall
  /\ ReturnUnlocked(c)

LockCancelled(c) ==
  /\ At(c, "lock") /\ wait[c] /\ ctx[c] = "done"
  /\ ReturnUnlocked(c)

\* open or flock fails for another reason than a held lock
LockFails(c) ==
  /\ At(c, "lock") /\ ~wait[c]
  /\ ReturnUnlocked(c)

-----------------------------------------------------------------------------
\* Starting a command.  checkExecutionContext before it and the check in
\* exec.Cmd.Start lead to the same return, so they are one step.

\* Mutant: a cancelled edit is torn down but not discarded.
ContextErrorNoDiscard(c) ==
  /\ code' = [code EXCEPT ![c] = "executor_failed"]
  /\ Goto(c, IF pc[c] \in EditSteps \cup {"save"} THEN "close" ELSE "release")
  /\ UNCHANGED <<cleanup, notes>>

\* The context is done before the command runs, or the command reports the
\* context's error: executor_failed, and the deferred cleanup.
ContextError(c) ==
  /\ code' = [code EXCEPT ![c] = "executor_failed"]
  /\ Goto(c, IF pc[c] \in EditSteps THEN "discard"
             ELSE IF pc[c] = "save" THEN "close" ELSE "release")
  /\ UNCHANGED <<cleanup, notes>>

\* Mutant: a failed cleanup command is only logged.
CleanupFailsSilent(c) ==
  /\ cleanup' = [cleanup EXCEPT ![c] = IF pc[c] = "fail_discard" THEN "live" ELSE @]
  /\ Goto(c, IF pc[c] = "close" THEN "release" ELSE "close")
  /\ UNCHANGED <<code, notes>>

\* Mutant: a failed cleanup command becomes the error.
CleanupFailsOverwrites(c) ==
  /\ notes' = [notes EXCEPT ![c] = @ \cup {IF pc[c] = "close" THEN "close" ELSE "discard"}]
  /\ code' = [code EXCEPT ![c] = "executor_failed"]
  /\ cleanup' = [cleanup EXCEPT ![c] = IF pc[c] = "fail_discard" THEN "live" ELSE @]
  /\ Goto(c, IF pc[c] = "close" THEN "release" ELSE "close")

\* A failed cleanup command is appended to the error, or becomes it; discard
\* is followed by Close, under a context of its own only after fail_discard.
CleanupFails(c) ==
  /\ notes' = [notes EXCEPT ![c] = @ \cup {IF pc[c] = "close" THEN "close" ELSE "discard"}]
  /\ code' = [code EXCEPT ![c] = IF @ = "ok" THEN "executor_failed" ELSE @]
  /\ cleanup' = [cleanup EXCEPT ![c] = IF pc[c] = "fail_discard" THEN "live" ELSE @]
  /\ Goto(c, IF pc[c] = "close" THEN "release" ELSE "close")

Start(c) ==
  /\ pc[c] \in CommandSteps /\ c \notin dead /\ ~wait[c]
  /\ CtxOf(c) = "live"
  /\ wait' = [wait EXCEPT ![c] = TRUE]
  /\ ran' = [ran EXCEPT ![c] = @ \cup
               (CASE pc[c] = "close" -> {"close"}
                  [] pc[c] \in {"fail_discard", "discard"} -> {"discard"}
                  [] OTHER -> {})]
  /\ UNCHANGED <<device, lock, pc, idx, dead, ctx, cleanup, outcome, landed, foreign>>

StartRefused(c) ==
  /\ pc[c] \in CommandSteps /\ c \notin dead /\ ~wait[c]
  /\ CtxOf(c) = "done"
  /\ IF pc[c] \in CleanupSteps THEN CleanupFails(c) ELSE ContextError(c)
  /\ UNCHANGED <<device, lock, idx, dead, ctx, applied, persisted, history>>

-----------------------------------------------------------------------------
\* The commands.

\* runner.Begin: whatever setupSession left behind is not torn down when it fails.
GetEnvEnds(c) ==
  /\ At(c, "getenv")
  /\ \E o \in Outcomes(c) :
       /\ Ends(c, o)
       /\ \/ o = "ok" /\ Goto(c, "setup") /\ UNCHANGED <<cleanup, code, notes>>
          \/ o # "ok" /\ ContextError(c)
  /\ UNCHANGED <<lock, idx, dead, ctx, applied, persisted, landed, ran>>

SetupEnds(c) ==
  /\ At(c, "setup")
  /\ \E o \in Outcomes(c) :
       /\ Ends(c, o)
       /\ \/ /\ o = "ok"
             /\ Goto(c, EditStep(PlanOf[c], idx[c]))
             /\ UNCHANGED <<cleanup, code, notes>>
          \/ o # "ok" /\ ContextError(c)
  /\ UNCHANGED <<lock, idx, dead, ctx, applied, persisted, landed, ran>>

\* The error branches of the delete, set and commit statements:
\* discardAfterFailure runs before the code of the statement is returned.
EditFails(c, o) ==
  \/ o = "late" /\ ContextError(c)
  \/ /\ o \in {"fail", "lost"}
     /\ code' = [code EXCEPT ![c] = FailureOf[pc[c]]]
     /\ Goto(c, "fail_discard")
     /\ UNCHANGED <<cleanup, notes>>

NextEdit(c) ==
  /\ idx' = [idx EXCEPT ![c] = @ + 1]
  /\ Goto(c, EditStep(PlanOf[c], idx[c] + 1))
  /\ UNCHANGED <<cleanup, code, notes>>

\* isMissingDeleteOutput is asked first, whatever the error was.  Assumption about
\* the device: a delete whose output says that there was nothing to delete, or that
\* something does not exist, had nothing under its root.  The code takes any failure
\* with such a text for a miss: Reconcile!DeleteTakenForMiss is without the assumption.
DeleteEnds(c) ==
  /\ At(c, "delete")
  /\ \/ /\ wait[c]
        /\ NothingUnder(SidOf[c], CurrentRoot(c))
        /\ UNCHANGED <<device, foreign>>
        /\ NextEdit(c)
     \/ \E o \in Outcomes(c) :
          /\ Ends(c, o)
          /\ \/ o = "ok" /\ NextEdit(c)
             \/ EditFails(c, o) /\ UNCHANGED idx
  /\ UNCHANGED <<lock, dead, ctx, applied, persisted, landed, ran>>

SetEnds(c) ==
  /\ At(c, "set")
  /\ \E o \in Outcomes(c) :
       /\ Ends(c, o)
       /\ \/ o = "ok" /\ NextEdit(c)
          \/ EditFails(c, o) /\ UNCHANGED idx
  /\ UNCHANGED <<lock, dead, ctx, applied, persisted, landed, ran>>

\* Mutant: committed and Applied are set before the error is looked at.
CommitEndsAppliedFirst(c) ==
  /\ At(c, "commit")
  /\ applied' = [applied EXCEPT ![c] = TRUE]
  /\ \E o \in Outcomes(c) :
       /\ Ends(c, o)
       /\ landed' = IF o = "fail" THEN landed ELSE landed \cup {c}
       /\ \/ /\ o = "ok"
             /\ Goto(c, IF PlanOf[c].save THEN "save" ELSE "close")
             /\ UNCHANGED <<cleanup, code, notes>>
          \/ EditFails(c, o)
  /\ UNCHANGED <<lock, idx, dead, ctx, persisted, ran>>

\* Mutant: Plan.Save is not asked.
CommitEndsAlwaysSaves(c) ==
  /\ At(c, "commit")
  /\ \E o \in Outcomes(c) :
       /\ Ends(c, o)
       /\ landed' = IF o = "fail" THEN landed ELSE landed \cup {c}
       /\ \/ /\ o = "ok"
             /\ applied' = [applied EXCEPT ![c] = TRUE]
             /\ Goto(c, "save")
             /\ UNCHANGED <<cleanup, code, notes>>
          \/ EditFails(c, o) /\ UNCHANGED applied
  /\ UNCHANGED <<lock, idx, dead, ctx, persisted, ran>>

CommitEnds(c) ==
  /\ At(c, "commit")
  /\ \E o \in Outcomes(c) :
       /\ Ends(c, o)
       /\ landed' = IF o = "fail" THEN landed ELSE landed \cup {c}
       /\ \/ /\ o = "ok"
             /\ applied' = [applied EXCEPT ![c] = TRUE]
             /\ Goto(c, IF PlanOf[c].save THEN "save" ELSE "close")
             /\ UNCHANGED <<cleanup, code, notes>>
          \/ EditFails(c, o) /\ UNCHANGED applied
  /\ UNCHANGED <<lock, idx, dead, ctx, persisted, ran>>

\* Mutant: a failed save is not an error after a successful commit.
SaveEndsIgnoringError(c) ==
  /\ At(c, "save")
  /\ \E o \in Outcomes(c) :
       /\ Ends(c, o)
       /\ persisted' = [persisted EXCEPT ![c] = o = "ok"]
       /\ Goto(c, "close")
  /\ UNCHANGED <<lock, idx, dead, ctx, cleanup, code, notes, applied, landed, ran>>

SaveEnds(c) ==
  /\ At(c, "save")
  /\ \E o \in Outcomes(c) :
       /\ Ends(c, o)
       /\ \/ /\ o = "ok"
             /\ persisted' = [persisted EXCEPT ![c] = TRUE]
             /\ Goto(c, "close")
             /\ UNCHANGED <<cleanup, code, notes>>
          \/ o = "late" /\ ContextError(c) /\ UNCHANGED persisted
          \/ /\ o \in {"fail", "lost"}
             /\ code' = [code EXCEPT ![c] = FailureOf[pc[c]]]
             /\ Goto(c, "close")
             /\ UNCHANGED <<cleanup, notes, persisted>>
  /\ UNCHANGED <<lock, idx, dead, ctx, applied, landed, ran>>

\* discardAfterFailure, or the discard of the deferred cleanup
DiscardEnds(c) ==
  /\ pc[c] \in {"fail_discard", "discard"} /\ c \notin dead
  /\ \E o \in Outcomes(c) :
       /\ Ends(c, o)
       /\ \/ /\ o = "ok"
             /\ cleanup' = [cleanup EXCEPT ![c] = IF pc[c] = "fail_discard" THEN "live" ELSE @]
             /\ Goto(c, "close")
             /\ UNCHANGED <<code, notes>>
          \/ o # "ok" /\ CleanupFails(c)
  /\ UNCHANGED <<lock, idx, dead, ctx, applied, persisted, landed, ran>>

CloseEnds(c) ==
  /\ At(c, "close")
  /\ \E o \in Outcomes(c) :
       /\ Ends(c, o)
       /\ \/ o = "ok" /\ Goto(c, "release") /\ UNCHANGED <<cleanup, code, notes>>
          \/ o # "ok" /\ CleanupFails(c)
  /\ UNCHANGED <<lock, idx, dead, ctx, applied, persisted, landed, ran>>

\* The 5 s pass while a cleanup command runs, never in the few statements
\* between two of them.
CleanupTimeout(c) ==
  /\ pc[c] \in CleanupSteps /\ c \notin dead /\ wait[c]
  /\ cleanup[c] = "live"
  /\ cleanup' = [cleanup EXCEPT ![c] = "done"]
  /\ UNCHANGED <<device, lock, pc, wait, idx, dead, ctx, outcome, history>>

\* The deferred release: LOCK_UN, then close of the descriptor, which frees
\* the lock even if LOCK_UN failed.
Release(c) ==
  /\ At(c, "release")
  /\ lock' = NoCall
  /\ Goto(c, "returned")
  /\ Forget(c)
  /\ \/ UNCHANGED <<code, notes>>
     \/ /\ notes' = [notes EXCEPT ![c] = @ \cup {"release"}]
        /\ code' = [code EXCEPT ![c] = IF @ = "ok" THEN "executor_failed" ELSE @]
  /\ UNCHANGED <<device, dead, ctx, applied, persisted, landed, ran>>

-----------------------------------------------------------------------------
\* The world around the calls.

\* Process s is killed: every call in it stops where it is and the kernel
\* frees its lock, but a child process that runs outlives it.
Crash(s) ==
  LET victims == {c \in Call : SidOf[c] = s /\ c \notin dead
                                /\ pc[c] \notin Over \cup {"idle"}}
  IN /\ s \in MayCrash
     /\ victims # {}
     /\ dead' = dead \cup victims
     /\ lock' = IF lock \in victims THEN NoCall ELSE lock
     /\ pc' = [c \in Call |->
                 IF c \in victims /\ ~(wait[c] /\ pc[c] \in CommandSteps)
                 THEN "crashed" ELSE pc[c]]
     /\ wait' = [c \in Call |-> wait[c] /\ pc'[c] # "crashed"]
     /\ UNCHANGED <<device, idx, ctx, cleanup, outcome, history>>

\* The child process of a dead call ends, with or without its effect.
OrphanEnds(c) ==
  /\ c \in dead /\ pc[c] \in CommandSteps
  /\ \/ UNCHANGED <<device, landed>>
     \/ /\ CommandEffect(c)
        /\ landed' = IF pc[c] = "commit" THEN landed \cup {c} ELSE landed
  /\ Goto(c, "crashed")
  /\ Disturb(c)
  /\ UNCHANGED <<lock, idx, dead, ctx, cleanup, outcome, ran>>

OperatorCommit ==
  /\ \E l \in OperatorLeaf, v \in Val \cup {Absent} : OperatorSets(l, v)
  /\ Disturb(NoCall)
  /\ UNCHANGED <<control, outcome, landed, ran>>

\* Every call is over: nothing more to do.
Terminated ==
  /\ \A c \in Call : pc[c] \in Over
  /\ UNCHANGED vars

-----------------------------------------------------------------------------
CallStep(c) ==
  \/ Begin(c) \/ Enter(c) \/ TryLock(c) \/ LockRetry(c) \/ LockCancelled(c)
  \/ LockFails(c) \/ Start(c) \/ StartRefused(c) \/ GetEnvEnds(c) \/ SetupEnds(c)
  \/ DeleteEnds(c) \/ SetEnds(c) \/ CommitEnds(c) \/ SaveEnds(c)
  \/ DiscardEnds(c) \/ CloseEnds(c) \/ Release(c)

Next ==
  \/ \E c \in Call : CallStep(c) \/ Cancel(c) \/ CleanupTimeout(c) \/ OrphanEnds(c)
  \/ \E s \in Sid : Crash(s)
  \/ OperatorCommit
  \/ Terminated

Spec == Init /\ [][Next]_vars

\* What the program itself guarantees: a statement of its own is eventually
\* executed, select takes the context's branch if it keeps being offered, a
\* child process whose context is done is killed, a cleanup context expires.
\* Nothing bounds a command whose context is live.
KilledEnds(c) ==
  /\ CtxOf(c) = "done"
  /\ \/ GetEnvEnds(c) \/ SetupEnds(c) \/ DeleteEnds(c) \/ SetEnds(c)
     \/ CommitEnds(c) \/ SaveEnds(c) \/ DiscardEnds(c) \/ CloseEnds(c)
OwnStep(c) ==
  \/ Enter(c) \/ TryLock(c) \/ LockRetry(c) \/ Start(c) \/ StartRefused(c) \/ Release(c)
Fairness ==
  \A c \in Call : /\ WF_vars(OwnStep(c))
                  /\ SF_vars(LockCancelled(c))
                  /\ WF_vars(KilledEnds(c))
                  /\ WF_vars(CleanupTimeout(c))
FairSpec == Spec /\ Fairness

-----------------------------------------------------------------------------
\* Properties.

Holding(c) == pc[c] \in LockedSteps /\ c \notin dead

\* At most one live call is between Lock and release, cleanup included, and it
\* is the one the lock file knows: two goroutines of one process share a
\* session identifier, so anything less would mix their candidates.
MutualExclusion ==
  \A c \in Call : Holding(c) <=> lock = c

SetIn(p, l) == \E k \in DOMAIN p.sets : p.sets[k].leaf = l
Managed(p, l) == \E k \in DOMAIN p.dels : l \in Under[p.dels[k]]
LastSet(p, l) ==
  p.sets[CHOOSE k \in DOMAIN p.sets :
           /\ p.sets[k].leaf = l
           /\ \A j \in DOMAIN p.sets : p.sets[j].leaf = l => j <= k].val

\* What plan p makes of leaf l of configuration conf: the last value it sets,
\* nothing below the roots it resets, and what was there elsewhere.
Desired(p, conf, l) ==
  IF SetIn(p, l) THEN LastSet(p, l) ELSE IF Managed(p, l) THEN Absent ELSE conf[l]

\* A commit that reaches the device makes it exactly what the plan asks for, on
\* every leaf nobody else touched while the session was open: no command of the
\* plan is lost, repeated out of order or mixed with another call's, even when
\* my_delete reports a root with nothing to delete.
CommitReplaces ==
  [][\A c \in landed' \ landed : \A l \in Leaf \ foreign[c] :
        running'[l] = Desired(PlanOf[c], running, l)]_vars

\* Plan p asks for value v of leaf l by one of its commands.
Asked(p, l, v) ==
  \/ \E k \in DOMAIN p.sets : p.sets[k].leaf = l /\ p.sets[k].val = v
  \/ v = Absent /\ Managed(p, l)

\* The other calls whose edits a commit of c may find in its candidate: a process
\* with c's identifier was killed, or answered that it could neither discard nor
\* tear down.
LeavesEdits(d, c) ==
  /\ d # c /\ SidOf[d] = SidOf[c]
  /\ d \in dead \/ c \in dead \/ {"discard", "close"} \subseteq notes[d]

\* On the leaves somebody else touched while the session was open, a commit
\* enforces its plan, or keeps what is running there, or carries out a command of
\* a call of the same process id that was killed or whose cleanup was reported as
\* failed: leftovers of dead sessions and orphaned commands can add whole
\* commands of their own plans, and nobody else's edits get in.
CommitAccounted ==
  [][\A c \in landed' \ landed : \A l \in foreign[c] :
        \/ running'[l] \in {Desired(PlanOf[c], running, l), running[l]}
        \/ \E d \in Call : LeavesEdits(d, c) /\ Asked(PlanOf[d], l, running'[l])]_vars

\* The saved configuration is written only for a call that has committed and
\* asked for it, and on the leaves of its plan that nobody else touched it is
\* what that plan asks for: the lock is held from commit to save.
SaveOwnCommit ==
  [][saved' # saved =>
       \E c \in landed : /\ PlanOf[c].save
                         /\ \A l \in Leaf \ foreign[c] :
                              SetIn(PlanOf[c], l) \/ Managed(PlanOf[c], l) =>
                                saved'[l] = Desired(PlanOf[c], running, l)]_vars

\* Applied=true is returned only for a commit that reached the device, and a
\* commit that did is returned as Applied=false only if the context was done
\* while my_commit ran; a failed call that was never cancelled left the running
\* configuration alone.
AppliedTruthful ==
  \A c \in Call : /\ applied[c] => c \in landed
                  /\ c \in landed /\ ~applied[c] /\ c \notin dead /\ pc[c] # "commit"
                       => ctx[c] = "done" /\ code[c] \in {"commit_failed", "executor_failed"}

\* The code a caller branches on says how far the call got: delete, set and
\* commit failures are never Applied, save_failed always is and never Saved, and
\* no error means committed, saved if the plan says so, discarded never and torn
\* down.
CodeTellsOutcome ==
  \A c \in Call : pc[c] = "returned" =>
    /\ code[c] \in {"delete_failed", "set_failed", "commit_failed"} => ~applied[c]
    /\ code[c] = "save_failed" => applied[c] /\ ~persisted[c]
    /\ code[c] = "ok" => /\ applied[c] /\ notes[c] = {}
                         /\ persisted[c] = PlanOf[c].save
                         /\ ran[c] = {"close"}

\* discard, close and lock release failures never replace the code of the
\* failure that came first.
PrimaryCodeKept ==
  [][\A c \in Call : code[c] # "ok" => code'[c] = code[c]]_vars

\* Every path out of an open session that did not commit starts my_discard, and
\* no path does after a commit.
DiscardIffUncommitted ==
  \A c \in Call : pc[c] \in {"release", "returned"} /\ (ran[c] # {} \/ notes[c] \ {"release"} # {}) =>
    ("discard" \in ran[c] <=> ~applied[c])

\* A call that was cancelled before it had a session, as far as it knows: its
\* setupSession may have taken effect when it was killed.
CutShort(c) ==
  /\ pc[c] \in {"release", "returned"} /\ ran[c] = {}
  /\ ctx[c] = "done" /\ code[c] = "executor_failed"

\* When no call of a process is in its session, edits are left under its id only
\* if it was killed, or a call returned with both its discard and its teardown
\* reported as failed; and the session is still open only if it was killed, a
\* teardown was reported as failed, or a call was cut short in setupSession.
LeftoversReported ==
  \A s \in Sid :
    LET Calls == {c \in Call : SidOf[c] = s} IN
    (\A c \in Calls : ~InSession(c)) =>
      /\ cand[s].edits # NoEdits =>
           \E c \in Calls : c \in dead \/ {"discard", "close"} \subseteq notes[c]
      /\ cand[s].open =>
           \E c \in Calls : c \in dead \/ "close" \in notes[c] \/ CutShort(c)

\* A call whose context is done returns, whatever the other calls and the
\* device do.
CancelledReturns ==
  \A c \in Call : ctx[c] = "done" ~> pc[c] \in Over

\* A cancelled holder of the lock gives it up.
CancelledReleases ==
  \A c \in Call : lock = c /\ ctx[c] = "done" ~> lock # c

\* SPEC.md, failure behaviour: "always run cli-shell-api teardownSession after
\* setup".  A call that ran my_discard had set its session up.
TeardownAttempted ==
  \A c \in Call \ dead : pc[c] = "returned" /\ "discard" \in ran[c] => "close" \in ran[c]

\* SPEC.md, failure behaviour: "context cancellation stops execution and returns
\* a typed executor_failed/apply_failed error".  A command that took effect and
\* failed all the same was stopped by the cancellation, by nothing else.
CancelIsExecutorFailed ==
  [][\A c \in Call : /\ ctx[c] = "done" /\ code[c] = "ok"
                     /\ cand' # cand \/ running' # running
                     => code'[c] \in {"ok", "executor_failed"}]_vars
=============================================================================
