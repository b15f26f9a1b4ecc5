------------------------- MODULE ApplyExecutorProofs -------------------------
(***************************************************************************)
(* Theorems about ApplyExecutor, for any number of calls, processes,       *)
(* plans, roots and leaves: what the lock protects; what a call has in its *)
(* candidate session, and so what its commit makes of the running          *)
(* configuration and its save of the saved one, any process of which may   *)
(* be killed, with orphaned commands and an operator beside them; and that *)
(* ApplyExecutor implements ApplyAtomic for calls of distinct processes    *)
(* that are not killed, on a device nobody else configures.                *)
(***************************************************************************)
EXTENDS ApplyRefinement, TLAPS

-----------------------------------------------------------------------------
\* Types.  A command of the plan is looked up by idx, so that the type of the
\* candidate needs idx to stay in step with pc.
IndexOK ==
  \A c \in Call : /\ idx[c] >= 1
                  /\ pc[c] \in {"getenv", "setup"} => idx[c] = 1
                  /\ pc[c] \in {"idle", "entry", "lock"} => idx[c] = 1
                  /\ pc[c] \in EditSteps => pc[c] = EditStep(PlanOf[c], idx[c])

TypeInv == TypeOK /\ IndexOK

\* A plan is made of deletes, sets and one commit.
LEMMA EditStepType ==
  ASSUME NEW p \in Plan, NEW i \in Nat
  PROVE  EditStep(p, i) \in EditSteps
  BY DEF EditStep, EditSteps

\* Where EditStep says "set", the shifted index is one of the sets.
LEMMA SetRange ==
  ASSUME NEW p \in Plan, NEW i \in Nat, EditStep(p, i) = "set"
  PROVE  /\ Len(p.dels) \in Nat /\ Len(p.sets) \in Nat
         /\ i > Len(p.dels) /\ i <= Len(p.dels) + Len(p.sets)
<1> DEFINE m == Len(p.dels)
           n == Len(p.sets)
<1>1. m \in Nat /\ n \in Nat
  BY DEF Plan
<1>2. ~(i <= m) /\ i <= m + n
  BY DEF EditStep
<1> HIDE DEF m, n
<1>3. i > m /\ i <= m + n
  BY <1>1, <1>2
<1> QED
  BY <1>1, <1>3 DEF m, n

\* The arithmetic of SetRange.
LEMMA ShiftedIndex ==
  ASSUME NEW S, NEW s \in Seq(S), NEW i \in Nat, NEW m \in Nat,
         i > m, i <= m + Len(s)
  PROVE  s[i - m] \in S
  OBVIOUS

\* The command a call is about to run is one of its plan.
LEMMA CurrentSetType ==
  ASSUME TypeInv, NEW c \in Call, pc[c] = "set"
  PROVE  CurrentSet(c).leaf \in Leaf /\ CurrentSet(c).val \in Val
<1> DEFINE p == PlanOf[c]
<1>1. p \in Plan
  BY ExecutorAssumption
<1>2. EditStep(p, idx[c]) = "set" /\ idx[c] \in Nat
  BY DEF TypeInv, TypeOK, IndexOK, EditSteps
<1>3. p.sets \in Seq([leaf : Leaf, val : Val])
  BY <1>1 DEF Plan
<1>4. p.sets[idx[c] - Len(p.dels)] \in [leaf : Leaf, val : Val]
  <2> HIDE DEF p
  <2>1. /\ Len(p.dels) \in Nat
        /\ idx[c] > Len(p.dels) /\ idx[c] <= Len(p.dels) + Len(p.sets)
    BY <1>1, <1>2, SetRange
  <2> QED
    BY <1>2, <1>3, <2>1, ShiftedIndex
<1> QED
  BY <1>4 DEF CurrentSet

\* Whatever a command does to the device, it leaves configurations behind.
LEMMA EffectType ==
  ASSUME TypeInv, NEW c \in Call, CommandEffect(c)
  PROVE  DeviceTypeOK'
<1> USE DEF DeviceTypeOK, Candidate, Overlay, Config
<1>1. DeviceTypeOK /\ SidOf[c] \in Sid
  BY ExecutorAssumption DEF TypeInv, TypeOK
<1>2. NoEdits \in Overlay
  BY DEF NoEdits
<1>3. CASE pc[c] = "getenv" /\ UNCHANGED device
  BY <1>1, <1>3 DEF device
<1>4. CASE SetupSession(SidOf[c])
  BY <1>1, <1>2, <1>4 DEF SetupSession
<1>5. CASE DeleteRoot(SidOf[c], CurrentRoot(c))
  BY <1>1, <1>5 DEF DeleteRoot
<1>6. CASE pc[c] = "set" /\ SetLeaf(SidOf[c], CurrentSet(c).leaf, CurrentSet(c).val)
  <2>1. CurrentSet(c).leaf \in Leaf /\ CurrentSet(c).val \in Val
    BY <1>6, CurrentSetType
  <2> QED
    BY <1>1, <1>6, <2>1 DEF SetLeaf
<1>7. CASE CommitSession(SidOf[c])
  BY <1>1, <1>2, <1>7 DEF CommitSession, Merged
<1>8. CASE SaveRunning(SidOf[c])
  BY <1>1, <1>8 DEF SaveRunning
<1>9. CASE DiscardEdits(SidOf[c])
  BY <1>1, <1>2, <1>9 DEF DiscardEdits
<1>10. CASE TeardownSession(SidOf[c])
  BY <1>1, <1>2, <1>10 DEF TeardownSession
<1> QED
  BY <1>3, <1>4, <1>5, <1>6, <1>7, <1>8, <1>9, <1>10 DEF CommandEffect

\* The history of foreign changes stays in its type.
LEMMA DisturbType ==
  ASSUME TypeInv, NEW c \in Call \cup {NoCall}, Disturb(c)
  PROVE  foreign' \in [Call -> SUBSET Leaf]
  BY DEF TypeInv, TypeOK, Disturb, Disturbed

\* How a command ends leaves the device and the history well typed.
LEMMA EndsType ==
  ASSUME TypeInv, NEW c \in Call, NEW o, Ends(c, o)
  PROVE  DeviceTypeOK' /\ foreign' \in [Call -> SUBSET Leaf]
<1>1. foreign' \in [Call -> SUBSET Leaf]
  BY DisturbType DEF Ends
<1>2. CASE UNCHANGED device
  BY <1>1, <1>2 DEF TypeInv, TypeOK, DeviceTypeOK, device
<1>3. CASE CommandEffect(c)
  BY <1>1, <1>3, EffectType
<1> QED
  BY <1>1, <1>2, <1>3 DEF Ends

\* The variables that say where a call is and what it will return.
StepTypes ==
  /\ pc \in [Call -> Steps]
  /\ wait \in [Call -> BOOLEAN]
  /\ cleanup \in [Call -> {"live", "done"}]
  /\ code \in [Call -> Codes]
  /\ notes \in [Call -> SUBSET {"discard", "close", "release"}]

\* Moving a call to one of its steps keeps pc and wait in their types.
LEMMA GotoType ==
  ASSUME TypeInv, NEW c \in Call, NEW step \in Steps, Goto(c, step)
  PROVE  pc' \in [Call -> Steps] /\ wait' \in [Call -> BOOLEAN]
  BY DEF TypeInv, TypeOK, Goto

\* The groups of steps nest.
LEMMA StepNames ==
  /\ EditSteps \subseteq Steps /\ CleanupSteps \subseteq Steps
  /\ {"idle", "entry", "lock", "getenv", "setup", "save", "release", "returned"} \subseteq Steps
  BY DEF Steps, LockedSteps, CommandSteps, SessionSteps, CleanupSteps, EditSteps, Over

\* A context error keeps the types of what it changes.
LEMMA ContextErrorType ==
  ASSUME TypeInv, NEW c \in Call, ContextError(c)
  PROVE  StepTypes'
<1>1. PICK step \in Steps : Goto(c, step)
  BY StepNames DEF ContextError, CleanupSteps
<1> QED
  BY <1>1, GotoType DEF ContextError, StepTypes, TypeInv, TypeOK, Codes

\* So does a failed cleanup command.
LEMMA CleanupFailsType ==
  ASSUME TypeInv, NEW c \in Call, CleanupFails(c)
  PROVE  StepTypes'
<1>1. PICK step \in Steps : Goto(c, step)
  BY StepNames DEF CleanupFails, CleanupSteps
<1> QED
  BY <1>1, GotoType DEF CleanupFails, StepTypes, TypeInv, TypeOK, Codes

\* So does a failed delete, set or commit.
LEMMA EditFailsType ==
  ASSUME TypeInv, NEW c \in Call, NEW o, pc[c] \in EditSteps, EditFails(c, o)
  PROVE  StepTypes'
<1>1. CASE ContextError(c)
  BY <1>1, ContextErrorType
<1>2. CASE ~ContextError(c)
  <2>1. Goto(c, "fail_discard")
    BY <1>2 DEF EditFails
  <2>2. FailureOf[pc[c]] \in Codes
    BY DEF FailureOf, Codes, EditSteps
  <2> QED
    BY <1>2, <2>1, <2>2, GotoType, StepNames
    DEF EditFails, StepTypes, TypeInv, TypeOK, CleanupSteps
<1> QED
  BY <1>1, <1>2

\* So does going on to the next command of the plan.
LEMMA NextEditType ==
  ASSUME TypeInv, NEW c \in Call, NextEdit(c)
  PROVE  StepTypes' /\ idx' \in [Call -> Nat]
<1>1. idx[c] + 1 \in Nat /\ PlanOf[c] \in Plan
  BY ExecutorAssumption DEF TypeInv, TypeOK
<1>2. EditStep(PlanOf[c], idx[c] + 1) \in Steps
  BY <1>1, EditStepType, StepNames
<1> QED
  BY <1>1, <1>2, GotoType DEF NextEdit, StepTypes, TypeInv, TypeOK

\* The steps of one call keep the types.
LEMMA CallStepType ==
  ASSUME TypeInv, NEW c \in Call, CallStep(c)
  PROVE  TypeOK'
<1> DEFINE Rest == /\ lock \in Call \cup {NoCall}
                    /\ idx \in [Call -> Nat]
                    /\ dead \subseteq Call
                    /\ ctx \in [Call -> {"live", "done"}]
                    /\ applied \in [Call -> BOOLEAN]
                    /\ persisted \in [Call -> BOOLEAN]
                    /\ landed \subseteq Call
                    /\ ran \in [Call -> SUBSET {"discard", "close"}]
<1>a. TypeOK /\ Rest /\ StepTypes /\ DeviceTypeOK /\ foreign \in [Call -> SUBSET Leaf]
  BY DEF TypeInv, TypeOK, StepTypes
<1>b. SUFFICES Rest' /\ StepTypes' /\ DeviceTypeOK' /\ foreign' \in [Call -> SUBSET Leaf]
  BY DEF TypeOK, StepTypes
<1>c. ASSUME UNCHANGED device PROVE DeviceTypeOK'
  BY <1>a, <1>c DEF device, DeviceTypeOK
<1> USE <1>a
<1>1. CASE Begin(c)
  BY <1>1, <1>c, GotoType, StepNames DEF Begin, outcome, history, StepTypes
<1>2. CASE Enter(c)
  BY <1>2, <1>c, GotoType, StepNames
  DEF Enter, ReturnUnlocked, outcome, history, StepTypes, Codes
<1>3. CASE TryLock(c)
  BY <1>3, <1>c, GotoType, StepNames DEF TryLock, outcome, history, StepTypes
<1>4. CASE LockRetry(c)
  BY <1>4, <1>c DEF LockRetry, outcome, history, StepTypes
<1>5. CASE LockCancelled(c)
  BY <1>5, <1>c, GotoType, StepNames
  DEF LockCancelled, ReturnUnlocked, history, StepTypes, Codes
<1>6. CASE LockFails(c)
  BY <1>6, <1>c, GotoType, StepNames
  DEF LockFails, ReturnUnlocked, history, StepTypes, Codes
<1>7. CASE Start(c)
  BY <1>7, <1>c DEF Start, outcome, history, StepTypes
<1>8. CASE StartRefused(c)
  BY <1>8, <1>c, CleanupFailsType, ContextErrorType DEF StartRefused, history
<1>9. CASE GetEnvEnds(c)
  BY <1>9, EndsType, GotoType, StepNames, ContextErrorType DEF GetEnvEnds, StepTypes
<1>10. CASE SetupEnds(c)
  <2>1. EditStep(PlanOf[c], idx[c]) \in Steps
    BY EditStepType, ExecutorAssumption, StepNames
  <2> QED
    BY <1>10, <2>1, EndsType, GotoType, ContextErrorType DEF SetupEnds, StepTypes
<1>11. CASE DeleteEnds(c)
  BY <1>11, <1>c, EndsType, NextEditType, EditFailsType DEF DeleteEnds, At, EditSteps
<1>12. CASE SetEnds(c)
  BY <1>12, EndsType, NextEditType, EditFailsType DEF SetEnds, At, EditSteps
<1>13. CASE CommitEnds(c)
  <2>1. PICK o \in Outcomes(c) :
          /\ Ends(c, o)
          /\ landed' = IF o = "fail" THEN landed ELSE landed \cup {c}
          /\ \/ /\ applied' = [applied EXCEPT ![c] = TRUE]
                /\ Goto(c, IF PlanOf[c].save THEN "save" ELSE "close")
                /\ UNCHANGED <<cleanup, code, notes>>
             \/ EditFails(c, o) /\ UNCHANGED applied
    BY <1>13 DEF CommitEnds
  <2>2. DeviceTypeOK' /\ foreign' \in [Call -> SUBSET Leaf]
    BY <2>1, EndsType
  <2>3. Rest'
    BY <1>13, <2>1 DEF CommitEnds
  <2>4. CASE EditFails(c, o)
    BY <1>13, <2>2, <2>3, <2>4, EditFailsType DEF CommitEnds, At, EditSteps
  <2>5. CASE ~EditFails(c, o)
    <3>1. PICK step \in {"save", "close"} : Goto(c, step)
      BY <2>1, <2>5
    <3>2. pc' \in [Call -> Steps] /\ wait' \in [Call -> BOOLEAN]
      BY <3>1, GotoType, StepNames DEF CleanupSteps
    <3> QED
      BY <2>1, <2>2, <2>3, <2>5, <3>2 DEF StepTypes
  <2> QED
    BY <2>4, <2>5
<1>14. CASE SaveEnds(c)
  <2>1. PICK o \in Outcomes(c) :
          /\ Ends(c, o)
          /\ \/ /\ persisted' = [persisted EXCEPT ![c] = TRUE]
                /\ Goto(c, "close")
                /\ UNCHANGED <<cleanup, code, notes>>
             \/ ContextError(c) /\ UNCHANGED persisted
             \/ /\ code' = [code EXCEPT ![c] = FailureOf[pc[c]]]
                /\ Goto(c, "close")
                /\ UNCHANGED <<cleanup, notes, persisted>>
    BY <1>14 DEF SaveEnds
  <2>2. DeviceTypeOK' /\ foreign' \in [Call -> SUBSET Leaf]
    BY <2>1, EndsType
  <2>3. Rest'
    BY <1>14, <2>1 DEF SaveEnds
  <2>4. CASE ContextError(c)
    BY <2>2, <2>3, <2>4, ContextErrorType
  <2>5. CASE Goto(c, "close")
    <3>1. pc' \in [Call -> Steps] /\ wait' \in [Call -> BOOLEAN]
      BY <2>5, GotoType, StepNames DEF CleanupSteps
    <3>2. FailureOf[pc[c]] \in Codes
      BY <1>14 DEF SaveEnds, At, FailureOf, Codes
    <3>3. CASE ContextError(c)
      BY <2>4, <3>3
    <3>4. CASE ~ContextError(c)
      BY <2>1, <2>2, <2>3, <3>1, <3>2, <3>4 DEF StepTypes
    <3> QED
      BY <3>3, <3>4
  <2> QED
    BY <2>1, <2>4, <2>5
<1>15. CASE DiscardEnds(c)
  BY <1>15, EndsType, GotoType, StepNames, CleanupFailsType
  DEF DiscardEnds, CleanupSteps, StepTypes
<1>16. CASE CloseEnds(c)
  BY <1>16, EndsType, GotoType, StepNames, CleanupFailsType DEF CloseEnds, StepTypes
<1>17. CASE Release(c)
  BY <1>17, <1>c, GotoType, StepNames DEF Release, Forget, StepTypes, Codes
<1> QED
  BY <1>1, <1>2, <1>3, <1>4, <1>5, <1>6, <1>7, <1>8, <1>9, <1>10, <1>11, <1>12,
     <1>13, <1>14, <1>15, <1>16, <1>17 DEF CallStep

\* So does the death of a process.
LEMMA CrashType ==
  ASSUME TypeInv, NEW s \in Sid, Crash(s)
  PROVE  TypeOK'
<1>1. pc' \in [Call -> Steps] /\ wait' \in [Call -> BOOLEAN]
  BY DEF Crash, TypeInv, TypeOK, Steps, Over
<1> QED
  BY <1>1 DEF Crash, TypeInv, TypeOK, DeviceTypeOK, device, outcome, history

\* So does the end of a child process that outlived it.
LEMMA OrphanType ==
  ASSUME TypeInv, NEW c \in Call, OrphanEnds(c)
  PROVE  TypeOK'
<1>1. DeviceTypeOK'
  <2>1. CASE UNCHANGED device
    BY <2>1 DEF TypeInv, TypeOK, DeviceTypeOK, device
  <2>2. CASE CommandEffect(c)
    BY <2>2, EffectType
  <2> QED
    BY <2>1, <2>2 DEF OrphanEnds
<1>2. foreign' \in [Call -> SUBSET Leaf]
  BY DisturbType DEF OrphanEnds
<1>3. pc' \in [Call -> Steps] /\ wait' \in [Call -> BOOLEAN]
  BY GotoType DEF OrphanEnds, Steps, Over
<1>4. landed' \subseteq Call
  BY DEF OrphanEnds, TypeInv, TypeOK
<1> QED
  BY <1>1, <1>2, <1>3, <1>4 DEF OrphanEnds, TypeInv, TypeOK, outcome

\* So does a commit by somebody else.
LEMMA OperatorType ==
  ASSUME TypeInv, OperatorCommit
  PROVE  TypeOK'
<1>1. DeviceTypeOK'
  <2>1. PICK l \in Leaf, v \in Val \cup {Absent} : OperatorSets(l, v)
    BY ExecutorAssumption DEF OperatorCommit
  <2>2. running' \in Config
    BY <2>1 DEF OperatorSets, TypeInv, TypeOK, DeviceTypeOK, Config
  <2> QED
    BY <2>1, <2>2 DEF OperatorSets, TypeInv, TypeOK, DeviceTypeOK
<1>2. foreign' \in [Call -> SUBSET Leaf]
  BY DisturbType DEF OperatorCommit
<1> QED
  BY <1>1, <1>2 DEF OperatorCommit, TypeInv, TypeOK, control, outcome

\* idx stays in step with pc.
LEMMA IndexStep ==
  ASSUME TypeInv, [Next]_vars
  PROVE  IndexOK'
<1> USE DEF TypeInv, TypeOK, IndexOK, At, Goto, EditSteps
<1>1. ASSUME NEW c \in Call, CallStep(c) PROVE IndexOK'
  <2>1. CASE Begin(c) \/ Enter(c) \/ TryLock(c) \/ LockRetry(c) \/ LockCancelled(c) \/ LockFails(c)
    BY <2>1 DEF Begin, Enter, TryLock, LockRetry, LockCancelled, LockFails, ReturnUnlocked
  <2>2. CASE Start(c) \/ StartRefused(c)
    BY <2>2 DEF Start, StartRefused, ContextError, CleanupFails
  <2>3. CASE GetEnvEnds(c) \/ SetupEnds(c)
    BY <2>3 DEF GetEnvEnds, SetupEnds, ContextError
  <2>4. CASE DeleteEnds(c) \/ SetEnds(c) \/ CommitEnds(c)
    <3>1. CASE NextEdit(c)
      <4>1. EditStep(PlanOf[c], idx[c] + 1) \in EditSteps /\ idx[c] + 1 \in Nat
        BY EditStepType, ExecutorAssumption
      <4> QED
        BY <3>1, <4>1 DEF NextEdit
    <3>2. CASE UNCHANGED idx /\ \E o : EditFails(c, o)
      BY <3>2 DEF EditFails, ContextError
    <3>3. CASE CommitEnds(c)
      BY <3>3 DEF CommitEnds, EditFails, ContextError
    <3> QED
      BY <2>4, <3>1, <3>2, <3>3 DEF DeleteEnds, SetEnds
  <2>5. CASE SaveEnds(c) \/ DiscardEnds(c) \/ CloseEnds(c) \/ Release(c)
    BY <2>5 DEF SaveEnds, DiscardEnds, CloseEnds, Release, ContextError, CleanupFails, Forget
  <2> QED
    BY <1>1, <2>1, <2>2, <2>3, <2>4, <2>5 DEF CallStep
<1>2. ASSUME NEW c \in Call, Cancel(c) \/ CleanupTimeout(c) \/ OrphanEnds(c) PROVE IndexOK'
  BY <1>2 DEF Cancel, CleanupTimeout, OrphanEnds
<1>3. ASSUME NEW s \in Sid, Crash(s) PROVE IndexOK'
  BY <1>3 DEF Crash
<1>4. CASE OperatorCommit
  BY <1>4 DEF OperatorCommit, control
<1>5. CASE UNCHANGED vars
  BY <1>5 DEF vars, control
<1> QED
  BY <1>1, <1>2, <1>3, <1>4, <1>5 DEF Next, Terminated

\* The inductive invariant behind all the theorems of this module.
LEMMA TypeInvariant == Spec => []TypeInv
<1>1. Init => TypeInv
  BY ConfigAssumption
  DEF Init, DeviceInit, NoEdits, TypeInv, TypeOK, DeviceTypeOK, IndexOK, Config,
      Overlay, Candidate, Steps, Codes, EditSteps
<1>2. TypeInv /\ [Next]_vars => TypeInv'
  <2> SUFFICES ASSUME TypeInv, [Next]_vars PROVE TypeOK' /\ IndexOK'
    BY DEF TypeInv
  <2>1. IndexOK'
    BY IndexStep
  <2>2. ASSUME NEW c \in Call, Cancel(c) \/ CleanupTimeout(c) PROVE TypeOK'
    BY <2>2 DEF Cancel, CleanupTimeout, TypeInv, TypeOK, DeviceTypeOK, device, outcome, history
  <2>3. CASE UNCHANGED vars
    <3>1. UNCHANGED <<device, control, outcome, history>>
      BY <2>3 DEF vars
    <3>2. DeviceTypeOK'
      BY <3>1 DEF device, TypeInv, TypeOK, DeviceTypeOK
    <3>3. UNCHANGED control /\ UNCHANGED outcome /\ UNCHANGED history
      BY <3>1
    <3> QED
      BY <2>1, <3>2, <3>3 DEF control, outcome, history, TypeInv, TypeOK
  <2> QED
    BY <2>1, <2>2, <2>3, CallStepType, OrphanType, CrashType, OperatorType
    DEF Next, Terminated
<1> QED
  BY <1>1, <1>2, PTL DEF Spec

\* Every variable stays in its type, so the configurations stay total and a
\* command of the plan that is looked up by position is always there.
THEOREM TypeCorrect == Spec => []TypeOK
  BY TypeInvariant, PTL DEF TypeInv

-----------------------------------------------------------------------------
\* Mutual exclusion: the lock file names exactly the live call that is between
\* Lock and release.

\* The lock names the one live call past Lock: each step keeps it so.
LEMMA LockStep ==
  ASSUME TypeInv, MutualExclusion, [Next]_vars
  PROVE  MutualExclusion'
<1> USE DEF TypeInv, TypeOK, MutualExclusion, Holding, At, Goto, LockedSteps,
            CommandSteps, SessionSteps, CleanupSteps, EditSteps
<1>1. ASSUME NEW c \in Call, CallStep(c) PROVE MutualExclusion'
  <2>1. CASE Begin(c) \/ Enter(c) \/ LockRetry(c) \/ LockCancelled(c) \/ LockFails(c)
    BY <2>1 DEF Begin, Enter, LockRetry, LockCancelled, LockFails, ReturnUnlocked
  <2>2. CASE TryLock(c)
    BY <2>2, ExecutorAssumption DEF TryLock
  <2>3. CASE Start(c) \/ StartRefused(c)
    BY <2>3 DEF Start, StartRefused, ContextError, CleanupFails
  <2>4. CASE GetEnvEnds(c)
    BY <2>4 DEF GetEnvEnds, ContextError
  <2>5. CASE SetupEnds(c)
    <3>1. EditStep(PlanOf[c], idx[c]) \in EditSteps
      BY EditStepType, ExecutorAssumption
    <3> QED
      BY <2>5, <3>1 DEF SetupEnds, ContextError
  <2>6. CASE DeleteEnds(c) \/ SetEnds(c) \/ CommitEnds(c)
    <3>1. CASE NextEdit(c)
      <4>1. EditStep(PlanOf[c], idx[c] + 1) \in EditSteps
        BY EditStepType, ExecutorAssumption
      <4> QED
        BY <2>6, <3>1, <4>1 DEF NextEdit, DeleteEnds, SetEnds, CommitEnds
    <3>2. CASE \E o : EditFails(c, o)
      BY <2>6, <3>2 DEF EditFails, ContextError, DeleteEnds, SetEnds, CommitEnds
    <3>3. CASE CommitEnds(c)
      BY <3>3, <3>2 DEF CommitEnds
    <3> QED
      BY <2>6, <3>1, <3>2, <3>3 DEF DeleteEnds, SetEnds
  <2>7. CASE SaveEnds(c) \/ DiscardEnds(c) \/ CloseEnds(c)
    BY <2>7 DEF SaveEnds, DiscardEnds, CloseEnds, ContextError, CleanupFails
  <2>8. CASE Release(c)
    BY <2>8, ExecutorAssumption DEF Release
  <2> QED
    BY <1>1, <2>1, <2>2, <2>3, <2>4, <2>5, <2>6, <2>7, <2>8 DEF CallStep
<1>2. ASSUME NEW c \in Call, Cancel(c) \/ CleanupTimeout(c) PROVE MutualExclusion'
  BY <1>2 DEF Cancel, CleanupTimeout
<1>3. ASSUME NEW c \in Call, OrphanEnds(c) PROVE MutualExclusion'
  BY <1>3 DEF OrphanEnds
<1>4. ASSUME NEW s \in Sid, Crash(s) PROVE MutualExclusion'
  BY <1>4, ExecutorAssumption DEF Crash, Over
<1>5. CASE OperatorCommit
  BY <1>5 DEF OperatorCommit, control
<1>6. CASE UNCHANGED vars
  BY <1>6 DEF vars, control
<1> QED
  BY <1>1, <1>2, <1>3, <1>4, <1>5, <1>6 DEF Next, Terminated

\* Calls of one process or of several never overlap between Lock and release,
\* cleanup after a failure and the death of a process included.
THEOREM Exclusion == Spec => []MutualExclusion
<1>1. Init => MutualExclusion
  BY ExecutorAssumption
  DEF Init, MutualExclusion, Holding, LockedSteps, CommandSteps, SessionSteps,
      CleanupSteps, EditSteps
<1>2. TypeInv /\ MutualExclusion /\ [Next]_vars => MutualExclusion'
  BY LockStep
<1> QED
  BY <1>1, <1>2, TypeInvariant, PTL DEF Spec

-----------------------------------------------------------------------------
\* Truthfulness of the result.  Until its commit has ended a live call has
\* neither landed, nor claimed to, nor failed; a save runs only after a commit
\* that was claimed.
BeforeCommit == {"idle", "entry", "lock", "getenv", "setup", "delete", "set", "commit"}

OutcomeInv ==
  /\ \A c \in Call \ dead :
       /\ pc[c] \in BeforeCommit => c \notin landed /\ ~applied[c] /\ code[c] = "ok"
       /\ pc[c] = "save" => applied[c] /\ code[c] = "ok"
  /\ AppliedTruthful

\* Each step keeps OutcomeInv.
LEMMA OutcomeStep ==
  ASSUME TypeInv, OutcomeInv, [Next]_vars
  PROVE  OutcomeInv'
<1> USE DEF TypeInv, TypeOK, OutcomeInv, AppliedTruthful, At, Goto, BeforeCommit,
            CleanupSteps, EditSteps
<1>1. ASSUME NEW c \in Call, CallStep(c) PROVE OutcomeInv'
  <2>1. CASE Begin(c) \/ Enter(c) \/ TryLock(c) \/ LockRetry(c) \/ LockCancelled(c) \/ LockFails(c)
    BY <2>1 DEF Begin, Enter, TryLock, LockRetry, LockCancelled, LockFails,
                ReturnUnlocked, outcome, history
  <2>2. CASE Start(c)
    BY <2>2 DEF Start, outcome
  <2>3. CASE StartRefused(c)
    BY <2>3 DEF StartRefused, ContextError, CleanupFails, CommandSteps, SessionSteps, history
  <2>4. CASE GetEnvEnds(c)
    BY <2>4 DEF GetEnvEnds, ContextError
  <2>5. CASE SetupEnds(c)
    <3>1. EditStep(PlanOf[c], idx[c]) \in EditSteps
      BY EditStepType, ExecutorAssumption
    <3> QED
      BY <2>5, <3>1 DEF SetupEnds, ContextError
  <2>6. CASE DeleteEnds(c) \/ SetEnds(c)
    <3>1. UNCHANGED <<dead, ctx, landed, applied>> /\ pc[c] \in {"delete", "set"} /\ c \notin dead
      BY <2>6 DEF DeleteEnds, SetEnds
    <3>2. CASE NextEdit(c)
      <4>1. EditStep(PlanOf[c], idx[c] + 1) \in EditSteps
        BY EditStepType, ExecutorAssumption
      <4> QED
        BY <3>1, <3>2, <4>1 DEF NextEdit
    <3>3. CASE \E o : EditFails(c, o)
      BY <3>1, <3>3 DEF EditFails, ContextError
    <3> QED
      BY <2>6, <3>2, <3>3 DEF DeleteEnds, SetEnds
  <2>7. CASE CommitEnds(c)
    <3>1. PICK o \in Outcomes(c) :
            /\ landed' = IF o = "fail" THEN landed ELSE landed \cup {c}
            /\ \/ /\ o = "ok"
                  /\ applied' = [applied EXCEPT ![c] = TRUE]
                  /\ Goto(c, IF PlanOf[c].save THEN "save" ELSE "close")
                  /\ UNCHANGED <<cleanup, code, notes>>
               \/ EditFails(c, o) /\ UNCHANGED applied
      BY <2>7 DEF CommitEnds
    <3>2. /\ pc[c] = "commit" /\ c \notin dead
          /\ code[c] = "ok" /\ ~applied[c] /\ c \notin landed
          /\ UNCHANGED <<dead, ctx>>
      BY <2>7 DEF CommitEnds
    <3>3. o \in {"lost", "late"} => ctx[c] = "done"
      BY <3>2 DEF Outcomes, CtxOf
    <3>4. CASE o = "ok"
      BY <3>1, <3>2, <3>4 DEF EditFails
    <3>5. CASE o = "late"
      BY <3>1, <3>2, <3>3, <3>5 DEF EditFails, ContextError
    <3>6. CASE o \in {"fail", "lost"}
      BY <3>1, <3>2, <3>3, <3>6 DEF EditFails, FailureOf
    <3> QED
      BY <3>1, <3>4, <3>5, <3>6 DEF Outcomes
  <2>8. CASE SaveEnds(c)
    BY <2>8 DEF SaveEnds, ContextError
  <2>9. CASE DiscardEnds(c) \/ CloseEnds(c)
    BY <2>9 DEF DiscardEnds, CloseEnds, CleanupFails
  <2>10. CASE Release(c)
    BY <2>10 DEF Release
  <2> QED
    BY <1>1, <2>1, <2>2, <2>3, <2>4, <2>5, <2>6, <2>7, <2>8, <2>9, <2>10 DEF CallStep
<1>2. ASSUME NEW c \in Call, Cancel(c) \/ CleanupTimeout(c) PROVE OutcomeInv'
  BY <1>2 DEF Cancel, CleanupTimeout, outcome, history
<1>3. ASSUME NEW c \in Call, OrphanEnds(c) PROVE OutcomeInv'
  BY <1>3 DEF OrphanEnds, outcome
<1>4. ASSUME NEW s \in Sid, Crash(s) PROVE OutcomeInv'
  BY <1>4 DEF Crash, outcome, history
<1>5. CASE OperatorCommit
  BY <1>5 DEF OperatorCommit, control, outcome
<1>6. CASE UNCHANGED vars
  BY <1>6 DEF vars, control, outcome, history
<1> QED
  BY <1>1, <1>2, <1>3, <1>4, <1>5, <1>6 DEF Next, Terminated

\* OutcomeInv always holds.
LEMMA OutcomeInvariant == Spec => []OutcomeInv
<1>1. Init => OutcomeInv
  BY DEF Init, OutcomeInv, AppliedTruthful, BeforeCommit
<1>2. TypeInv /\ OutcomeInv /\ [Next]_vars => OutcomeInv'
  BY OutcomeStep
<1> QED
  BY <1>1, <1>2, TypeInvariant, PTL DEF Spec

\* Applied=true means that the commit reached the device; Applied=false after a
\* commit that did is confined to calls cancelled while my_commit ran.
THEOREM ResultTruthful == Spec => []AppliedTruthful
  BY OutcomeInvariant, PTL DEF OutcomeInv

\* The code of the first failure is the code that is returned: no discard,
\* teardown or lock release failure replaces it.
THEOREM FirstFailureKept == Spec => PrimaryCodeKept
<1>1. TypeInv /\ OutcomeInv /\ [Next]_vars =>
        [\A c \in Call : code[c] # "ok" => code'[c] = code[c]]_vars
  <2> SUFFICES ASSUME TypeInv, OutcomeInv, Next, NEW d \in Call, code[d] # "ok"
               PROVE  code'[d] = code[d]
    OBVIOUS
  <2> USE DEF TypeInv, TypeOK, OutcomeInv, At, BeforeCommit, EditSteps
  <2>1. ASSUME NEW c \in Call, CallStep(c) PROVE code'[d] = code[d]
    <3>1. CASE Begin(c) \/ Enter(c) \/ TryLock(c) \/ LockRetry(c) \/ LockCancelled(c) \/ LockFails(c)
      BY <3>1 DEF Begin, Enter, TryLock, LockRetry, LockCancelled, LockFails,
                  ReturnUnlocked, outcome
    <3>2. CASE Start(c)
      BY <3>2 DEF Start, outcome
    <3>3. CASE StartRefused(c)
      BY <3>3 DEF StartRefused, ContextError, CleanupFails, CommandSteps, SessionSteps
    <3>4. CASE GetEnvEnds(c) \/ SetupEnds(c)
      BY <3>4 DEF GetEnvEnds, SetupEnds, ContextError
    <3>5. CASE DeleteEnds(c) \/ SetEnds(c) \/ CommitEnds(c)
      BY <3>5 DEF DeleteEnds, SetEnds, CommitEnds, EditFails, NextEdit, ContextError
    <3>6. CASE SaveEnds(c)
      BY <3>6 DEF SaveEnds, ContextError
    <3>7. CASE DiscardEnds(c) \/ CloseEnds(c) \/ Release(c)
      BY <3>7 DEF DiscardEnds, CloseEnds, Release, CleanupFails
    <3> QED
      BY <2>1, <3>1, <3>2, <3>3, <3>4, <3>5, <3>6, <3>7 DEF CallStep
  <2>2. ASSUME NEW c \in Call, Cancel(c) \/ CleanupTimeout(c) \/ OrphanEnds(c)
        PROVE  code'[d] = code[d]
    BY <2>2 DEF Cancel, CleanupTimeout, OrphanEnds, outcome
  <2>3. ASSUME NEW s \in Sid, Crash(s) PROVE code'[d] = code[d]
    BY <2>3 DEF Crash, outcome
  <2>4. CASE OperatorCommit \/ Terminated
    BY <2>4 DEF OperatorCommit, Terminated, vars, outcome
  <2> QED
    BY <2>1, <2>2, <2>3, <2>4 DEF Next
<1> QED
  BY <1>1, TypeInvariant, OutcomeInvariant, PTL DEF Spec, PrimaryCodeKept

-----------------------------------------------------------------------------
\* What the answer of a call says, from the path the call has taken.

\* The code agrees with what was done.
Told(c) ==
  /\ code[c] \in {"delete_failed", "set_failed", "commit_failed"} => ~applied[c]
  /\ code[c] = "save_failed" => applied[c] /\ ~persisted[c]
  /\ code[c] = "ok" => applied[c] /\ notes[c] = {} /\ persisted[c] = PlanOf[c].save

\* Until the save nothing has failed and no cleanup has run; a discard starts
\* with a cleanup context that is live, and only without a commit; a teardown
\* comes after a discard or after a commit.
Path(c) ==
  /\ pc[c] \in BeforeCommit \cup {"save"} =>
       /\ code[c] = "ok" /\ notes[c] = {} /\ ran[c] = {} /\ cleanup[c] = "live"
       /\ ~persisted[c]
       /\ applied[c] = (pc[c] = "save")
  /\ pc[c] = "save" => PlanOf[c].save
  /\ pc[c] \in {"fail_discard", "discard"} =>
       /\ code[c] \notin {"ok", "save_failed"} /\ ~applied[c]
       /\ wait[c] => "discard" \in ran[c]
       /\ ~wait[c] => cleanup[c] = "live"
  /\ pc[c] = "close" => /\ "discard" \in ran[c] <=> ~applied[c]
                        /\ wait[c] => "close" \in ran[c]
  /\ pc[c] \in {"close", "release", "returned"} => Told(c)
  /\ pc[c] \in {"release", "returned"} =>
       /\ ran[c] # {} \/ notes[c] \ {"release"} # {} => ("discard" \in ran[c] <=> ~applied[c])
       /\ code[c] = "ok" => ran[c] = {"close"}

PathInv == \A c \in Call : Path(c)

\* A step of one call leaves the paths of the others alone.
Same(c) ==
  /\ pc'[c] = pc[c] /\ wait'[c] = wait[c] /\ cleanup'[c] = cleanup[c]
  /\ applied'[c] = applied[c] /\ persisted'[c] = persisted[c]
  /\ code'[c] = code[c] /\ notes'[c] = notes[c] /\ ran'[c] = ran[c]

\* What is the same stays true.
LEMMA SamePath ==
  ASSUME NEW c \in Call, Same(c), Path(c)
  PROVE  Path(c)'
  BY DEF Same, Path, Told

\* No action touches the locals of two calls, but the death of a process.
LEMMA OthersSame ==
  ASSUME TypeInv, NEW c \in Call, NEW d \in Call, c # d,
         CallStep(c) \/ Cancel(c) \/ CleanupTimeout(c) \/ OrphanEnds(c)
  PROVE  Same(d)
<1> USE DEF TypeInv, TypeOK, Same, Goto, outcome, history
<1>1. CASE Begin(c) \/ Enter(c) \/ TryLock(c) \/ LockRetry(c) \/ LockCancelled(c) \/ LockFails(c)
  BY <1>1 DEF Begin, Enter, TryLock, LockRetry, LockCancelled, LockFails, ReturnUnlocked
<1>2. CASE Start(c) \/ StartRefused(c)
  BY <1>2 DEF Start, StartRefused, ContextError, CleanupFails
<1>3. CASE GetEnvEnds(c) \/ SetupEnds(c)
  BY <1>3 DEF GetEnvEnds, SetupEnds, ContextError
<1>4. CASE DeleteEnds(c) \/ SetEnds(c) \/ CommitEnds(c)
  BY <1>4 DEF DeleteEnds, SetEnds, CommitEnds, EditFails, NextEdit, ContextError
<1>5. CASE SaveEnds(c) \/ DiscardEnds(c) \/ CloseEnds(c) \/ Release(c)
  BY <1>5 DEF SaveEnds, DiscardEnds, CloseEnds, Release, Forget, ContextError, CleanupFails
<1>6. CASE Cancel(c) \/ CleanupTimeout(c) \/ OrphanEnds(c)
  BY <1>6 DEF Cancel, CleanupTimeout, OrphanEnds
<1> QED BY <1>1, <1>2, <1>3, <1>4, <1>5, <1>6 DEF CallStep

\* A call's own step leads from one part of Path to the next.
LEMMA PathStep ==
  ASSUME TypeInv, NEW c \in Call, Path(c),
         CallStep(c) \/ Cancel(c) \/ CleanupTimeout(c) \/ OrphanEnds(c)
  PROVE  Path(c)'
<1> USE DEF TypeInv, TypeOK, Path, Told, At, Goto, BeforeCommit, CleanupSteps, EditSteps, outcome
<1>1. CASE Begin(c) \/ Enter(c) \/ TryLock(c) \/ LockRetry(c) \/ LockCancelled(c) \/ LockFails(c)
  BY <1>1 DEF Begin, Enter, TryLock, LockRetry, LockCancelled, LockFails, ReturnUnlocked, history
<1>2. CASE Start(c)
  BY <1>2 DEF Start, CommandSteps, SessionSteps
<1>3. CASE StartRefused(c)
  <2>1. CASE pc[c] \in CleanupSteps
    <3>1. pc[c] = "close" /\ ~wait[c]
      BY <1>3, <2>1 DEF StartRefused, CtxOf
    <3>2. /\ pc'[c] = "release" /\ "close" \in notes'[c]
          /\ code'[c] = (IF code[c] = "ok" THEN "executor_failed" ELSE code[c])
          /\ UNCHANGED <<applied, persisted, ran>>
      BY <1>3, <2>1, <3>1 DEF StartRefused, CleanupFails, history
    <3> QED BY <3>1, <3>2
  <2>2. CASE pc[c] \notin CleanupSteps
    BY <1>3, <2>2 DEF StartRefused, ContextError, CommandSteps, SessionSteps, history
  <2> QED BY <2>1, <2>2
<1>4. CASE GetEnvEnds(c)
  BY <1>4 DEF GetEnvEnds, ContextError
<1>5. CASE SetupEnds(c)
  <2>1. EditStep(PlanOf[c], idx[c]) \in EditSteps
    BY EditStepType, ExecutorAssumption
  <2> QED BY <1>5, <2>1 DEF SetupEnds, ContextError
<1>6. CASE DeleteEnds(c) \/ SetEnds(c)
  <2>1. UNCHANGED <<applied, persisted, ran>> /\ pc[c] \in {"delete", "set"}
    BY <1>6 DEF DeleteEnds, SetEnds
  <2>2. CASE NextEdit(c)
    <3>1. EditStep(PlanOf[c], idx[c] + 1) \in EditSteps
      BY EditStepType, ExecutorAssumption
    <3> QED BY <2>1, <2>2, <3>1 DEF NextEdit
  <2>3. CASE \E o : EditFails(c, o)
    BY <2>1, <2>3 DEF EditFails, ContextError, FailureOf
  <2> QED BY <1>6, <2>2, <2>3 DEF DeleteEnds, SetEnds
<1>7. CASE CommitEnds(c)
  <2>1. PlanOf[c].save \in BOOLEAN
    BY ExecutorAssumption DEF Plan
  <2>2. CASE \E o : EditFails(c, o) /\ UNCHANGED applied
    BY <1>7, <2>2 DEF CommitEnds, EditFails, ContextError, FailureOf
  <2>3. CASE /\ applied' = [applied EXCEPT ![c] = TRUE]
             /\ Goto(c, IF PlanOf[c].save THEN "save" ELSE "close")
             /\ UNCHANGED <<cleanup, code, notes>>
    <3>1. UNCHANGED <<persisted, ran>> /\ pc[c] = "commit"
      BY <1>7 DEF CommitEnds
    <3> QED BY <2>1, <2>3, <3>1
  <2> QED BY <1>7, <2>2, <2>3 DEF CommitEnds
<1>8. CASE SaveEnds(c)
  <2>1. /\ pc[c] = "save" /\ applied[c] /\ ~persisted[c] /\ PlanOf[c].save
        /\ code[c] = "ok" /\ notes[c] = {} /\ ran[c] = {}
    BY <1>8 DEF SaveEnds
  <2>2. /\ pc'[c] = "close" /\ ~wait'[c] /\ UNCHANGED <<applied, notes, ran>>
        /\ \/ code'[c] = "ok" /\ persisted'[c] = TRUE
           \/ code'[c] \in {"executor_failed", "save_failed"} /\ UNCHANGED persisted
    BY <1>8, <2>1 DEF SaveEnds, ContextError, FailureOf
  <2>3. PlanOf[c].save = TRUE
    BY <2>1, ExecutorAssumption DEF Plan
  <2> QED BY <2>1, <2>2, <2>3
<1>9. CASE DiscardEnds(c)
  <2>1. /\ pc[c] \in {"fail_discard", "discard"} /\ wait[c]
        /\ UNCHANGED <<applied, persisted, ran>>
    BY <1>9 DEF DiscardEnds, Ends
  <2> QED BY <1>9, <2>1 DEF DiscardEnds, CleanupFails
<1>10. CASE CloseEnds(c)
  <2>1. pc[c] = "close" /\ wait[c] /\ UNCHANGED <<applied, persisted, ran>>
    BY <1>10 DEF CloseEnds, Ends
  <2> QED BY <1>10, <2>1 DEF CloseEnds, CleanupFails
<1>11. CASE Release(c)
  BY <1>11 DEF Release, Forget
<1>12. CASE Cancel(c) \/ CleanupTimeout(c) \/ OrphanEnds(c)
  BY <1>12 DEF Cancel, CleanupTimeout, OrphanEnds, history
<1> QED BY <1>1, <1>2, <1>3, <1>4, <1>5, <1>6, <1>7, <1>8, <1>9, <1>10, <1>11, <1>12 DEF CallStep

\* PathInv always holds.
LEMMA PathInvariant == Spec => []PathInv
<1>1. Init => PathInv
  <2> SUFFICES ASSUME Init, NEW c \in Call PROVE Path(c)
    BY DEF PathInv
  <2>1. /\ pc[c] = "idle" /\ code[c] = "ok" /\ notes[c] = {} /\ ran[c] = {}
        /\ cleanup[c] = "live" /\ persisted[c] = FALSE /\ applied[c] = FALSE
    BY DEF Init
  <2> QED BY <2>1 DEF Path, BeforeCommit
<1>2. TypeInv /\ PathInv /\ [Next]_vars => PathInv'
  <2> SUFFICES ASSUME TypeInv, PathInv, [Next]_vars, NEW d \in Call PROVE Path(d)'
    BY DEF PathInv
  <2>1. Path(d)
    BY DEF PathInv
  <2>2. ASSUME NEW c \in Call, CallStep(c) \/ Cancel(c) \/ CleanupTimeout(c) \/ OrphanEnds(c)
        PROVE  Path(d)'
    BY <2>1, <2>2, OthersSame, SamePath, PathStep
  <2>3. ASSUME NEW s \in Sid, Crash(s) PROVE Path(d)'
    <3>1. pc'[d] \in {pc[d], "crashed"}
      BY <2>3 DEF Crash
    <3>2. wait'[d] <=> (wait[d] /\ pc'[d] # "crashed")
      BY <2>3, Zenon DEF Crash
    <3>3. UNCHANGED <<cleanup, applied, persisted, code, notes, ran>>
      BY <2>3 DEF Crash, history, outcome
    <3> QED BY <2>1, <3>1, <3>2, <3>3 DEF Path, Told, BeforeCommit
  <2>4. CASE OperatorCommit \/ UNCHANGED vars
    BY <2>1, <2>4, SamePath DEF OperatorCommit, vars, control, outcome, history, Same
  <2> QED BY <2>2, <2>3, <2>4 DEF Next, Terminated
<1> QED BY <1>1, <1>2, TypeInvariant, PTL DEF Spec

\* The code of an answer says how far the call got, for every plan and whatever
\* fails after the first failure.
THEOREM CodeTruthful == Spec => []CodeTellsOutcome
<1>1. TypeInv /\ PathInv => CodeTellsOutcome
  BY DEF PathInv, Path, Told, CodeTellsOutcome
<1> QED BY <1>1, TypeInvariant, PathInvariant, PTL

\* A session is discarded if it was not committed, and only then.
THEOREM DiscardedUnlessCommitted == Spec => []DiscardIffUncommitted
<1>1. PathInv => DiscardIffUncommitted
  BY DEF PathInv, Path, DiscardIffUncommitted
<1> QED BY <1>1, PathInvariant, PTL

-----------------------------------------------------------------------------
\* What a call has in its candidate session.

\* Set command k, or the delete of root r, is one of the plan's first n - 1
\* commands and about leaf l.
SetBefore(c, k, l, n) ==
  /\ k \in DOMAIN PlanOf[c].sets
  /\ Len(PlanOf[c].dels) + k < n /\ PlanOf[c].sets[k].leaf = l
DelBefore(c, r, l, n) ==
  r \in DOMAIN PlanOf[c].dels /\ r < n /\ l \in Under[PlanOf[c].dels[r]]

LastIs(c, l, n, e) ==
  \E k \in DOMAIN PlanOf[c].sets :
    /\ SetBefore(c, k, l, n) /\ e = PlanOf[c].sets[k].val
    /\ \A j \in DOMAIN PlanOf[c].sets : SetBefore(c, j, l, n) => j <= k
NoSet(c, l, n) == \A k \in DOMAIN PlanOf[c].sets : ~SetBefore(c, k, l, n)
NoDelete(c, l, n) == \A r \in DOMAIN PlanOf[c].dels : ~DelBefore(c, r, l, n)

\* Edit e is what these commands make of leaf l, whose running value is v: the
\* last value set, or a delete, which is no edit where there is nothing.
Built(c, l, n, e, v) ==
  \/ LastIs(c, l, n, e)
  \/ NoSet(c, l, n) /\ ~NoDelete(c, l, n) /\ (e = Absent \/ (e = Keep /\ v = Absent))
  \/ NoSet(c, l, n) /\ NoDelete(c, l, n) /\ e = Keep

\* The positions and elements of a sequence.
LEMMA SeqElements ==
  ASSUME NEW S, NEW s \in Seq(S)
  PROVE  /\ Len(s) \in Nat /\ DOMAIN s = 1 .. Len(s)
         /\ \A k \in DOMAIN s : s[k] \in S
  OBVIOUS

\* The positions of two sequences one after the other.
LEMMA Positions ==
  ASSUME NEW a \in Nat, NEW b \in Nat, NEW n \in Nat, n > a + b
  PROVE  (\A k \in 1 .. b : a + k < n) /\ (\A r \in 1 .. a : r < n)
  OBVIOUS

\* The lengths and the commands of a plan.
LEMMA PlanTyped ==
  ASSUME NEW c \in Call
  PROVE  /\ Len(PlanOf[c].dels) \in Nat /\ Len(PlanOf[c].sets) \in Nat
         /\ DOMAIN PlanOf[c].dels = 1 .. Len(PlanOf[c].dels)
         /\ DOMAIN PlanOf[c].sets = 1 .. Len(PlanOf[c].sets)
         /\ \A k \in DOMAIN PlanOf[c].sets :
              PlanOf[c].sets[k].leaf \in Leaf /\ PlanOf[c].sets[k].val \in Val
         /\ \A r \in DOMAIN PlanOf[c].dels : PlanOf[c].dels[r] \in Root
<1> DEFINE dels == PlanOf[c].dels
           sets == PlanOf[c].sets
<1>1. dels \in Seq(Root) /\ sets \in Seq([leaf : Leaf, val : Val])
  BY ExecutorAssumption DEF Plan
<1>2. \A k \in DOMAIN sets : sets[k] \in [leaf : Leaf, val : Val]
  BY <1>1, SeqElements
<1>3. \A k \in DOMAIN sets : sets[k].leaf \in Leaf /\ sets[k].val \in Val
  BY <1>2
<1> QED BY <1>1, <1>3, SeqElements

\* Before the first command no leaf is edited.
LEMMA NothingBuilt ==
  ASSUME NEW c \in Call, NEW l, NEW v
  PROVE  Built(c, l, 1, Keep, v)
  BY PlanTyped DEF Built, NoSet, NoDelete, SetBefore, DelBefore

\* A delete adds its root, whether it edits the leaf or finds it absent.
LEMMA DeleteBuilds ==
  ASSUME NEW c \in Call, NEW n \in Nat, n \in DOMAIN PlanOf[c].dels, NEW l, NEW v, NEW e, NEW f,
         l \in Under[PlanOf[c].dels[n]] \/ Built(c, l, n, e, v),
         IF l \in Under[PlanOf[c].dels[n]] THEN f = Absent \/ (f = Keep /\ v = Absent) ELSE f = e
  PROVE  Built(c, l, n + 1, f, v)
<1>1. /\ Len(PlanOf[c].dels) \in Nat /\ n <= Len(PlanOf[c].dels)
      /\ DOMAIN PlanOf[c].sets \subseteq Nat \ {0} /\ DOMAIN PlanOf[c].dels \subseteq Nat
  BY PlanTyped
<1>2. NoSet(c, l, n) /\ NoSet(c, l, n + 1)
  BY <1>1, SMTT(30) DEF NoSet, SetBefore
<1>3. ~LastIs(c, l, n, e)
  BY <1>2 DEF NoSet, LastIs
<1>4. CASE l \in Under[PlanOf[c].dels[n]]
  <2>1. ~NoDelete(c, l, n + 1)
    BY <1>4 DEF NoDelete, DelBefore
  <2> QED BY <1>2, <1>4, <2>1 DEF Built
<1>5. CASE l \notin Under[PlanOf[c].dels[n]]
  <2>1. \A r \in DOMAIN PlanOf[c].dels : DelBefore(c, r, l, n + 1) <=> DelBefore(c, r, l, n)
    BY <1>1, <1>5 DEF DelBefore
  <2>2. NoDelete(c, l, n + 1) <=> NoDelete(c, l, n)
    BY <2>1 DEF NoDelete
  <2> QED BY <1>2, <1>3, <1>5, <2>2 DEF Built
<1> QED BY <1>4, <1>5

\* A set puts its value in place of what was built before.
LEMMA SetBuilds ==
  ASSUME NEW c \in Call, NEW n \in Nat, NEW m, m \in DOMAIN PlanOf[c].sets,
         n = Len(PlanOf[c].dels) + m, NEW l, NEW v, NEW e,
         l = PlanOf[c].sets[m].leaf \/ Built(c, l, n, e, v)
  PROVE  Built(c, l, n + 1, IF l = PlanOf[c].sets[m].leaf THEN PlanOf[c].sets[m].val ELSE e, v)
<1> DEFINE set == PlanOf[c].sets[m]
<1>1. /\ Len(PlanOf[c].dels) \in Nat /\ m \in Nat
      /\ DOMAIN PlanOf[c].sets \subseteq Nat
      /\ \A r \in DOMAIN PlanOf[c].dels : r \in Nat /\ r < n
  BY PlanTyped, SMTT(30)
<1>2. \A k \in DOMAIN PlanOf[c].sets :
        /\ SetBefore(c, k, l, n + 1) <=> SetBefore(c, k, l, n) \/ (k = m /\ l = set.leaf)
        /\ SetBefore(c, k, l, n + 1) => k <= m
  <2> SUFFICES ASSUME NEW k \in DOMAIN PlanOf[c].sets
               PROVE  /\ SetBefore(c, k, l, n + 1) <=> SetBefore(c, k, l, n) \/ (k = m /\ l = set.leaf)
                      /\ SetBefore(c, k, l, n + 1) => k <= m
    OBVIOUS
  <2>1. /\ Len(PlanOf[c].dels) + k < n + 1 <=> Len(PlanOf[c].dels) + k < n \/ k = m
        /\ Len(PlanOf[c].dels) + k < n + 1 => k <= m
    BY <1>1, SMTT(30)
  <2> QED BY <2>1 DEF SetBefore
<1>3. NoDelete(c, l, n + 1) <=> NoDelete(c, l, n)
  BY <1>1 DEF NoDelete, DelBefore
<1>4. CASE l = set.leaf
  <2>1. LastIs(c, l, n + 1, set.val)
    BY <1>2, <1>4 DEF LastIs
  <2> QED BY <1>4, <2>1 DEF Built
<1>5. CASE l # set.leaf
  <2>1. \A k \in DOMAIN PlanOf[c].sets : SetBefore(c, k, l, n + 1) <=> SetBefore(c, k, l, n)
    BY <1>2, <1>5
  <2>2. (LastIs(c, l, n + 1, e) <=> LastIs(c, l, n, e)) /\ (NoSet(c, l, n + 1) <=> NoSet(c, l, n))
    BY <2>1 DEF LastIs, NoSet
  <2> QED BY <1>3, <1>5, <2>2 DEF Built
<1> QED BY <1>4, <1>5

\* The running value matters only where there is no edit.
LEMMA BuiltKept ==
  ASSUME NEW c, NEW l, NEW n, NEW e, NEW v, NEW w, Built(c, l, n, e, v), w = v \/ e # Keep
  PROVE  Built(c, l, n, e, w)
  BY DEF Built

\* What all commands have built is, once committed, what the plan asks for.
LEMMA AllBuilt ==
  ASSUME NEW c \in Call, NEW n \in Nat, n > Len(PlanOf[c].dels) + Len(PlanOf[c].sets),
         NEW l \in Leaf, NEW conf \in Config, NEW e, Built(c, l, n, e, conf[l])
  PROVE  (IF e = Keep THEN conf[l] ELSE e) = Desired(PlanOf[c], conf, l)
<1> DEFINE p == PlanOf[c]
<1>1. /\ Len(p.dels) \in Nat /\ DOMAIN p.dels = 1 .. Len(p.dels)
      /\ Len(p.sets) \in Nat /\ DOMAIN p.sets = 1 .. Len(p.sets)
  BY PlanTyped
<1>2. \A k \in DOMAIN p.sets : SetBefore(c, k, l, n) <=> p.sets[k].leaf = l
  <2>1. \A k \in DOMAIN p.sets : Len(p.dels) + k < n
    BY <1>1, Positions
  <2> QED BY <2>1 DEF SetBefore
<1>3. \A r \in DOMAIN p.dels : DelBefore(c, r, l, n) <=> l \in Under[p.dels[r]]
  <2>1. \A r \in DOMAIN p.dels : r < n
    BY <1>1, Positions
  <2> QED BY <2>1 DEF DelBefore
<1>4. (NoSet(c, l, n) <=> ~SetIn(p, l)) /\ (NoDelete(c, l, n) <=> ~Managed(p, l))
  BY <1>2, <1>3 DEF NoSet, NoDelete, SetIn, Managed
<1>5. CASE SetIn(p, l)
  <2>1. PICK k \in DOMAIN p.sets : /\ p.sets[k].leaf = l /\ e = p.sets[k].val
                                   /\ \A j \in DOMAIN p.sets : p.sets[j].leaf = l => j <= k
    BY <1>2, <1>4, <1>5 DEF Built, LastIs
  <2>2. \A i \in DOMAIN p.sets :
          p.sets[i].leaf = l /\ (\A j \in DOMAIN p.sets : p.sets[j].leaf = l => j <= i) => i = k
    BY <1>1, <2>1
  <2>3. LastSet(p, l) = p.sets[k].val
    BY <2>1, <2>2 DEF LastSet
  <2>4. e # Keep
    BY <2>1, PlanTyped, ConfigAssumption
  <2> QED BY <1>5, <2>1, <2>3, <2>4 DEF Desired
<1>6. CASE ~SetIn(p, l)
  <2>1. ~LastIs(c, l, n, e)
    BY <1>4, <1>6 DEF LastIs, NoSet
  <2> QED BY <1>4, <1>6, <2>1, ConfigAssumption DEF Built, Desired
<1> QED BY <1>5, <1>6

\* Of a leaf the plan manages it asks the same whatever the configuration.
LEMMA DesiredFixed ==
  ASSUME NEW p, NEW l, NEW conf, NEW other, SetIn(p, l) \/ Managed(p, l)
  PROVE  Desired(p, conf, l) = Desired(p, other, l)
  BY DEF Desired

-----------------------------------------------------------------------------
\* The invariant.

\* On the leaves nobody else touched: while it edits, the candidate of a call
\* holds what its first commands have built; from its commit to its save the
\* running configuration is what it asked for.
Holds(c) ==
  /\ pc[c] \in EditSteps =>
       \A l \in Leaf \ foreign[c] : Built(c, l, idx[c], cand[SidOf[c]].edits[l], running[l])
  /\ pc[c] = "save" =>
       /\ c \in landed /\ PlanOf[c].save
       /\ \A l \in Leaf \ foreign[c] :
            /\ cand[SidOf[c]].edits[l] = Keep
            /\ SetIn(PlanOf[c], l) \/ Managed(PlanOf[c], l) =>
                 running[l] = Desired(PlanOf[c], running, l)

CandidateInv == \A c \in Call : Holds(c)

\* A step of somebody else is either recorded in foreign or changes nothing
\* that Holds speaks of.
Undisturbed(d) ==
  InSession(d) => \A l \in Leaf \ foreign'[d] :
    /\ l \notin foreign[d]
    /\ cand'[SidOf[d]].edits[l] = cand[SidOf[d]].edits[l]
    /\ running'[l] = running[l] \/ cand[SidOf[d]].edits[l] # Keep

\* The steps the invariant speaks of are steps of an open session.
LEMMA Sessions == \A c : pc[c] \in EditSteps \cup {"save"} => InSession(c)
  BY DEF InSession, SessionSteps

\* A call that stays where it is keeps what holds of it.
LEMMA OthersHold ==
  ASSUME NEW d \in Call, Holds(d), Undisturbed(d),
         pc'[d] = pc[d], idx'[d] = idx[d], landed \subseteq landed'
  PROVE  Holds(d)'
<1>1. ASSUME pc[d] \in EditSteps, NEW l \in Leaf \ foreign'[d]
      PROVE  Built(d, l, idx[d], cand'[SidOf[d]].edits[l], running'[l])
  <2>1. Built(d, l, idx[d], cand[SidOf[d]].edits[l], running[l])
    BY <1>1, Sessions DEF Holds, Undisturbed
  <2>2. /\ cand'[SidOf[d]].edits[l] = cand[SidOf[d]].edits[l]
        /\ running'[l] = running[l] \/ cand[SidOf[d]].edits[l] # Keep
    BY <1>1, Sessions DEF Undisturbed
  <2> QED BY <2>1, <2>2, BuiltKept
<1>2. ASSUME pc[d] = "save", NEW l \in Leaf \ foreign'[d]
      PROVE  /\ cand'[SidOf[d]].edits[l] = Keep
             /\ SetIn(PlanOf[d], l) \/ Managed(PlanOf[d], l) =>
                  running'[l] = Desired(PlanOf[d], running', l)
  <2>1. cand'[SidOf[d]].edits[l] = Keep /\ running'[l] = running[l] /\ l \notin foreign[d]
    BY <1>2, Sessions DEF Holds, Undisturbed
  <2> QED BY <1>2, <2>1, DesiredFixed DEF Holds
<1> QED BY <1>1, <1>2 DEF Holds, Built, LastIs, NoSet, NoDelete, SetBefore, DelBefore,
                          SetIn, Managed, Desired, LastSet

\* A step that leaves the device and the history of d alone disturbs it in nothing.
LEMMA QuietStep ==
  ASSUME NEW d \in Call, UNCHANGED device, foreign'[d] = foreign[d]
  PROVE  Undisturbed(d)
  BY DEF Undisturbed, device

\* What another actor changes is recorded.
LEMMA Recorded ==
  ASSUME NEW d \in Call, NEW c \in Call \cup {NoCall}, c # d, Disturb(c)
  PROVE  Undisturbed(d)
<1>1. foreign'[d] = IF InSession(d) THEN foreign[d] \cup Disturbed(d) ELSE foreign[d]
  BY DEF Disturb
<1> QED BY <1>1 DEF Undisturbed, Disturbed

\* No step of a call disturbs another unrecorded, and none takes back a commit.
LEMMA OthersUndisturbed ==
  ASSUME TypeInv, NEW c \in Call, NEW d \in Call, c # d,
         CallStep(c) \/ Cancel(c) \/ CleanupTimeout(c) \/ OrphanEnds(c)
  PROVE  Undisturbed(d) /\ idx'[d] = idx[d] /\ landed \subseteq landed'
<1> USE DEF TypeInv, TypeOK
<1>1. CASE Begin(c) \/ Enter(c) \/ TryLock(c) \/ LockRetry(c) \/ LockCancelled(c) \/ LockFails(c)
  BY <1>1, QuietStep DEF Begin, Enter, TryLock, LockRetry, LockCancelled, LockFails, ReturnUnlocked, history
<1>2. CASE Start(c) \/ StartRefused(c)
  BY <1>2, QuietStep DEF Start, StartRefused, history
<1>3. CASE GetEnvEnds(c) \/ SetupEnds(c)
  BY <1>3, Recorded DEF GetEnvEnds, SetupEnds, Ends
<1>4. CASE DeleteEnds(c) \/ SetEnds(c)
  <2>1. UNCHANGED landed /\ idx'[d] = idx[d]
    BY <1>4 DEF DeleteEnds, SetEnds, NextEdit
  <2>2. CASE UNCHANGED <<device, foreign>>
    BY <2>1, <2>2, QuietStep
  <2>3. CASE Disturb(c)
    BY <2>1, <2>3, Recorded
  <2> QED BY <1>4, <2>2, <2>3 DEF DeleteEnds, SetEnds, Ends
<1>5. CASE CommitEnds(c) \/ SaveEnds(c) \/ DiscardEnds(c) \/ CloseEnds(c)
  BY <1>5, Recorded DEF CommitEnds, SaveEnds, DiscardEnds, CloseEnds, Ends
<1>6. CASE Release(c)
  BY <1>6, QuietStep DEF Release, Forget
<1>7. CASE Cancel(c) \/ CleanupTimeout(c)
  BY <1>7, QuietStep DEF Cancel, CleanupTimeout, history
<1>8. CASE OrphanEnds(c)
  BY <1>8, Recorded DEF OrphanEnds
<1> QED BY <1>1, <1>2, <1>3, <1>4, <1>5, <1>6, <1>7, <1>8 DEF CallStep

\* Where EditStep says "delete" the index is one of the deletes, where it says
\* "set" one of the sets, shifted, and at "commit" it is past them all.
LEMMA Current ==
  ASSUME TypeInv, NEW c \in Call, pc[c] \in EditSteps
  PROVE  /\ idx[c] \in Nat /\ idx[c] >= 1
         /\ pc[c] = "delete" => idx[c] \in DOMAIN PlanOf[c].dels
         /\ pc[c] = "set" => LET m == idx[c] - Len(PlanOf[c].dels)
                             IN m \in DOMAIN PlanOf[c].sets /\ idx[c] = Len(PlanOf[c].dels) + m
         /\ pc[c] = "commit" => idx[c] > Len(PlanOf[c].dels) + Len(PlanOf[c].sets)
<1>1. idx[c] \in Nat /\ idx[c] >= 1 /\ pc[c] = EditStep(PlanOf[c], idx[c])
  BY DEF TypeInv, TypeOK, IndexOK
<1> DEFINE m == Len(PlanOf[c].dels)
           n == Len(PlanOf[c].sets)
           i == idx[c]
<1>2. /\ m \in Nat /\ n \in Nat /\ i \in Nat /\ i >= 1
      /\ DOMAIN PlanOf[c].dels = 1 .. m /\ DOMAIN PlanOf[c].sets = 1 .. n
      /\ pc[c] = "delete" => i <= m
      /\ pc[c] = "set" => ~(i <= m) /\ i <= m + n
      /\ pc[c] = "commit" => ~(i <= m) /\ ~(i <= m + n)
  BY <1>1, PlanTyped DEF EditStep
<1> HIDE DEF m, n, i
<1>3. /\ i \in Nat /\ i >= 1
      /\ pc[c] = "delete" => i \in 1 .. m
      /\ pc[c] = "set" => i - m \in 1 .. n /\ i = m + (i - m)
      /\ pc[c] = "commit" => i > m + n
  BY <1>2
<1> QED BY <1>2, <1>3 DEF m, n, i

\* Edits go through one session and leave the others' configurations alone.
LEMMA EditTyped ==
  ASSUME TypeInv, NEW c \in Call
  PROVE  /\ SidOf[c] \in Sid /\ cand[SidOf[c]] \in Candidate
         /\ cand[SidOf[c]].edits \in Overlay /\ running \in Config
         /\ cand = [s \in Sid |-> cand[s]]
  BY ExecutorAssumption DEF TypeInv, TypeOK, DeviceTypeOK, Candidate

\* After setup the candidate has no edit that is not foreign.
LEMMA SetupHolds ==
  ASSUME TypeInv, NEW c \in Call, SetupEnds(c)
  PROVE  Holds(c)'
<1>1. CASE pc'[c] \notin EditSteps \cup {"save"}
  BY <1>1 DEF Holds
<1>2. CASE pc'[c] \in EditSteps \cup {"save"}
  <2>1. PICK o \in Outcomes(c) : /\ Ends(c, o)
                                 /\ o = "ok" /\ Goto(c, EditStep(PlanOf[c], idx[c]))
    BY <1>2 DEF SetupEnds, ContextError, Goto, TypeInv, TypeOK, At, EditSteps
  <2>2. pc[c] = "setup" /\ UNCHANGED idx /\ idx[c] = 1
    BY DEF SetupEnds, At, TypeInv, IndexOK
  <2>3. foreign'[c] = {l \in Leaf : cand'[SidOf[c]].edits[l] # Keep}
    BY <2>1, <2>2 DEF Ends, Disturb
  <2>4. pc'[c] # "save"
    BY <2>1, <2>2 DEF Goto, EditStep, TypeInv, TypeOK
  <2>5. \A l \in Leaf \ foreign'[c] :
          Built(c, l, idx'[c], cand'[SidOf[c]].edits[l], running'[l])
    BY <2>2, <2>3, NothingBuilt
  <2> QED BY <2>4, <2>5 DEF Holds, Built, LastIs, NoSet, NoDelete, SetBefore, DelBefore
<1> QED BY <1>1, <1>2

\* What NextEdit asks of the edits to keep Holds.
LEMMA NextHolds ==
  ASSUME TypeInv, NEW c \in Call, pc[c] \in EditSteps, NextEdit(c), foreign'[c] = foreign[c],
         \A l \in Leaf \ foreign[c] :
           Built(c, l, idx[c] + 1, cand'[SidOf[c]].edits[l], running'[l])
  PROVE  Holds(c)'
<1>1. idx'[c] = idx[c] + 1 /\ pc'[c] # "save"
  BY DEF NextEdit, Goto, EditStep, TypeInv, TypeOK
<1> QED BY <1>1 DEF Holds, Built, LastIs, NoSet, NoDelete, SetBefore, DelBefore

\* A delete, done or reported as having nothing to delete.
LEMMA DeleteHolds ==
  ASSUME TypeInv, NEW c \in Call, Holds(c), DeleteEnds(c)
  PROVE  Holds(c)'
<1> DEFINE s == SidOf[c]
           n == idx[c]
<1>1. pc[c] = "delete" /\ pc[c] \in EditSteps
  BY DEF DeleteEnds, At, EditSteps
<1>2. n \in Nat /\ n \in DOMAIN PlanOf[c].dels
  BY <1>1, Current
<1>3. \A l \in Leaf \ foreign[c] : Built(c, l, n, cand[s].edits[l], running[l])
  BY <1>1 DEF Holds
<1>4. ASSUME NextEdit(c), foreign'[c] = foreign[c], running' = running,
             \A l \in Leaf : IF l \in Under[PlanOf[c].dels[n]]
                             THEN \/ cand'[s].edits[l] = Absent
                                  \/ cand'[s].edits[l] = Keep /\ running[l] = Absent
                             ELSE cand'[s].edits[l] = cand[s].edits[l]
      PROVE  Holds(c)'
  <2>1. ASSUME NEW l \in Leaf \ foreign[c]
        PROVE  Built(c, l, n + 1, cand'[s].edits[l], running'[l])
    BY <1>2, <1>3, <1>4, <2>1, DeleteBuilds
  <2> QED BY <1>1, <1>4, <2>1, NextHolds
<1>5. CASE NothingUnder(s, CurrentRoot(c)) /\ UNCHANGED <<device, foreign>> /\ NextEdit(c)
  <2>1. \A l \in Under[PlanOf[c].dels[n]] :
          (IF cand[s].edits[l] = Keep THEN running[l] ELSE cand[s].edits[l]) = Absent
    <3>1. Under[PlanOf[c].dels[n]] \subseteq Leaf
      BY <1>2, PlanTyped, ConfigAssumption
    <3> QED BY <1>5, <3>1 DEF NothingUnder, Merged, CurrentRoot
  <2> QED BY <1>4, <1>5, <2>1, Zenon DEF device
<1>6. CASE NextEdit(c) /\ Ends(c, "ok")
  <2>1. DeleteRoot(s, CurrentRoot(c)) /\ Disturb(c)
    BY <1>1, <1>6 DEF Ends, CommandEffect
  <2>2. foreign'[c] = foreign[c]
    BY <1>1, <2>1 DEF Disturb
  <2>3. /\ running' = running
        /\ cand'[s].edits = [l \in Leaf |-> IF l \in Under[CurrentRoot(c)] THEN Absent
                                            ELSE cand[s].edits[l]]
    BY <2>1, EditTyped DEF DeleteRoot, Candidate
  <2> QED BY <1>4, <1>6, <2>2, <2>3 DEF CurrentRoot
<1>7. CASE \E o : EditFails(c, o)
  BY <1>1, <1>7 DEF EditFails, ContextError, Goto, Holds, EditSteps, TypeInv, TypeOK
<1> QED BY <1>5, <1>6, <1>7 DEF DeleteEnds

\* A set puts its value over what was built before.
LEMMA SetHolds ==
  ASSUME TypeInv, NEW c \in Call, Holds(c), SetEnds(c)
  PROVE  Holds(c)'
<1> DEFINE s == SidOf[c]
           n == idx[c]
           m == n - Len(PlanOf[c].dels)
<1>1. pc[c] = "set" /\ pc[c] \in EditSteps
  BY DEF SetEnds, At, EditSteps
<1>2. n \in Nat /\ m \in DOMAIN PlanOf[c].sets /\ n = Len(PlanOf[c].dels) + m
  BY <1>1, Current
<1>3. CASE NextEdit(c) /\ Ends(c, "ok")
  <2>1. SetLeaf(s, CurrentSet(c).leaf, CurrentSet(c).val) /\ Disturb(c)
    BY <1>1, <1>3 DEF Ends, CommandEffect
  <2>2. foreign'[c] = foreign[c]
    BY <1>1, <2>1 DEF Disturb
  <2>3. /\ running' = running
        /\ \A l \in Leaf : cand'[s].edits[l] = IF l = CurrentSet(c).leaf THEN CurrentSet(c).val
                                               ELSE cand[s].edits[l]
    BY <2>1, EditTyped DEF SetLeaf, Candidate, Overlay
  <2>4. ASSUME NEW l \in Leaf \ foreign[c]
        PROVE  Built(c, l, n + 1, cand'[s].edits[l], running'[l])
    <3>1. Built(c, l, n, cand[s].edits[l], running[l])
      BY <1>1, <2>4 DEF Holds
    <3>2. cand'[s].edits[l] = IF l = PlanOf[c].sets[m].leaf THEN PlanOf[c].sets[m].val
                              ELSE cand[s].edits[l]
      BY <2>3 DEF CurrentSet
    <3> HIDE DEF m, n
    <3> QED BY <1>2, <2>3, <3>1, <3>2, SetBuilds
  <2> QED BY <1>1, <1>3, <2>2, <2>4, NextHolds
<1>4. CASE \E o : EditFails(c, o)
  BY <1>1, <1>4 DEF EditFails, ContextError, Goto, Holds, EditSteps, TypeInv, TypeOK
<1> QED BY <1>3, <1>4 DEF SetEnds

\* What a commit, of a live call or of an orphaned command, makes of the
\* running configuration.
LEMMA CommitMerges ==
  ASSUME TypeInv, NEW c \in Call, Holds(c), pc[c] = "commit", CommitSession(SidOf[c])
  PROVE  \A l \in Leaf \ foreign[c] : /\ running'[l] = Desired(PlanOf[c], running, l)
                                      /\ cand'[SidOf[c]].edits[l] = Keep
<1> SUFFICES ASSUME NEW l \in Leaf \ foreign[c]
             PROVE  /\ running'[l] = Desired(PlanOf[c], running, l)
                    /\ cand'[SidOf[c]].edits[l] = Keep
  OBVIOUS
<1>1. idx[c] \in Nat /\ idx[c] > Len(PlanOf[c].dels) + Len(PlanOf[c].sets)
  BY Current DEF EditSteps
<1>2. Built(c, l, idx[c], cand[SidOf[c]].edits[l], running[l])
  BY DEF Holds, EditSteps
<1>3. running'[l] = IF cand[SidOf[c]].edits[l] = Keep THEN running[l] ELSE cand[SidOf[c]].edits[l]
  BY DEF CommitSession, Merged
<1>4. running'[l] = Desired(PlanOf[c], running, l)
  <2> DEFINE e == cand[SidOf[c]].edits[l]
  <2>1. running \in Config
    BY EditTyped
  <2>2. \A f : Built(c, l, idx[c], f, running[l]) =>
                (IF f = Keep THEN running[l] ELSE f) = Desired(PlanOf[c], running, l)
    BY <1>1, <2>1, AllBuilt, ZenonT(30)
  <2>3. (IF e = Keep THEN running[l] ELSE e) = Desired(PlanOf[c], running, l)
    BY <1>2, <2>2
  <2> QED BY <1>3, <2>3
<1>5. cand'[SidOf[c]].edits[l] = Keep
  BY EditTyped DEF CommitSession, NoEdits, Candidate
<1> QED BY <1>4, <1>5

\* After a commit the running configuration is what the plan asked for.
LEMMA CommitHolds ==
  ASSUME TypeInv, NEW c \in Call, Holds(c), CommitEnds(c)
  PROVE  Holds(c)'
<1>1. pc[c] = "commit"
  BY DEF CommitEnds, At
<1>2. CASE pc'[c] # "save"
  BY <1>1, <1>2 DEF CommitEnds, EditFails, ContextError, Goto, Holds, EditSteps, TypeInv, TypeOK
<1>3. CASE pc'[c] = "save"
  <2>1. /\ Ends(c, "ok") /\ landed' = landed \cup {c}
        /\ Goto(c, IF PlanOf[c].save THEN "save" ELSE "close")
    BY <1>1, <1>3 DEF CommitEnds, EditFails, ContextError, Goto, EditSteps, TypeInv, TypeOK
  <2>2. PlanOf[c].save
    BY <1>3, <2>1 DEF Goto, TypeInv, TypeOK
  <2>3. CommitSession(SidOf[c]) /\ foreign'[c] = foreign[c]
    BY <1>1, <2>1 DEF Ends, CommandEffect, Disturb
  <2>4. ASSUME NEW l \in Leaf \ foreign[c]
        PROVE  /\ cand'[SidOf[c]].edits[l] = Keep
               /\ SetIn(PlanOf[c], l) \/ Managed(PlanOf[c], l) =>
                    running'[l] = Desired(PlanOf[c], running', l)
    <3>1. running'[l] = Desired(PlanOf[c], running, l) /\ cand'[SidOf[c]].edits[l] = Keep
      BY <1>1, <2>3, <2>4, CommitMerges
    <3> QED BY <3>1, DesiredFixed
  <2> QED BY <1>3, <2>1, <2>2, <2>3, <2>4
          DEF Holds, EditSteps, SetIn, Managed, Desired, LastSet
<1> QED BY <1>2, <1>3

\* A call's own step keeps what holds of it.
LEMMA OwnHolds ==
  ASSUME TypeInv, NEW c \in Call, Holds(c),
         CallStep(c) \/ Cancel(c) \/ CleanupTimeout(c) \/ OrphanEnds(c)
  PROVE  Holds(c)'
<1> USE DEF TypeInv, TypeOK, Goto
<1>1. CASE Begin(c) \/ Enter(c) \/ TryLock(c) \/ LockRetry(c) \/ LockCancelled(c) \/ LockFails(c)
  BY <1>1 DEF Begin, Enter, TryLock, LockRetry, LockCancelled, LockFails, ReturnUnlocked,
              Holds, EditSteps, At
<1>2. CASE Start(c) \/ Cancel(c) \/ CleanupTimeout(c)
  BY <1>2, QuietStep, OthersHold DEF Start, Cancel, CleanupTimeout, history
<1>3. CASE StartRefused(c)
  BY <1>3 DEF StartRefused, ContextError, CleanupFails, Holds, EditSteps
<1>4. CASE GetEnvEnds(c)
  BY <1>4 DEF GetEnvEnds, At, ContextError, Holds, EditSteps
<1>5. CASE SaveEnds(c) \/ DiscardEnds(c) \/ CloseEnds(c) \/ Release(c)
  BY <1>5 DEF SaveEnds, DiscardEnds, CloseEnds, Release, At, ContextError, CleanupFails,
              Holds, EditSteps
<1>6. CASE OrphanEnds(c)
  BY <1>6 DEF OrphanEnds, Holds, EditSteps
<1> QED BY <1>1, <1>2, <1>3, <1>4, <1>5, <1>6, SetupHolds, DeleteHolds, SetHolds, CommitHolds
        DEF CallStep

\* CandidateInv always holds.
LEMMA CandidateInvariant == Spec => []CandidateInv
<1>1. Init => CandidateInv
  BY DEF Init, CandidateInv, Holds, EditSteps
<1>2. TypeInv /\ CandidateInv /\ [Next]_vars => CandidateInv'
  <2> SUFFICES ASSUME TypeInv, CandidateInv, [Next]_vars, NEW d \in Call PROVE Holds(d)'
    BY DEF CandidateInv
  <2>1. Holds(d)
    BY DEF CandidateInv
  <2>2. ASSUME NEW c \in Call, CallStep(c) \/ Cancel(c) \/ CleanupTimeout(c) \/ OrphanEnds(c)
        PROVE  Holds(d)'
    <3>1. CASE c = d
      BY <2>1, <2>2, <3>1, OwnHolds
    <3>2. CASE c # d
      <4>1. pc'[d] = pc[d]
        BY <2>2, <3>2, OthersSame DEF Same
      <4>2. Undisturbed(d) /\ idx'[d] = idx[d] /\ landed \subseteq landed'
        BY <2>2, <3>2, OthersUndisturbed
      <4> QED BY <2>1, <4>1, <4>2, OthersHold
    <3> QED BY <3>1, <3>2
  <2>3. ASSUME NEW s \in Sid, Crash(s) PROVE Holds(d)'
    <3>1. CASE pc'[d] = "crashed"
      BY <3>1 DEF Holds, EditSteps
    <3>2. CASE pc'[d] # "crashed"
      <4>1. pc'[d] = pc[d]
        BY <2>3, <3>2 DEF Crash
      <4> QED BY <2>1, <2>3, <4>1, QuietStep, OthersHold DEF Crash, history
    <3> QED BY <3>1, <3>2
  <2>4. CASE OperatorCommit
    <3>1. Undisturbed(d)
      BY <2>4, Recorded, ExecutorAssumption DEF OperatorCommit
    <3> QED BY <2>1, <2>4, <3>1, OthersHold DEF OperatorCommit, control
  <2>5. CASE UNCHANGED vars
    BY <2>1, <2>5, QuietStep, OthersHold DEF vars, control, history
  <2> QED BY <2>2, <2>3, <2>4, <2>5 DEF Next, Terminated
<1> QED BY <1>1, <1>2, TypeInvariant, PTL DEF Spec

-----------------------------------------------------------------------------
\* The theorems.

\* A commit lands by my_commit, run by a live call or left behind by a killed one.
LEMMA Landing ==
  ASSUME TypeInv, Next, NEW d \in landed' \ landed
  PROVE  d \in Call /\ pc[d] = "commit" /\ CommitSession(SidOf[d])
  <1>1. ASSUME NEW c \in Call, CallStep(c) \/ Cancel(c) \/ CleanupTimeout(c) \/ OrphanEnds(c)
        PROVE  d \in Call /\ pc[d] = "commit" /\ CommitSession(SidOf[d])
    <2>1. CASE CommitEnds(c)
      BY <2>1 DEF CommitEnds, At, Ends, CommandEffect
    <2>2. CASE OrphanEnds(c)
      BY <2>2 DEF OrphanEnds, CommandEffect
    <2>3. CASE ~CommitEnds(c) /\ ~OrphanEnds(c)
      <3>1. UNCHANGED landed
        BY <1>1, <2>3 DEF CallStep, Begin, Enter, TryLock, LockRetry, LockCancelled, LockFails,
             ReturnUnlocked, Start, StartRefused, GetEnvEnds, SetupEnds, DeleteEnds, SetEnds,
             SaveEnds, DiscardEnds, CloseEnds, Release, Cancel, CleanupTimeout, history
      <3> QED BY <3>1
    <2> QED BY <2>1, <2>2, <2>3
  <1>2. CASE (\E s \in Sid : Crash(s)) \/ OperatorCommit \/ Terminated
    BY <1>2 DEF Crash, OperatorCommit, Terminated, vars, history
  <1> QED BY <1>1, <1>2 DEF Next

\* A commit that reaches the device, of a live call or of the orphaned my_commit
\* of a killed one, makes it what the plan asks for on every leaf nobody else
\* touched: for every plan, and with any number of calls beside it.
THEOREM CommitIsPlan == Spec => CommitReplaces
<1>1. TypeInv /\ CandidateInv /\ [Next]_vars =>
        [\A c \in landed' \ landed : \A l \in Leaf \ foreign[c] :
           running'[l] = Desired(PlanOf[c], running, l)]_vars
  <2> SUFFICES ASSUME TypeInv, CandidateInv, Next, NEW d \in landed' \ landed
               PROVE  \A l \in Leaf \ foreign[d] : running'[l] = Desired(PlanOf[d], running, l)
    OBVIOUS
  <2> QED BY Landing, CommitMerges DEF CandidateInv
<1> QED BY <1>1, TypeInvariant, CandidateInvariant, PTL DEF Spec, CommitReplaces

\* The configuration saved for the next boot is written only after a commit, of a
\* call that asked for it, and holds what that call's plan asks for.
THEOREM SavedIsCommitted == Spec => SaveOwnCommit
<1> DEFINE Saved(c) == /\ PlanOf[c].save
                       /\ \A l \in Leaf \ foreign[c] :
                            SetIn(PlanOf[c], l) \/ Managed(PlanOf[c], l) =>
                              saved'[l] = Desired(PlanOf[c], running, l)
<1>1. TypeInv /\ CandidateInv /\ [Next]_vars => [saved' # saved => \E c \in landed : Saved(c)]_vars
  <2> SUFFICES ASSUME TypeInv, CandidateInv, Next, saved' # saved
               PROVE  \E c \in landed : Saved(c)
    OBVIOUS
  <2>1. ASSUME NEW c \in Call, CommandEffect(c) PROVE pc[c] = "save" /\ saved' = running
    BY <2>1 DEF CommandEffect, device, SetupSession, DeleteRoot, SetLeaf, CommitSession,
                SaveRunning, DiscardEdits, TeardownSession
  <2>2. \E c \in Call : CommandEffect(c)
    <3>1. ASSUME NEW c \in Call, CallStep(c) \/ Cancel(c) \/ CleanupTimeout(c) \/ OrphanEnds(c)
          PROVE  CommandEffect(c)
      <4>1. ~UNCHANGED device
        BY DEF device
      <4>2. CASE GetEnvEnds(c) \/ SetupEnds(c) \/ SetEnds(c) \/ CommitEnds(c) \/ SaveEnds(c)
                 \/ DiscardEnds(c) \/ CloseEnds(c)
        BY <4>1, <4>2 DEF GetEnvEnds, SetupEnds, SetEnds, CommitEnds, SaveEnds, DiscardEnds,
                          CloseEnds, Ends
      <4>3. CASE DeleteEnds(c) \/ OrphanEnds(c)
        BY <4>1, <4>3 DEF DeleteEnds, OrphanEnds, Ends
      <4>4. CASE Begin(c) \/ Enter(c) \/ TryLock(c) \/ LockRetry(c) \/ LockCancelled(c)
                 \/ LockFails(c) \/ Start(c) \/ StartRefused(c) \/ Release(c)
                 \/ Cancel(c) \/ CleanupTimeout(c)
        BY <4>1, <4>4 DEF Begin, Enter, TryLock, LockRetry, LockCancelled, LockFails,
             ReturnUnlocked, Start, StartRefused, Release, Cancel, CleanupTimeout
      <4> QED BY <3>1, <4>2, <4>3, <4>4 DEF CallStep
    <3>2. CASE (\E s \in Sid : Crash(s)) \/ OperatorCommit \/ Terminated
      BY <3>2 DEF Crash, OperatorCommit, OperatorSets, Terminated, vars, device
    <3> QED BY <3>1, <3>2 DEF Next
  <2>3. PICK c \in Call : pc[c] = "save" /\ saved' = running
    BY <2>1, <2>2
  <2>4. c \in landed /\ Saved(c)
    BY <2>3 DEF CandidateInv, Holds
  <2> QED BY <2>4
<1> QED BY <1>1, TypeInvariant, CandidateInvariant, PTL DEF Spec, SaveOwnCommit

-----------------------------------------------------------------------------
\* Whose edits a candidate holds.  An edit is always what some call of that
\* process id has asked for: of one that edits, its latest command about the leaf;
\* of another, one that will be discarded or torn down, or that was killed or has
\* reported that it could do neither.
Reported(c) == {"discard", "close"} \subseteq notes[c]
Cleaning(c) ==
  /\ c \notin dead
  /\ pc[c] \in EditSteps \cup {"fail_discard", "discard"} \/ (pc[c] = "close" /\ "discard" \in notes[c])
Leaving(c) == c \in dead \/ Reported(c) \/ Cleaning(c)

EditOf(d, l, e) ==
  /\ Asked(PlanOf[d], l, e) /\ Leaving(d)
  /\ pc[d] \in EditSteps => Built(d, l, idx[d], e, Absent)

OwnedInv ==
  \A s \in Sid, l \in Leaf, e \in Val \cup {Absent} : cand[s].edits[l] = e =>
    \E d \in Call : SidOf[d] = s /\ EditOf(d, l, e)

\* A command changes the session of its own call only.
LEMMA OneSession ==
  ASSUME TypeInv, NEW c \in Call, NEW s \in Sid, s # SidOf[c], CommandEffect(c) \/ UNCHANGED device
  PROVE  cand'[s] = cand[s]
  BY DEF TypeInv, TypeOK, DeviceTypeOK, CommandEffect, device, SetupSession, DeleteRoot, SetLeaf,
         CommitSession, SaveRunning, DiscardEdits, TeardownSession

\* The commands that leave no edit, and those that make none.
LEMMA EditsAfter ==
  ASSUME TypeInv, NEW c \in Call, CommandEffect(c) \/ UNCHANGED device
  PROVE  /\ pc[c] \in CleanupSteps \cup {"commit"} /\ CommandEffect(c) =>
              cand'[SidOf[c]].edits = NoEdits
         /\ pc[c] \notin {"delete", "set"} =>
              cand'[SidOf[c]].edits \in {cand[SidOf[c]].edits, NoEdits}
<1> USE EditTyped DEF Candidate
<1>1. CASE UNCHANGED device
  <2>1. cand' = cand
    BY <1>1 DEF device
  <2>2. CASE CommandEffect(c) /\ pc[c] \in CleanupSteps \cup {"commit"}
    BY <2>2 DEF CommandEffect, CleanupSteps, CommitSession, DiscardEdits, TeardownSession
  <2> QED BY <2>1, <2>2
<1>2. CASE CommandEffect(c)
  BY <1>2 DEF CommandEffect, CleanupSteps, device, SetupSession, CommitSession, SaveRunning,
              DiscardEdits, TeardownSession
<1> QED BY <1>1, <1>2

\* A call's step runs at most its own command, and no report is taken back.
LEMMA CallReports ==
  ASSUME TypeInv, NEW c \in Call, CallStep(c)
  PROVE  /\ CommandEffect(c) \/ UNCHANGED device
         /\ dead' = dead /\ \A d \in Call : notes[d] \subseteq notes'[d]
<1> USE DEF TypeInv, TypeOK
<1>1. CASE Begin(c) \/ Enter(c) \/ TryLock(c) \/ LockRetry(c) \/ LockCancelled(c) \/ LockFails(c)
  BY <1>1 DEF Begin, Enter, TryLock, LockRetry, LockCancelled, LockFails, ReturnUnlocked, outcome
<1>2. CASE Start(c) \/ StartRefused(c)
  BY <1>2 DEF Start, StartRefused, ContextError, CleanupFails, outcome
<1>3. CASE GetEnvEnds(c) \/ SetupEnds(c)
  BY <1>3 DEF GetEnvEnds, SetupEnds, ContextError, Ends
<1>4. CASE DeleteEnds(c) \/ SetEnds(c) \/ CommitEnds(c)
  BY <1>4 DEF DeleteEnds, SetEnds, CommitEnds, NextEdit, EditFails, ContextError, Ends
<1>5. CASE SaveEnds(c) \/ DiscardEnds(c) \/ CloseEnds(c) \/ Release(c)
  BY <1>5 DEF SaveEnds, DiscardEnds, CloseEnds, Release, ContextError, CleanupFails, Ends
<1> QED BY <1>1, <1>2, <1>3, <1>4, <1>5 DEF CallStep

\* A call that leaves edits behind goes on cleaning up or has reported them.
LEMMA Leaves ==
  ASSUME TypeInv, NEW c \in Call, CallStep(c), cand'[SidOf[c]].edits # NoEdits,
         Reported(c) \/ Cleaning(c)
  PROVE  Reported(c)' \/ Cleaning(c)'
<1> USE DEF TypeInv, TypeOK, At, Goto
<1>0. CASE Reported(c)
  BY <1>0, CallReports DEF Reported
<1>1. SUFFICES ASSUME Cleaning(c)
      PROVE \/ /\ c \notin dead'
               /\ \/ pc'[c] \in EditSteps \cup {"fail_discard", "discard"}
                  \/ pc'[c] = "close" /\ "discard" \in notes'[c]
            \/ {"discard", "close"} \subseteq notes'[c]
  BY <1>0 DEF Cleaning, Reported
<1>2. CASE Begin(c) \/ Enter(c) \/ TryLock(c) \/ LockRetry(c) \/ LockCancelled(c) \/ LockFails(c)
  BY <1>1, <1>2 DEF Begin, Enter, TryLock, LockRetry, LockCancelled, LockFails, ReturnUnlocked,
              Cleaning, EditSteps, device
<1>3. CASE Start(c)
  BY <1>1, <1>3 DEF Start, Cleaning, EditSteps, device, outcome
<1>4. CASE StartRefused(c)
  BY <1>1, <1>4 DEF StartRefused, ContextError, CleanupFails, CleanupSteps, Cleaning, EditSteps, device
<1>5. CASE GetEnvEnds(c)
  BY <1>1, <1>5, EditsAfter DEF GetEnvEnds, Ends, Cleaning, EditSteps
<1>6. CASE SetupEnds(c)
  <2>1. EditStep(PlanOf[c], idx[c]) \in EditSteps
    BY EditStepType, ExecutorAssumption
  <2> QED BY <1>1, <1>6, <2>1, EditsAfter DEF SetupEnds, Ends, Cleaning, EditSteps, ContextError
<1>7. CASE DeleteEnds(c) \/ SetEnds(c)
  <2>1. c \notin dead' /\ pc[c] \in EditSteps
    BY <1>7 DEF DeleteEnds, SetEnds, EditSteps
  <2>2. CASE NextEdit(c)
    <3>1. EditStep(PlanOf[c], idx[c] + 1) \in EditSteps
      BY EditStepType, ExecutorAssumption
    <3> QED BY <2>1, <2>2, <3>1 DEF NextEdit
  <2>3. CASE \E o : EditFails(c, o)
    BY <2>1, <2>3 DEF EditFails, ContextError
  <2> QED BY <1>7, <2>2, <2>3 DEF DeleteEnds, SetEnds
<1>8. CASE CommitEnds(c)
  BY <1>8, EditsAfter DEF CommitEnds, Ends, EditFails, ContextError, EditSteps
<1>9. CASE SaveEnds(c)
  BY <1>1, <1>9, EditsAfter DEF SaveEnds, Ends, Cleaning, EditSteps
<1>10. CASE DiscardEnds(c)
  BY <1>10, EditsAfter DEF DiscardEnds, Ends, CleanupFails, CleanupSteps
<1>11. CASE CloseEnds(c)
  BY <1>1, <1>11, EditsAfter DEF CloseEnds, Ends, CleanupFails, CleanupSteps, Cleaning, EditSteps
<1>12. CASE Release(c)
  BY <1>1, <1>12 DEF Release, Cleaning, EditSteps, device
<1> QED BY <1>2, <1>3, <1>4, <1>5, <1>6, <1>7, <1>8, <1>9, <1>10, <1>11, <1>12 DEF CallStep

\* What an edit command makes of a leaf: its own edit there, which is then the
\* call's latest, or nothing, and then what was the latest still is.
LEMMA EditMade ==
  ASSUME TypeInv, NEW c \in Call, pc[c] \in {"delete", "set"},
         \/ CommandEffect(c)
         \/ pc[c] = "delete" /\ NothingUnder(SidOf[c], CurrentRoot(c)) /\ UNCHANGED device,
         NEW l \in Leaf, NEW e, e = cand'[SidOf[c]].edits[l], e # Keep
  PROVE  \/ Asked(PlanOf[c], l, e) /\ Built(c, l, idx[c] + 1, e, Absent)
         \/ /\ e = cand[SidOf[c]].edits[l]
            /\ Built(c, l, idx[c], e, Absent) => Built(c, l, idx[c] + 1, e, Absent)
<1> DEFINE s == SidOf[c]
           n == idx[c]
<1>1. CASE pc[c] = "delete"
  <2>1. n \in Nat /\ n \in DOMAIN PlanOf[c].dels
    BY <1>1, Current DEF EditSteps
  <2>2. Under[PlanOf[c].dels[n]] \subseteq Leaf
    BY <2>1, PlanTyped, ConfigAssumption
  <2>3. CASE l \in Under[PlanOf[c].dels[n]]
    <3>1. e = Absent
      <4>1. CASE DeleteRoot(s, CurrentRoot(c))
        BY <2>3, <4>1, EditTyped DEF DeleteRoot, Candidate, CurrentRoot
      <4>2. CASE NothingUnder(s, CurrentRoot(c)) /\ UNCHANGED device
        BY <2>2, <2>3, <4>2 DEF NothingUnder, Merged, CurrentRoot, device
      <4> QED BY <1>1, <4>1, <4>2 DEF CommandEffect
    <3>2. Asked(PlanOf[c], l, e)
      BY <2>1, <2>3, <3>1 DEF Asked, Managed
    <3>3. Built(c, l, n + 1, e, Absent)
      BY <2>1, <2>3, <3>1, DeleteBuilds
    <3> QED BY <3>2, <3>3
  <2>4. CASE l \notin Under[PlanOf[c].dels[n]]
    <3>1. e = cand[s].edits[l]
      <4>1. CASE DeleteRoot(s, CurrentRoot(c))
        BY <2>4, <4>1, EditTyped DEF DeleteRoot, Candidate, CurrentRoot
      <4>2. CASE UNCHANGED device
        BY <4>2 DEF device
      <4> QED BY <1>1, <4>1, <4>2 DEF CommandEffect
    <3>2. Built(c, l, n, e, Absent) => Built(c, l, n + 1, e, Absent)
      BY <2>1, <2>4, DeleteBuilds
    <3> QED BY <3>1, <3>2
  <2> QED BY <2>3, <2>4
<1>2. CASE pc[c] = "set"
  <2> DEFINE m == n - Len(PlanOf[c].dels)
  <2>1. n \in Nat /\ m \in DOMAIN PlanOf[c].sets /\ n = Len(PlanOf[c].dels) + m
    BY <1>2, Current DEF EditSteps
  <2>2. e = IF l = PlanOf[c].sets[m].leaf THEN PlanOf[c].sets[m].val ELSE cand[s].edits[l]
    <3>1. SetLeaf(s, CurrentSet(c).leaf, CurrentSet(c).val)
      BY <1>2 DEF CommandEffect
    <3> QED BY <3>1, EditTyped DEF SetLeaf, Candidate, Overlay, CurrentSet
  <2> HIDE DEF m, n
  <2>3. CASE l = PlanOf[c].sets[m].leaf
    <3>1. Asked(PlanOf[c], l, e)
      BY <2>1, <2>2, <2>3 DEF Asked
    <3>2. Built(c, l, n + 1, e, Absent)
      BY <2>1, <2>2, <2>3, SetBuilds
    <3> QED BY <3>1, <3>2 DEF n
  <2>4. CASE l # PlanOf[c].sets[m].leaf
    <3>1. Built(c, l, n, e, Absent) => Built(c, l, n + 1, e, Absent)
      BY <2>1, <2>2, <2>4, SetBuilds
    <3> QED BY <2>2, <2>4, <3>1 DEF n
  <2> QED BY <2>3, <2>4
<1> QED BY <1>1, <1>2

\* The edits of a call that does not step stay its own.
LEMMA OthersOwn ==
  ASSUME TypeInv, NEW c \in Call, NEW d \in Call, c # d, CallStep(c) \/ OrphanEnds(c),
         NEW l, NEW e, EditOf(d, l, e)
  PROVE  EditOf(d, l, e)'
<1>1. Same(d) /\ idx'[d] = idx[d]
  BY OthersSame, OthersUndisturbed
<1>2. dead' = dead
  BY CallReports DEF OrphanEnds
<1> QED BY <1>1, <1>2 DEF Same, EditOf, Leaving, Reported, Cleaning, Asked, Managed,
                          Built, LastIs, NoSet, NoDelete, SetBefore, DelBefore

\* An edit that is there after a step of a call, and was the call's own before or is
\* new, is its own.
LEMMA OwnEdit ==
  ASSUME TypeInv, NEW c \in Call, Path(c), CallStep(c), NEW l \in Leaf,
         NEW e, e = cand'[SidOf[c]].edits[l], e # Keep,
         EditOf(c, l, e) \/ e # cand[SidOf[c]].edits[l]
  PROVE  EditOf(c, l, e)'
<1> USE DEF TypeInv, TypeOK, Goto
<1>1. cand'[SidOf[c]].edits # NoEdits
  BY DEF NoEdits
<1>2. CASE pc[c] \in {"delete", "set"}
  <2>1. DeleteEnds(c) \/ SetEnds(c) \/ ((Start(c) \/ StartRefused(c)) /\ UNCHANGED device)
    BY <1>2 DEF CallStep, At, Begin, Enter, TryLock, LockRetry, LockCancelled, LockFails, Start,
       StartRefused, GetEnvEnds, SetupEnds, CommitEnds, SaveEnds, DiscardEnds, CloseEnds, Release
  <2>2. c \notin dead /\ dead' = dead /\ pc[c] \in EditSteps
    BY <1>2, <2>1 DEF DeleteEnds, SetEnds, At, Start, StartRefused, EditSteps
  <2>3. CASE Start(c)
    <3>1. UNCHANGED <<cand, pc, idx, notes, dead>>
      BY <2>3 DEF Start, device, outcome
    <3> QED BY <2>3, <3>1 DEF EditOf, Leaving, Reported, Cleaning, Asked, Managed,
                              Built, LastIs, NoSet, NoDelete, SetBefore, DelBefore
  <2>4. CASE NextEdit(c)
    <3>1. \/ CommandEffect(c)
          \/ pc[c] = "delete" /\ NothingUnder(SidOf[c], CurrentRoot(c)) /\ UNCHANGED device
      <4>1. idx' # idx
        BY <2>4 DEF NextEdit
      <4>2. CASE DeleteEnds(c)
        BY <4>1, <4>2 DEF DeleteEnds, Ends, At
      <4>3. CASE SetEnds(c)
        BY <4>1, <4>3 DEF SetEnds, Ends
      <4>4. CASE (Start(c) \/ StartRefused(c)) /\ UNCHANGED device
        BY <4>1, <4>4 DEF Start, StartRefused
      <4> QED BY <2>1, <4>2, <4>3, <4>4
    <3>2. Asked(PlanOf[c], l, e) /\ Built(c, l, idx[c] + 1, e, Absent)
      BY <1>2, <2>2, <3>1, EditMade DEF EditOf
    <3>3. idx'[c] = idx[c] + 1 /\ pc'[c] \in EditSteps
      <4>1. EditStep(PlanOf[c], idx[c] + 1) \in EditSteps
        BY EditStepType, ExecutorAssumption
      <4> QED BY <2>4, <4>1 DEF NextEdit
    <3> QED BY <2>2, <3>2, <3>3 DEF EditOf, Leaving, Cleaning, Asked, Managed,
                              Built, LastIs, NoSet, NoDelete, SetBefore, DelBefore
  <2>5. CASE ~NextEdit(c) /\ ~Start(c)
    <3>1. pc'[c] \in {"fail_discard", "discard"}
      BY <1>2, <2>1, <2>2, <2>5 DEF DeleteEnds, SetEnds, EditFails, ContextError, StartRefused,
                                    CleanupSteps
    <3>2. Asked(PlanOf[c], l, e)
      <4>1. CommandEffect(c) \/ UNCHANGED device
        BY CallReports
      <4>2. CASE CommandEffect(c)
        BY <1>2, <4>2, EditMade DEF EditOf
      <4>3. CASE UNCHANGED device
        BY <4>3 DEF device, EditOf
      <4> QED BY <4>1, <4>2, <4>3
    <3> QED BY <2>2, <3>1, <3>2 DEF EditOf, Leaving, Cleaning, EditSteps, Asked, Managed
  <2> QED BY <2>3, <2>4, <2>5
<1>3. CASE pc[c] \notin {"delete", "set"}
  <2>1. e = cand[SidOf[c]].edits[l] /\ EditOf(c, l, e)
    <3>1. cand'[SidOf[c]].edits \in {cand[SidOf[c]].edits, NoEdits}
      BY <1>3, CallReports, EditsAfter
    <3> QED BY <1>1, <3>1
  <2>2. c \notin dead
    BY DEF CallStep, At, Begin, Enter, TryLock, LockRetry, LockCancelled, LockFails, Start,
       StartRefused, GetEnvEnds, SetupEnds, DeleteEnds, SetEnds, CommitEnds, SaveEnds,
       DiscardEnds, CloseEnds, Release
  <2>3. Reported(c)' \/ Cleaning(c)'
    BY <1>1, <2>1, <2>2, Leaves DEF EditOf, Leaving
  <2>4. pc'[c] \in EditSteps => Built(c, l, idx'[c], e, Absent)
    <3> SUFFICES ASSUME pc'[c] \in EditSteps PROVE Built(c, l, idx'[c], e, Absent)
      OBVIOUS
    <3>1. CASE pc[c] = "commit"
      <4>1. Start(c)
        BY <3>1 DEF CallStep, At, Begin, Enter, TryLock, LockRetry, LockCancelled, LockFails,
           StartRefused, GetEnvEnds, SetupEnds, DeleteEnds, SetEnds, CommitEnds, SaveEnds,
           DiscardEnds, CloseEnds, Release, ContextError, EditFails, CleanupFails, EditSteps
      <4> QED BY <2>1, <3>1, <4>1 DEF Start, EditOf, EditSteps
    <3>2. CASE pc[c] # "commit"
      <4>1. pc[c] = "setup"
        BY <1>3, <3>2 DEF CallStep, At, Begin, Enter, TryLock, LockRetry, LockCancelled, LockFails,
           Start, StartRefused, GetEnvEnds, SetupEnds, DeleteEnds, SetEnds, CommitEnds, SaveEnds,
           DiscardEnds, CloseEnds, Release, ContextError, EditFails, CleanupFails, EditSteps,
           ReturnUnlocked
      <4>2. ~Reported(c) /\ ~Cleaning(c)
        BY <4>1 DEF Path, BeforeCommit, Reported, Cleaning, EditSteps
      <4> QED BY <2>1, <2>2, <4>2 DEF EditOf, Leaving
    <3> QED BY <3>1, <3>2
  <2> QED BY <2>1, <2>3, <2>4 DEF EditOf, Leaving, Asked, Managed, Reported, Cleaning,
                                  Built, LastIs, NoSet, NoDelete, SetBefore, DelBefore
<1> QED BY <1>2, <1>3

\* An orphaned edit command adds edits of its own plan.
LEMMA OrphanEdit ==
  ASSUME TypeInv, NEW c \in Call, OrphanEnds(c), NEW l \in Leaf,
         NEW e, e = cand'[SidOf[c]].edits[l], e # Keep,
         EditOf(c, l, e) \/ e # cand[SidOf[c]].edits[l]
  PROVE  EditOf(c, l, e)'
<1>1. c \in dead' /\ pc'[c] \notin EditSteps
  BY DEF OrphanEnds, Goto, EditSteps, TypeInv, TypeOK
<1>2. Asked(PlanOf[c], l, e)
  <2>1. CASE EditOf(c, l, e)
    BY <2>1 DEF EditOf
  <2>2. CASE e # cand[SidOf[c]].edits[l]
    <3>1. CommandEffect(c)
      BY <2>2 DEF OrphanEnds, device
    <3>2. pc[c] \in {"delete", "set"}
      BY <2>2, <3>1, EditsAfter DEF NoEdits
    <3> QED BY <2>2, <3>1, <3>2, EditMade
  <2> QED BY <2>1, <2>2
<1> QED BY <1>1, <1>2 DEF EditOf, Leaving, Asked, Managed

\* OwnedInv always holds.
LEMMA OwnedInvariant == Spec => []OwnedInv
<1>1. Init => OwnedInv
  BY ConfigAssumption DEF Init, DeviceInit, OwnedInv, NoEdits
<1>2. TypeInv /\ PathInv /\ OwnedInv /\ [Next]_vars => OwnedInv'
  <2> SUFFICES ASSUME TypeInv, PathInv, OwnedInv, [Next]_vars,
                      NEW s \in Sid, NEW l \in Leaf, NEW e \in Val \cup {Absent},
                      e = cand'[s].edits[l]
               PROVE  \E d \in Call : SidOf[d] = s /\ EditOf(d, l, e)'
    BY DEF OwnedInv
  <2>0. e # Keep
    BY ConfigAssumption
  <2>1. ASSUME e = cand[s].edits[l]
        PROVE  \E d \in Call : SidOf[d] = s /\ EditOf(d, l, e)
    BY <2>1 DEF OwnedInv
  <2>2. ASSUME NEW c \in Call, CallStep(c) \/ OrphanEnds(c)
        PROVE  \E d \in Call : SidOf[d] = s /\ EditOf(d, l, e)'
    <3>1. CASE s = SidOf[c] /\ (EditOf(c, l, e) \/ e # cand[s].edits[l])
      BY <2>0, <2>2, <3>1, OwnEdit, OrphanEdit DEF PathInv
    <3>2. CASE s # SidOf[c] \/ (~EditOf(c, l, e) /\ e = cand[s].edits[l])
      <4>1. e = cand[s].edits[l]
        BY <2>2, <3>2, CallReports, OneSession DEF OrphanEnds
      <4>2. PICK d \in Call : SidOf[d] = s /\ EditOf(d, l, e)
        BY <2>1, <4>1
      <4> QED BY <2>2, <3>2, <4>2, OthersOwn
    <3> QED BY <3>1, <3>2
  <2>3. ASSUME NEW t \in Sid, Crash(t)
        PROVE  \E d \in Call : SidOf[d] = s /\ EditOf(d, l, e)'
    <3>1. UNCHANGED <<cand, idx, notes>> /\ dead \subseteq dead'
      BY <2>3 DEF Crash, device, outcome
    <3>2. PICK d \in Call : SidOf[d] = s /\ EditOf(d, l, e)
      BY <2>1, <3>1
    <3>3. pc'[d] = pc[d] \/ pc'[d] = "crashed"
      BY <2>3 DEF Crash
    <3>4. Leaving(d)'
      BY <2>3, <3>1, <3>2 DEF Crash, EditOf, Leaving, Reported, Cleaning, Over, EditSteps
    <3> QED BY <3>1, <3>2, <3>3, <3>4 DEF EditOf, EditSteps, Asked, Managed,
                                  Built, LastIs, NoSet, NoDelete, SetBefore, DelBefore
  <2>4. CASE OperatorCommit \/ UNCHANGED vars \/ \E c \in Call : Cancel(c) \/ CleanupTimeout(c)
    <3>1. UNCHANGED <<cand, dead, notes, pc, idx>>
      BY <2>4 DEF OperatorCommit, OperatorSets, vars, control, outcome, device, Cancel, CleanupTimeout
    <3>2. PICK d \in Call : SidOf[d] = s /\ EditOf(d, l, e)
      BY <2>1, <3>1
    <3> QED BY <3>1, <3>2 DEF EditOf, Leaving, Reported, Cleaning, Asked, Managed,
                                  Built, LastIs, NoSet, NoDelete, SetBefore, DelBefore
  <2> QED BY <2>2, <2>3, <2>4 DEF Next, Terminated
<1> QED BY <1>1, <1>2, TypeInvariant, PathInvariant, PTL DEF Spec

\* What a commit finds in its candidate on a leaf somebody else touched is no edit,
\* the last edit of its own plan, or one of a call that was killed or has reported
\* that it left edits behind: any other call with an edit is live and in its
\* session, where the lock admits one.
THEOREM CommitIsAccounted == Spec => CommitAccounted
<1> DEFINE Accounted(c, l) ==
             \/ running'[l] \in {Desired(PlanOf[c], running, l), running[l]}
             \/ \E d \in Call : LeavesEdits(d, c) /\ Asked(PlanOf[d], l, running'[l])
<1>1. TypeInv /\ MutualExclusion /\ OwnedInv /\ [Next]_vars =>
        [\A c \in landed' \ landed : \A l \in foreign[c] : Accounted(c, l)]_vars
  <2> SUFFICES ASSUME TypeInv, MutualExclusion, OwnedInv, Next,
                      NEW c \in landed' \ landed, NEW l \in foreign[c]
               PROVE  Accounted(c, l)
    OBVIOUS
  <2> DEFINE e == cand[SidOf[c]].edits[l]
  <2>1. /\ c \in Call /\ l \in Leaf /\ pc[c] = "commit"
        /\ running'[l] = IF e = Keep THEN running[l] ELSE e
    <3>1. c \in Call /\ pc[c] = "commit" /\ CommitSession(SidOf[c])
      BY Landing
    <3>2. foreign[c] \subseteq Leaf
      BY <3>1 DEF TypeInv, TypeOK
    <3> QED BY <3>1, <3>2 DEF CommitSession, Merged
  <2>2. CASE e = Keep
    BY <2>1, <2>2
  <2>3. CASE e # Keep
    <3>1. e \in Val \cup {Absent} /\ SidOf[c] \in Sid
      BY <2>1, <2>3, EditTyped DEF Overlay
    <3>2. PICK d \in Call : SidOf[d] = SidOf[c] /\ EditOf(d, l, e)
      BY <2>1, <3>1 DEF OwnedInv
    <3>3. CASE d = c
      <4>1. idx[c] \in Nat /\ idx[c] > Len(PlanOf[c].dels) + Len(PlanOf[c].sets)
        BY <2>1, Current DEF EditSteps
      <4>2. Built(c, l, idx[c], e, Absent)
        BY <2>1, <3>2, <3>3 DEF EditOf, EditSteps
      <4>3. Built(c, l, idx[c], e, running[l])
        BY <2>3, <4>2, BuiltKept
      <4>4. running \in Config
        BY <2>1, EditTyped
      <4>5. (IF e = Keep THEN running[l] ELSE e) = Desired(PlanOf[c], running, l)
        <5>1. \A f : Built(c, l, idx[c], f, running[l]) =>
                      (IF f = Keep THEN running[l] ELSE f) = Desired(PlanOf[c], running, l)
          BY <2>1, <4>1, <4>4, AllBuilt, ZenonT(30)
        <5> QED BY <4>3, <5>1
      <4> QED BY <2>1, <4>5
    <3>4. CASE d # c
      <4>1. d \in dead \/ c \in dead \/ Reported(d)
        <5>1. Holding(c) \/ c \in dead
          BY <2>1 DEF Holding, LockedSteps, CommandSteps, SessionSteps, EditSteps
        <5>2. Cleaning(d) => Holding(d)
          BY DEF Cleaning, Holding, LockedSteps, CommandSteps, SessionSteps, CleanupSteps
        <5> QED BY <2>1, <3>2, <3>4, <5>1, <5>2 DEF EditOf, Leaving, MutualExclusion
      <4>2. LeavesEdits(d, c)
        BY <3>2, <3>4, <4>1 DEF LeavesEdits, Reported
      <4> QED BY <2>1, <2>3, <3>2, <4>2 DEF EditOf
    <3> QED BY <3>3, <3>4
  <2> QED BY <2>2, <2>3
<1> QED BY <1>1, TypeInvariant, Exclusion, OwnedInvariant, PTL DEF Spec, CommitAccounted

-----------------------------------------------------------------------------
\* What stays behind.  A session is open while a live call is in it; after that
\* something went wrong that LeftoversReported names.
OpenFor(c) ==
  \/ c \in dead \/ "close" \in notes[c] \/ CutShort(c)
  \/ InSession(c)

OpenInv ==
  \A s \in Sid : cand[s].open => \E c \in Call : SidOf[c] = s /\ OpenFor(c)

\* A call that leaves its session open is in it, or says why.
LEMMA LeavesOpen ==
  ASSUME TypeInv, NEW c \in Call, Path(c), CallStep(c), cand'[SidOf[c]].open,
         OpenFor(c) \/ ~cand[SidOf[c]].open
  PROVE  OpenFor(c)'
<1> USE DEF TypeInv, TypeOK, At, Goto
<1>1. dead' = dead /\ notes[c] \subseteq notes'[c]
  BY CallReports
<1>2. CASE c \in dead \/ "close" \in notes[c]
  BY <1>1, <1>2 DEF OpenFor
<1>3. CASE CutShort(c)
  <2>1. Release(c)
    BY <1>3 DEF CutShort, CallStep, Begin, Enter, TryLock, LockRetry, LockCancelled, LockFails, Start,
       StartRefused, GetEnvEnds, SetupEnds, DeleteEnds, SetEnds, CommitEnds, SaveEnds, DiscardEnds,
       CloseEnds, CommandSteps, SessionSteps, EditSteps, CleanupSteps
  <2> QED BY <1>3, <2>1 DEF Release, CutShort, OpenFor
<1>4. CASE InSession(c)
  <2>1. CASE pc[c] = "close"
    <3>1. CASE Start(c)
      BY <2>1, <3>1 DEF Start, OpenFor, InSession, SessionSteps, CleanupSteps
    <3>2. CASE StartRefused(c)
      BY <2>1, <3>2 DEF StartRefused, CleanupFails, CleanupSteps, OpenFor
    <3>3. CASE CloseEnds(c)
      <4>1. PICK o \in Outcomes(c) :
              /\ Ends(c, o)
              /\ (o = "ok" /\ Goto(c, "release")) \/ (o # "ok" /\ CleanupFails(c))
        BY <3>3, Zenon DEF CloseEnds
      <4>2. CASE o = "ok"
        <5>1. TeardownSession(SidOf[c])
          BY <2>1, <4>1, <4>2 DEF Ends, CommandEffect
        <5> QED BY <5>1, EditTyped DEF TeardownSession
      <4>3. CASE o # "ok"
        BY <2>1, <4>1, <4>3 DEF CleanupFails, OpenFor
      <4> QED BY <4>2, <4>3
    <3> QED BY <2>1, <3>1, <3>2, <3>3 DEF CallStep, Begin, Enter, TryLock, LockRetry,
          LockCancelled, LockFails, GetEnvEnds, SetupEnds, DeleteEnds, SetEnds, CommitEnds, SaveEnds,
          DiscardEnds, Release
  <2>2. CASE pc[c] # "close"
    <3>1. pc[c] \in EditSteps \cup {"save", "fail_discard", "discard"}
      BY <1>4, <2>2 DEF InSession, SessionSteps, CleanupSteps
    <3>2. pc'[c] \in SessionSteps
      <4>1. EditStep(PlanOf[c], idx[c] + 1) \in EditSteps
        BY EditStepType, ExecutorAssumption
      <4>2. CASE DeleteEnds(c) \/ SetEnds(c) \/ CommitEnds(c)
        BY <3>1, <4>1, <4>2 DEF DeleteEnds, SetEnds, CommitEnds, NextEdit, EditFails, ContextError,
              EditSteps, SessionSteps, CleanupSteps
      <4>3. CASE SaveEnds(c) \/ DiscardEnds(c)
        BY <3>1, <4>3 DEF SaveEnds, DiscardEnds, ContextError, CleanupFails, EditSteps,
              SessionSteps, CleanupSteps
      <4>4. CASE Start(c) \/ StartRefused(c)
        BY <3>1, <4>4 DEF Start, StartRefused, ContextError, CleanupFails, EditSteps,
              SessionSteps, CleanupSteps
      <4> QED BY <3>1, <4>2, <4>3, <4>4 DEF CallStep, Begin, Enter, TryLock, LockRetry,
            LockCancelled, LockFails, GetEnvEnds, SetupEnds, CloseEnds, Release, EditSteps
    <3> QED BY <3>2 DEF OpenFor, InSession
  <2> QED BY <2>1, <2>2
<1>5. CASE ~OpenFor(c)
  <2>1. ~cand[SidOf[c]].open
    BY <1>5
  <2>2. CommandEffect(c) /\ pc[c] = "setup"
    <3>1. CommandEffect(c)
      BY <2>1, CallReports DEF device
    <3>2. pc[c] \notin SessionSteps
      BY <1>5 DEF OpenFor, InSession
    <3>3. pc[c] # "getenv"
      BY <2>1, <3>1 DEF CommandEffect, device
    <3> QED BY <3>1, <3>2, <3>3 DEF CommandEffect, SessionSteps, EditSteps, CleanupSteps
  <2>3. ran[c] = {}
    BY <2>2 DEF Path, BeforeCommit
  <2>4. CASE SetupEnds(c)
    <3>1. PICK o \in Outcomes(c) :
            /\ Ends(c, o)
            /\ \/ o = "ok" /\ Goto(c, EditStep(PlanOf[c], idx[c]))
               \/ o # "ok" /\ ContextError(c)
      BY <2>4, Zenon DEF SetupEnds
    <3>2. CASE o = "ok"
      <4>1. EditStep(PlanOf[c], idx[c]) \in EditSteps
        BY EditStepType, ExecutorAssumption
      <4> QED BY <3>1, <3>2, <4>1 DEF OpenFor, InSession, SessionSteps
    <3>3. CASE o # "ok"
      <4>1. o # "fail"
        BY <2>1, <3>1 DEF Ends, device
      <4>2. ctx[c] = "done"
        BY <2>2, <3>1, <3>3, <4>1 DEF Outcomes, CtxOf, CleanupSteps
      <4>3. UNCHANGED <<ctx, ran>>
        BY <2>4 DEF SetupEnds
      <4> QED BY <2>2, <2>3, <3>1, <3>3, <4>2, <4>3
              DEF ContextError, EditSteps, CutShort, OpenFor
    <3> QED BY <3>2, <3>3
  <2>5. CASE Start(c) \/ StartRefused(c)
    BY <2>1, <2>5 DEF Start, StartRefused, device
  <2> QED BY <2>2, <2>4, <2>5 DEF CallStep, Begin, Enter, TryLock, LockRetry,
        LockCancelled, LockFails, GetEnvEnds, DeleteEnds, SetEnds, CommitEnds, SaveEnds,
        DiscardEnds, CloseEnds, Release
<1> QED BY <1>1, <1>2, <1>3, <1>4, <1>5 DEF OpenFor

\* OpenInv always holds.
LEMMA OpenInvariant == Spec => []OpenInv
<1>1. Init => OpenInv
  BY DEF Init, DeviceInit, OpenInv
<1>2. TypeInv /\ PathInv /\ OpenInv /\ [Next]_vars => OpenInv'
  <2> SUFFICES ASSUME TypeInv, PathInv, OpenInv, [Next]_vars, NEW s \in Sid, cand'[s].open
               PROVE  \E d \in Call : SidOf[d] = s /\ OpenFor(d)'
    BY DEF OpenInv
  <2>1. ASSUME NEW c \in Call, CallStep(c) \/ OrphanEnds(c)
        PROVE  \E d \in Call : SidOf[d] = s /\ OpenFor(d)'
    <3>1. ASSUME NEW d \in Call, d # c, OpenFor(d) PROVE OpenFor(d)'
      <4>1. Same(d) /\ dead' = dead /\ ctx' = ctx
        BY <2>1, <3>1, OthersSame, CallReports DEF OrphanEnds, CallStep, Begin, Enter, TryLock,
           LockRetry, LockCancelled, LockFails, ReturnUnlocked, Start, StartRefused, GetEnvEnds,
           SetupEnds, DeleteEnds, SetEnds, CommitEnds, SaveEnds, DiscardEnds, CloseEnds, Release
      <4> QED BY <3>1, <4>1 DEF Same, OpenFor, CutShort, InSession
    <3>2. s # SidOf[c] => cand'[s] = cand[s]
      BY <2>1, CallReports, OneSession DEF OrphanEnds
    <3>3. CASE s = SidOf[c] /\ OrphanEnds(c)
      BY <3>3 DEF OrphanEnds, OpenFor
    <3>4. CASE s = SidOf[c] /\ CallStep(c) /\ (OpenFor(c) \/ ~cand[s].open)
      BY <3>4, LeavesOpen DEF PathInv
    <3>5. CASE s # SidOf[c] \/ (~OpenFor(c) /\ cand[s].open)
      <4>1. cand[s].open
        BY <3>2, <3>5
      <4> QED BY <3>1, <3>5, <4>1 DEF OpenInv
    <3> QED BY <2>1, <3>3, <3>4, <3>5
  <2>2. ASSUME NEW t \in Sid, Crash(t)
        PROVE  \E d \in Call : SidOf[d] = s /\ OpenFor(d)'
    <3>1. UNCHANGED <<cand, ctx, code, ran, notes>> /\ dead \subseteq dead'
      BY <2>2 DEF Crash, device, outcome, history
    <3>2. PICK d \in Call : SidOf[d] = s /\ OpenFor(d)
      BY <3>1 DEF OpenInv
    <3>3. d \in dead' \/ pc'[d] = pc[d]
      BY <2>2 DEF Crash
    <3> QED BY <3>1, <3>2, <3>3 DEF OpenFor, CutShort, InSession
  <2>3. CASE OperatorCommit \/ UNCHANGED vars \/ \E c \in Call : Cancel(c) \/ CleanupTimeout(c)
    <3>1. UNCHANGED <<cand, dead, notes, pc, code, ran>>
      BY <2>3 DEF OperatorCommit, OperatorSets, vars, control, outcome, history, device, Cancel,
                  CleanupTimeout
    <3>2. \A d \in Call : ctx[d] = "done" => ctx'[d] = "done"
      BY <2>3 DEF OperatorCommit, vars, control, Cancel, CleanupTimeout, TypeInv, TypeOK
    <3>3. PICK d \in Call : SidOf[d] = s /\ OpenFor(d)
      BY <3>1 DEF OpenInv
    <3> QED BY <3>1, <3>2, <3>3 DEF OpenFor, CutShort, InSession
  <2> QED BY <2>1, <2>2, <2>3 DEF Next, Terminated
<1> QED BY <1>1, <1>2, TypeInvariant, PathInvariant, PTL DEF Spec

\* When all calls of a process are out of their sessions, edits left under its id
\* have been reported by a call whose discard and teardown both failed, and a
\* session left open by one whose teardown failed, or the process was killed, or
\* a call was cancelled before it had a session.
THEOREM NothingLeftSilently == Spec => []LeftoversReported
<1>1. TypeInv /\ OwnedInv /\ OpenInv => LeftoversReported
  <2> SUFFICES ASSUME TypeInv, OwnedInv, OpenInv, NEW s \in Sid,
                      \A c \in Call : SidOf[c] = s => ~InSession(c)
               PROVE  /\ cand[s].edits # NoEdits =>
                           \E c \in Call : SidOf[c] = s /\ (c \in dead \/ Reported(c))
                      /\ cand[s].open =>
                           \E c \in Call : /\ SidOf[c] = s
                                           /\ c \in dead \/ "close" \in notes[c] \/ CutShort(c)
    BY DEF LeftoversReported, Reported
  <2>1. ASSUME cand[s].edits # NoEdits
        PROVE  \E c \in Call : SidOf[c] = s /\ (c \in dead \/ Reported(c))
    <3>1. cand[s].edits \in Overlay
      BY DEF TypeInv, TypeOK, DeviceTypeOK, Candidate
    <3>2. PICK l \in Leaf : cand[s].edits[l] # Keep
      BY <2>1, <3>1 DEF Overlay, NoEdits
    <3>3. cand[s].edits[l] \in Val \cup {Absent}
      BY <3>1, <3>2 DEF Overlay
    <3>4. PICK d \in Call : SidOf[d] = s /\ EditOf(d, l, cand[s].edits[l])
      BY <3>3 DEF OwnedInv
    <3>5. ~Cleaning(d)
      BY <3>4 DEF Cleaning, InSession, SessionSteps, CleanupSteps
    <3> QED BY <3>4, <3>5 DEF EditOf, Leaving
  <2>2. ASSUME cand[s].open
        PROVE  \E c \in Call : /\ SidOf[c] = s
                               /\ c \in dead \/ "close" \in notes[c] \/ CutShort(c)
    BY <2>2 DEF OpenInv, OpenFor
  <2> QED BY <2>1, <2>2
<1> QED BY <1>1, TypeInvariant, OwnedInvariant, OpenInvariant, PTL

-----------------------------------------------------------------------------
\* The refinement.

\* Nobody dies, nobody else configures, and no two calls share a candidate.
Alone ==
  /\ MayCrash = {} /\ OperatorLeaf = {}
  /\ \A c, d \in Call : SidOf[c] = SidOf[d] => c = d

BeforeSession == {"idle", "entry", "lock", "getenv", "setup"}

\* What the assumptions give the code to work with: candidates are clean when
\* they are set up, and stay the call's own.
Undisputed ==
  /\ dead = {}
  /\ \A c \in Call : /\ pc[c] # "crashed"
                     /\ foreign[c] = {}
                     /\ pc[c] \in BeforeSession => cand[SidOf[c]].edits = NoEdits

AloneInv == Alone => Undisputed

\* The invariant of the executor, from the other proof modules.
ExecutorInv == TypeInv /\ MutualExclusion /\ OutcomeInv /\ PathInv /\ CandidateInv

\* The calls past Lock: at most one.
LEMMA OneInside ==
  ASSUME MutualExclusion, dead = {}, NEW c \in Call, NEW d \in Call,
         pc[c] \in LockedSteps, pc[d] \in LockedSteps
  PROVE  c = d
  BY DEF MutualExclusion, Holding

\* A call whose child process ends leaves no trace in the others' sessions.
LEMMA NobodyDisturbed ==
  ASSUME TypeInv, MutualExclusion, Undisputed, NEW c \in Call, NEW d \in Call, c # d,
         pc[c] \in CommandSteps, Disturb(c)
  PROVE  foreign'[d] = {}
<1>1. ~InSession(d)
  BY OneInside DEF InSession, CommandSteps, LockedSteps, Undisputed
<1> QED BY <1>1 DEF Disturb, Undisputed

\* A call finds no edit in the candidate it sets up.
LEMMA CleanSetup ==
  ASSUME TypeInv, Undisputed, NEW c \in Call, pc[c] \in CommandSteps, Disturb(c),
         CommandEffect(c) \/ UNCHANGED device
  PROVE  foreign'[c] = {}
<1>1. CASE pc[c] = "setup"
  <2>1. cand'[SidOf[c]].edits = NoEdits
    BY <1>1, EditsAfter DEF Undisputed, BeforeSession
  <2> QED BY <1>1, <2>1 DEF Disturb, NoEdits
<1>2. CASE pc[c] # "setup"
  BY <1>2 DEF Disturb, Undisputed
<1> QED BY <1>1, <1>2

\* What a call's step does to the histories of all.
LEMMA ForeignStaysEmpty ==
  ASSUME TypeInv, MutualExclusion, Undisputed, NEW c \in Call, CallStep(c), NEW d \in Call
  PROVE  foreign'[d] = {}
<1>1. CASE foreign' = foreign
  BY <1>1 DEF Undisputed
<1>2. CASE pc[c] \in CommandSteps /\ Disturb(c)
  BY <1>2, NobodyDisturbed, CleanSetup, CallReports
<1>3. CASE Release(c)
  BY <1>3 DEF Release, Forget, Undisputed, TypeInv, TypeOK
<1>4. foreign' = foreign \/ (pc[c] \in CommandSteps /\ Disturb(c)) \/ Release(c)
  BY DEF CallStep, Begin, Enter, TryLock, LockRetry, LockCancelled, LockFails, ReturnUnlocked,
         Start, StartRefused, GetEnvEnds, SetupEnds, DeleteEnds, SetEnds, CommitEnds, SaveEnds,
         DiscardEnds, CloseEnds, Ends, history
<1> QED BY <1>1, <1>2, <1>3, <1>4

\* A call that has no session yet has not run a command that edits, and no step
\* leads to "crashed".
LEMMA OwnControl ==
  ASSUME TypeInv, NEW c \in Call, CallStep(c), pc[c] # "crashed"
  PROVE  /\ pc'[c] # "crashed"
         /\ pc'[c] \in BeforeSession => pc[c] \in BeforeSession /\ UNCHANGED device
<1> USE DEF TypeInv, TypeOK, At, Goto, BeforeSession
<1>1. CASE Begin(c) \/ Enter(c) \/ TryLock(c) \/ LockRetry(c) \/ LockCancelled(c) \/ LockFails(c)
  BY <1>1 DEF Begin, Enter, TryLock, LockRetry, LockCancelled, LockFails, ReturnUnlocked
<1>2. CASE Start(c)
  BY <1>2 DEF Start
<1>3. CASE StartRefused(c)
  BY <1>3 DEF StartRefused, ContextError, CleanupFails
<1>4. CASE GetEnvEnds(c)
  BY <1>4 DEF GetEnvEnds, Ends, CommandEffect, ContextError
<1>5. CASE SetupEnds(c)
  <2>1. EditStep(PlanOf[c], idx[c]) \in EditSteps
    BY EditStepType, ExecutorAssumption
  <2> QED BY <1>5, <2>1 DEF SetupEnds, ContextError, EditSteps
<1>6. CASE DeleteEnds(c) \/ SetEnds(c) \/ CommitEnds(c)
  <2>1. CASE NextEdit(c)
    <3>1. EditStep(PlanOf[c], idx[c] + 1) \in EditSteps
      BY EditStepType, ExecutorAssumption
    <3> QED BY <2>1, <3>1 DEF NextEdit, EditSteps
  <2>2. CASE \E o : EditFails(c, o)
    BY <2>2 DEF EditFails, ContextError
  <2>3. CASE CommitEnds(c) /\ ~\E o : EditFails(c, o)
    BY <2>3 DEF CommitEnds
  <2> QED BY <1>6, <2>1, <2>2, <2>3 DEF DeleteEnds, SetEnds
<1>7. CASE SaveEnds(c) \/ DiscardEnds(c) \/ CloseEnds(c) \/ Release(c)
  BY <1>7 DEF SaveEnds, DiscardEnds, CloseEnds, Release, ContextError, CleanupFails
<1> QED BY <1>1, <1>2, <1>3, <1>4, <1>5, <1>6, <1>7 DEF CallStep

\* Each step keeps AloneInv.
LEMMA AloneStep ==
  ASSUME TypeInv, MutualExclusion, AloneInv, [Next]_vars
  PROVE  AloneInv'
<1> SUFFICES ASSUME Alone, Undisputed PROVE Undisputed'
  BY DEF AloneInv, Alone
<1>1. ASSUME NEW c \in Call, CallStep(c) PROVE Undisputed'
  <2>1. dead' = {}
    BY <1>1, CallReports DEF Undisputed
  <2>2. ASSUME NEW d \in Call
        PROVE  pc'[d] # "crashed" /\ (pc'[d] \in BeforeSession => cand'[SidOf[d]].edits = NoEdits)
    <3>1. CASE d = c
      BY <1>1, <3>1, OwnControl DEF Undisputed, device
    <3>2. CASE d # c
      <4>1. SidOf[d] # SidOf[c] /\ SidOf[d] \in Sid
        BY <3>2, ExecutorAssumption DEF Alone
      <4>2. cand'[SidOf[d]] = cand[SidOf[d]]
        BY <1>1, <4>1, CallReports, OneSession
      <4>3. pc'[d] = pc[d]
        BY <1>1, <3>2, OthersSame DEF Same
      <4> QED BY <4>2, <4>3 DEF Undisputed
    <3> QED BY <3>1, <3>2
  <2> QED BY <1>1, <2>1, <2>2, ForeignStaysEmpty DEF Undisputed, NoEdits
<1>2. ASSUME NEW c \in Call, Cancel(c) \/ CleanupTimeout(c) PROVE Undisputed'
  BY <1>2 DEF Cancel, CleanupTimeout, Undisputed, device, history, NoEdits
<1>3. ASSUME NEW c \in Call, OrphanEnds(c) PROVE FALSE
  BY <1>3 DEF OrphanEnds, Undisputed
<1>4. ASSUME NEW s \in Sid, Crash(s) PROVE FALSE
  BY <1>4 DEF Crash, Alone
<1>5. CASE OperatorCommit
  BY <1>5 DEF OperatorCommit, Alone
<1>6. CASE UNCHANGED vars
  BY <1>6 DEF vars, control, history, device, Undisputed, NoEdits
<1> QED BY <1>1, <1>2, <1>3, <1>4, <1>5, <1>6 DEF Next, Terminated

-----------------------------------------------------------------------------
\* Steps of the executor as steps of ApplyAtomic.

\* The abstract answer of a call.
Answered(c) == IF pc[c] # "returned" THEN "none" ELSE IF applied[c] THEN "applied" ELSE "failed"

\* A step that changes nothing ApplyAtomic sees.
LEMMA Stutters ==
  ASSUME running' = running, saved' = saved, landed' = landed, ctx' = ctx,
         \A d \in Call : Answered(d)' = Answered(d)
  PROVE  UNCHANGED Atomic!vars
  BY DEF Atomic!vars, Answered

\* While a call is between Lock and release, no other has landed unanswered.
LEMMA NoneUnanswered ==
  ASSUME ExecutorInv, Undisputed, NEW c \in Call, pc[c] \in LockedSteps,
         NEW d \in landed, pc[d] # "returned"
  PROVE  d = c
<1>1. d \in Call /\ d \notin dead /\ pc[d] \in Steps
  BY DEF ExecutorInv, TypeInv, TypeOK, Undisputed
<1>2. pc[d] \notin BeforeCommit /\ pc[d] # "crashed"
  BY <1>1 DEF ExecutorInv, OutcomeInv, Undisputed
<1>3. pc[d] \in LockedSteps
  BY <1>1, <1>2 DEF Steps, Over, BeforeCommit
<1> QED BY <1>1, <1>3, OneInside DEF ExecutorInv, Undisputed

\* A my_commit that has its effect is the abstract replacement.
LEMMA Lands ==
  ASSUME ExecutorInv, Undisputed, NEW c \in Call, CommitEnds(c), CommandEffect(c),
         landed' = landed \cup {c}
  PROVE  Atomic!Land(c)
<1> USE DEF TypeInv, TypeOK
<1>1. pc[c] = "commit" /\ c \notin dead /\ UNCHANGED ctx
  BY DEF CommitEnds, At
<1>2. c \notin landed
  BY <1>1 DEF ExecutorInv, OutcomeInv, BeforeCommit
<1>3. CommitSession(SidOf[c])
  BY <1>1 DEF CommandEffect
<1>4. running' = Replaced(c, running)
  <2>1. \A l \in Leaf : running'[l] = Desired(PlanOf[c], running, l)
    BY <1>1, <1>3, CommitMerges DEF ExecutorInv, CandidateInv, Undisputed
  <2>2. running' = [l \in Leaf |-> running'[l]]
    BY <1>3 DEF CommitSession, Merged
  <2> QED BY <2>1, <2>2 DEF Replaced
<1>5. ASSUME NEW d \in Call PROVE Answered(d)' = Answered(d)
  <2>1. CASE d = c
    BY <1>1, <2>1 DEF ExecutorInv, CommitEnds, EditFails, ContextError, Goto, Answered, EditSteps
  <2>2. CASE d # c
    BY <2>2, OthersSame DEF ExecutorInv, CallStep, Same, Answered
  <2> QED BY <2>1, <2>2
<1>6. Atomic!Unanswered = {}
  <2>1. pc[c] \in LockedSteps
    BY <1>1 DEF LockedSteps, CommandSteps, SessionSteps, EditSteps
  <2> QED BY <1>2, <2>1, NoneUnanswered DEF Atomic!Unanswered, ExecutorInv
<1> QED BY <1>1, <1>2, <1>3, <1>4, <1>5, <1>6 DEF Atomic!Land, CommitSession, Answered

\* A save that has its effect is the abstract save.
LEMMA Saved ==
  ASSUME ExecutorInv, Undisputed, NEW c \in Call, SaveEnds(c), CommandEffect(c)
  PROVE  Atomic!Save(c)
<1> USE DEF TypeInv, TypeOK
<1>1. pc[c] = "save" /\ UNCHANGED <<ctx, landed, applied>> /\ pc'[c] = "close"
  BY DEF ExecutorInv, SaveEnds, At, ContextError, Goto, EditSteps
<1>2. c \in landed /\ PlanOf[c].save
  BY <1>1 DEF ExecutorInv, CandidateInv, Holds
<1>3. SaveRunning(SidOf[c])
  BY <1>1 DEF CommandEffect
<1>4. ASSUME NEW d \in Call PROVE Answered(d)' = Answered(d)
  <2>1. CASE d = c
    BY <1>1, <2>1 DEF Answered
  <2>2. CASE d # c
    BY <2>2, OthersSame DEF ExecutorInv, CallStep, Same, Answered
  <2> QED BY <2>1, <2>2
<1>5. Atomic!Unanswered = {c}
  <2>1. pc[c] \in LockedSteps
    BY <1>1 DEF LockedSteps, CommandSteps, SessionSteps
  <2> QED BY <1>1, <1>2, <2>1, NoneUnanswered DEF Atomic!Unanswered, ExecutorInv
<1> QED BY <1>1, <1>2, <1>3, <1>4, <1>5 DEF Atomic!Save, Saves, SaveRunning, Answered

\* A call that returns answers.
LEMMA Answers ==
  ASSUME ExecutorInv, NEW c \in Call, CallStep(c), c \notin dead, pc[c] # "returned",
         pc'[c] = "returned", pc[c] # "commit",
         UNCHANGED <<device, landed, ctx>>, applied'[c] = applied[c]
  PROVE  Atomic!Answer(c)
<1> DEFINE a == IF applied[c] THEN "applied" ELSE "failed"
<1>1. Answered(c) = "none" /\ Answered(c)' = a
  BY DEF Answered
<1>2. \A d \in Call : d # c => Answered(d)' = Answered(d)
  BY OthersSame DEF ExecutorInv, Same, Answered
<1>3. \/ c \in landed /\ a = "applied"
      \/ (c \notin landed \/ ctx[c] = "done") /\ a = "failed"
  BY DEF ExecutorInv, OutcomeInv, AppliedTruthful
<1>4. [d \in Call |-> Answered(d)'] = [[d \in Call |-> Answered(d)] EXCEPT ![c] = a]
  BY <1>1, <1>2
<1> QED BY <1>1, <1>3, <1>4 DEF Atomic!Answer, Answered, device

\* Commands other than my_commit and save show outside their session in nothing.
LEMMA Hidden ==
  ASSUME NEW c \in Call, pc[c] \notin {"commit", "save"}, CommandEffect(c) \/ UNCHANGED device
  PROVE  running' = running /\ saved' = saved
  BY DEF CommandEffect, device, SetupSession, DeleteRoot, SetLeaf, DiscardEdits, TeardownSession

\* A step of a call that neither lands, saves nor returns.
LEMMA CallStutters ==
  ASSUME ExecutorInv, NEW c \in Call, CallStep(c), UNCHANGED <<running, saved, landed, ctx>>,
         pc[c] # "returned", pc'[c] # "returned"
  PROVE  UNCHANGED Atomic!vars
<1>1. \A d \in Call : Answered(d)' = Answered(d)
  BY OthersSame DEF ExecutorInv, Same, Answered
<1> QED BY <1>1, Stutters

\* A call's step is a step of ApplyAtomic or shows in nothing.
LEMMA CallImplements ==
  ASSUME ExecutorInv, Undisputed, NEW c \in Call, CallStep(c)
  PROVE  [Atomic!Next]_Atomic!vars
<1> USE DEF ExecutorInv, TypeInv, TypeOK, At, Goto
<1>1. CASE Begin(c) \/ TryLock(c) \/ LockRetry(c) \/ Start(c)
  <2>1. /\ UNCHANGED <<running, saved, landed, ctx>>
        /\ pc[c] # "returned" /\ pc'[c] # "returned"
    BY <1>1 DEF Begin, TryLock, LockRetry, Start, device, history, CommandSteps, SessionSteps,
                EditSteps, CleanupSteps
  <2> QED BY <2>1, CallStutters
<1>2. CASE Enter(c) \/ LockCancelled(c) \/ LockFails(c) \/ Release(c)
  <2>1. /\ c \notin dead /\ pc[c] \in {"entry", "lock", "release"}
        /\ pc'[c] \in {"lock", "returned"}
        /\ UNCHANGED <<device, landed, ctx>> /\ applied'[c] = applied[c]
    BY <1>2 DEF Enter, LockCancelled, LockFails, Release, ReturnUnlocked, outcome, history
  <2>2. CASE pc'[c] = "returned"
    BY <2>1, <2>2, Answers DEF Atomic!Next
  <2>3. CASE pc'[c] # "returned"
    BY <2>1, <2>3, CallStutters DEF device
  <2> QED BY <2>2, <2>3
<1>3. CASE StartRefused(c)
  <2>1. /\ UNCHANGED <<running, saved, landed, ctx>>
        /\ pc[c] # "returned" /\ pc'[c] # "returned"
    BY <1>3 DEF StartRefused, ContextError, CleanupFails, device, history, CommandSteps,
                SessionSteps, EditSteps, CleanupSteps
  <2> QED BY <2>1, CallStutters
<1>4. CASE GetEnvEnds(c) \/ SetupEnds(c) \/ DeleteEnds(c) \/ SetEnds(c) \/ DiscardEnds(c) \/ CloseEnds(c)
  <2>1. /\ UNCHANGED <<landed, ctx>>
        /\ pc[c] \in {"getenv", "setup", "delete", "set", "fail_discard", "discard", "close"}
    BY <1>4 DEF GetEnvEnds, SetupEnds, DeleteEnds, SetEnds, DiscardEnds, CloseEnds
  <2>2. UNCHANGED <<running, saved>>
    BY <2>1, CallReports, Hidden
  <2>3. pc'[c] # "returned"
    <3>1. CASE GetEnvEnds(c) \/ SetupEnds(c)
      BY <3>1 DEF GetEnvEnds, SetupEnds, ContextError, EditStep
    <3>2. CASE DeleteEnds(c) \/ SetEnds(c)
      BY <3>2 DEF DeleteEnds, SetEnds, NextEdit, EditStep, EditFails, ContextError
    <3>3. CASE DiscardEnds(c) \/ CloseEnds(c)
      BY <3>3 DEF DiscardEnds, CloseEnds, CleanupFails
    <3> QED BY <1>4, <3>1, <3>2, <3>3
  <2> QED BY <2>1, <2>2, <2>3, CallStutters
<1>5. CASE CommitEnds(c)
  <2>1. CASE CommandEffect(c) /\ landed' = landed \cup {c}
    BY <1>5, <2>1, Lands DEF Atomic!Next
  <2>2. CASE UNCHANGED device /\ landed' = landed
    <3>1. /\ UNCHANGED <<running, saved, landed, ctx>>
          /\ pc[c] # "returned" /\ pc'[c] # "returned"
      BY <1>5, <2>2 DEF CommitEnds, EditFails, ContextError, device
    <3> QED BY <3>1, CallStutters
  <2> QED BY <1>5, <2>1, <2>2 DEF CommitEnds, Ends
<1>6. CASE SaveEnds(c)
  <2>1. CASE CommandEffect(c)
    BY <1>6, <2>1, Saved DEF Atomic!Next
  <2>2. CASE UNCHANGED device
    <3>1. /\ UNCHANGED <<running, saved, landed, ctx>>
          /\ pc[c] # "returned" /\ pc'[c] # "returned"
      BY <1>6, <2>2 DEF SaveEnds, ContextError, device
    <3> QED BY <3>1, CallStutters
  <2> QED BY <1>6, <2>1, <2>2 DEF SaveEnds, Ends
<1> QED BY <1>1, <1>2, <1>3, <1>4, <1>5, <1>6 DEF CallStep

\* So is every other step.
LEMMA StepImplements ==
  ASSUME ExecutorInv, Alone, Undisputed, [Next]_vars
  PROVE  [Atomic!Next]_Atomic!vars
<1>1. ASSUME NEW c \in Call, Cancel(c) PROVE Atomic!Cancel(c)
  <2>1. pc[c] # "returned" /\ UNCHANGED <<running, saved, landed, pc, applied>>
    BY <1>1 DEF Cancel, Over, device, outcome, history
  <2>2. {d \in Call : ctx'[d] = "done"} = {d \in Call : ctx[d] = "done"} \cup {c}
    BY <1>1 DEF Cancel, ExecutorInv, TypeInv, TypeOK
  <2> QED BY <2>1, <2>2 DEF Atomic!Cancel
<1>2. ASSUME NEW c \in Call, CleanupTimeout(c) PROVE UNCHANGED Atomic!vars
  BY <1>2, Stutters DEF CleanupTimeout, device, outcome, history, Answered
<1>3. ASSUME NEW c \in Call, OrphanEnds(c) PROVE FALSE
  BY <1>3 DEF OrphanEnds, Undisputed
<1>4. ASSUME NEW s \in Sid, Crash(s) PROVE FALSE
  BY <1>4 DEF Crash, Alone
<1>5. CASE OperatorCommit
  BY <1>5 DEF OperatorCommit, Alone
<1>6. CASE UNCHANGED vars
  BY <1>6, Stutters DEF vars, device, control, outcome, history, Answered
<1> QED BY <1>1, <1>2, <1>3, <1>4, <1>5, <1>6, CallImplements DEF Next, Terminated, Atomic!Next

\* Each call of Execute looks like one atomic replacement of the managed part of
\* the running configuration, or none, and is answered accordingly.
THEOREM Refinement == Alone => (Spec => ImplementsAtomic)
<1>1. Init => Atomic!Init
  BY DEF Init, DeviceInit, Atomic!Init
<1>2. Init => AloneInv
  BY ExecutorAssumption DEF Init, DeviceInit, AloneInv, Undisputed
<1>3. TypeInv /\ MutualExclusion /\ AloneInv /\ [Next]_vars => AloneInv'
  BY AloneStep
<1>4. Spec => []AloneInv
  BY <1>2, <1>3, TypeInvariant, Exclusion, PTL DEF Spec
<1>5. ExecutorInv /\ Alone /\ AloneInv /\ [Next]_vars => [Atomic!Next]_Atomic!vars
  BY StepImplements DEF AloneInv
<1>6. ExecutorInv <=> TypeInv /\ MutualExclusion /\ OutcomeInv /\ PathInv /\ CandidateInv
  BY DEF ExecutorInv
<1>7. Spec => []ExecutorInv
  BY <1>6, TypeInvariant, Exclusion, OutcomeInvariant, PathInvariant, CandidateInvariant, PTL
<1>8. SUFFICES ASSUME Alone PROVE Spec => ImplementsAtomic
  OBVIOUS
<1> QED BY <1>1, <1>4, <1>5, <1>7, <1>8, PTL DEF Spec, ImplementsAtomic, Atomic!Spec
=============================================================================
