-------------------------- MODULE ReconcileProofs --------------------------
(***************************************************************************)
(* Theorems about Reconcile, for any set of commands, any reset policies,  *)
(* desired lists and smoke runs, and sequences of applies of any length.   *)
(***************************************************************************)
EXTENDS Reconcile, ConfigureGrammarProofs

PlanOK ==
  /\ plan = [by |-> plan.by, roots |-> plan.roots, sets |-> plan.sets]
  /\ plan.roots \in Seq(AllowedRoots) /\ plan.sets \in Seq(Command)
  /\ \A j \in DOMAIN plan.sets : AcceptedCommand(plan.sets[j])
  /\ plan.by = "smoke" => /\ plan.sets = smokeCommands
                          /\ \/ plan.roots = << <<"interfaces", "bridge", "br0">> >>
                             \/ plan.roots = DefaultRoots

TypeInv ==
  /\ PlanOK
  /\ k \in Nat \ {0}
  /\ cand \subseteq Command /\ running \subseteq Command /\ before \subseteq Command
  /\ owned \subseteq running
  /\ \A t \in owned : AcceptedCommand(t)

\* Set command j of the plan has been run, of the command that is to run next.
Sent(j, next) == j \in DOMAIN plan.sets /\ Deletes + j < next

\* What the commands before next have made of the candidate.
Deleted(conf, next) ==
  \A t \in conf, j \in 1 .. Deletes :
    j < next /\ Covers(plan.roots[j], t) /\ plan.roots[j] \notin skipped =>
      t \in SetNames
Replaced(conf, next) ==
  \A t \in conf, j \in DOMAIN plan.sets :
    Sent(j, next) /\ Node(plan.sets[j]) = Node(t) => t \in SetNames
Present(conf, next) ==
  \A i \in DOMAIN plan.sets : Sent(i, next) =>
    \/ plan.sets[i] \in conf
    \/ \E j \in DOMAIN plan.sets : j > i /\ Node(plan.sets[j]) = Node(plan.sets[i])
OnlyPlanned(conf) ==
  /\ conf \ before \subseteq SetNames
  /\ \A t \in before \ conf :
       \/ Resets(plan.roots, t)
       \/ \E j \in DOMAIN plan.sets : Node(plan.sets[j]) = Node(t)

EditInv ==
  /\ Deleted(cand, k) /\ Replaced(cand, k) /\ Present(cand, k) /\ OnlyPlanned(cand)

PhaseInv ==
  /\ phase \in {"idle", "edit", "committed", "over"}
  /\ phase = "idle" => plan = NoPlan /\ k = 1 /\ cand = running /\ before = running
  /\ phase = "edit" => running = before
  /\ phase = "committed" => running = cand /\ k > Commands
  /\ phase = "over" => running = before \/ running = cand
  /\ plan.by = "preview" => running = before /\ phase = "over"

Inv == TypeInv /\ EditInv /\ PhaseInv

-----------------------------------------------------------------------------
\* The two policies the code itself has are made of allowed roots.
LEMMA DefaultAllowed ==
  /\ DefaultRoots \in Seq(AllowedRoots)
  /\ << <<"interfaces", "bridge", "br0">> >> \in Seq(AllowedRoots)
<1>1. DOMAIN DefaultRoots = 1 .. 5 /\ Len(DefaultRoots) = 5
  BY DEF DefaultRoots
<1>2. \A d \in 1 .. 5 : DefaultRoots[d] \in AllowedRoots
  BY <1>1 DEF AllowedRoots
<1>3. DefaultRoots = [d \in 1 .. 5 |-> DefaultRoots[d]]
  BY DEF DefaultRoots
<1>4. [d \in 1 .. 5 |-> DefaultRoots[d]] \in Seq(AllowedRoots)
  BY <1>2
<1>5. <<"interfaces", "bridge", "br0">> \in AllowedRoots
  BY DEF AllowedRoots
<1> QED BY <1>3, <1>4, <1>5

\* The commands of the smoke run pass the parser.
LEMMA SmokeAccepted ==
  /\ smokeCommands \in Seq(Command)
  /\ \A j \in DOMAIN smokeCommands :
       /\ AcceptedCommand(smokeCommands[j])
       /\ Covers(<<"interfaces", "bridge", "br0">>, smokeCommands[j])
<1>1. smokeCommands \in Seq(Command) /\ DOMAIN smokeCommands = 1 .. 3
  BY ReconcileAssumption DEF smokeCommands
<1>2. SmokeBridge = <<"set", "interfaces", "bridge", "br0">>
  BY DEF SmokeBridge
<1>3. ASSUME NEW j \in 1 .. 3
      PROVE  /\ smokeCommands[j][1] = "set" /\ smokeCommands[j][2] = "interfaces"
             /\ smokeCommands[j][3] = "bridge" /\ smokeCommands[j][4] = "br0"
             /\ Len(smokeCommands[j]) \in Nat /\ Len(smokeCommands[j]) >= 4
  BY <1>2 DEF smokeCommands
<1>4. ASSUME NEW t, Len(t) \in Nat, Len(t) >= 4, t[1] = "set", t[2] = "interfaces",
             t[3] = "bridge", t[4] = "br0"
      PROVE  AcceptedCommand(t) /\ Covers(<<"interfaces", "bridge", "br0">>, t)
  <2>1. SetPath(t)
    BY <1>4 DEF SetPath, InterfacesPath
  <2>2. AcceptedCommand(t)
    BY <1>4, <2>1 DEF AcceptedCommand, ForbiddenOperations
  <2>3. Covers(<<"interfaces", "bridge", "br0">>, t)
    BY <1>4 DEF Covers
  <2> QED BY <2>2, <2>3
<1> QED BY <1>1, <1>3, <1>4

\* A plan begun on an idle device.
LEMMA BeginKeeps ==
  ASSUME Inv, NEW by, NEW roots \in Seq(AllowedRoots), NEW sets \in Seq(Command),
         \A j \in DOMAIN sets : AcceptedCommand(sets[j]),
         by # "preview",
         by = "smoke" => /\ sets = smokeCommands
                         /\ \/ roots = << <<"interfaces", "bridge", "br0">> >>
                            \/ roots = DefaultRoots,
         Begin(by, roots, sets)
  PROVE  Inv'
<1>1. /\ plan' = [by |-> by, roots |-> roots, sets |-> sets]
      /\ cand' = running /\ running' = running /\ before' = running /\ k' = 1
      /\ phase' = "edit" /\ owned' = owned
  BY DEF Begin
<1>2. /\ plan'.by = by /\ plan'.roots = roots /\ plan'.sets = sets
  BY <1>1
<1>3. Len(roots) \in Nat
  OBVIOUS
<1>4. TypeInv'
  BY <1>1, <1>2 DEF TypeInv, PlanOK, Inv
<1>5. EditInv'
  BY <1>1, <1>2, <1>3
     DEF EditInv, Deleted, Replaced, Present, OnlyPlanned, Sent, Deletes, SetNames
<1>6. PhaseInv'
  BY <1>1, <1>2 DEF PhaseInv
<1> QED BY <1>4, <1>5, <1>6 DEF Inv

\* No plan under way on a device that holds conf.
LEMMA IdleHolds ==
  ASSUME plan = NoPlan \/ plan = [NoPlan EXCEPT !.by = "preview"],
         k = 1, cand = running, before = running, running \subseteq Command,
         owned \subseteq running, \A t \in owned : AcceptedCommand(t)
  PROVE  TypeInv /\ EditInv
<1>1. /\ plan.roots = <<>> /\ plan.sets = <<>> /\ plan.by \in {"nobody", "preview"}
      /\ plan = [by |-> plan.by, roots |-> plan.roots, sets |-> plan.sets]
  BY DEF NoPlan
<1>2. PlanOK
  BY <1>1 DEF PlanOK
<1>3. TypeInv
  BY <1>2 DEF TypeInv
<1>4. EditInv
  BY <1>1 DEF EditInv, Deleted, Replaced, Present, OnlyPlanned, Sent, Deletes, SetNames
<1> QED BY <1>3, <1>4

-----------------------------------------------------------------------------
\* The commands of a plan, one lemma for a kind.

\* The numbers of deletes and of commands of a plan.
LEMMA PlanShape ==
  ASSUME Inv
  PROVE  /\ Deletes \in Nat /\ Commands \in Nat /\ k \in Nat /\ k >= 1
         /\ DOMAIN plan.roots = 1 .. Deletes
         /\ DOMAIN plan.sets = 1 .. Len(plan.sets) /\ Len(plan.sets) \in Nat
         /\ Commands = Deletes + Len(plan.sets)
BY DEF Inv, TypeInv, PlanOK, Deletes, Commands

\* A delete empties its root in the candidate.
LEMMA DeleteKeeps == Inv /\ Delete => Inv'
<1> SUFFICES ASSUME Inv, Delete PROVE Inv'
  OBVIOUS
<1>1. /\ phase = "edit" /\ phase' = "edit" /\ k \in 1 .. Deletes /\ k' = k + 1
      /\ cand' = AfterDelete(cand, plan.roots[k])
      /\ UNCHANGED <<plan, running, before, skipped, owned>>
      /\ Deletes' = Deletes /\ SetNames' = SetNames
  BY PlanShape DEF Delete, Deletes, SetNames
<1>2. /\ cand' \subseteq cand
      /\ \A t \in cand' : ~Covers(plan.roots[k], t)
      /\ \A t \in cand \ cand' : Covers(plan.roots[k], t)
  BY <1>1 DEF AfterDelete
<1>3. TypeInv'
  BY <1>1, <1>2, PlanShape DEF TypeInv, PlanOK, Inv
<1>4. EditInv'
  <2>1. Deleted(cand, k)' 
    BY <1>1, <1>2, PlanShape DEF Deleted, EditInv, Inv
  <2>2. \A j \in DOMAIN plan.sets : ~Sent(j, k + 1)
    BY <1>1, PlanShape DEF Sent
  <2>3. Replaced(cand, k)' /\ Present(cand, k)'
    BY <1>1, <2>2, Zenon DEF Replaced, Present, Sent
  <2>4. OnlyPlanned(cand)'
    BY <1>1, <1>2, PlanShape DEF OnlyPlanned, Resets, EditInv, Inv
  <2> QED BY <2>1, <2>3, <2>4 DEF EditInv
<1>5. PhaseInv'
  BY <1>1 DEF PhaseInv, Inv
<1> QED BY <1>3, <1>4, <1>5 DEF Inv

\* A delete taken for one of something missing leaves the candidate alone.
LEMMA SkipKeeps == Inv /\ DeleteTakenForMiss => Inv'
<1> SUFFICES ASSUME Inv, DeleteTakenForMiss PROVE Inv'
  OBVIOUS
<1>1. /\ phase = "edit" /\ phase' = "edit" /\ k \in 1 .. Deletes /\ k' = k + 1
      /\ skipped' = skipped \cup {plan.roots[k]}
      /\ UNCHANGED <<plan, cand, running, before, owned>>
      /\ Deletes' = Deletes /\ SetNames' = SetNames
  BY PlanShape DEF DeleteTakenForMiss, Deletes, SetNames
<1>2. TypeInv'
  BY <1>1, PlanShape DEF TypeInv, PlanOK, Inv
<1>3. EditInv'
  <2>1. Deleted(cand, k)'
    BY <1>1, PlanShape DEF Deleted, EditInv, Inv
  <2>2. \A j \in DOMAIN plan.sets : ~Sent(j, k + 1)
    BY <1>1, PlanShape DEF Sent
  <2>3. Replaced(cand, k)' /\ Present(cand, k)'
    BY <1>1, <2>2, Zenon DEF Replaced, Present, Sent
  <2>4. OnlyPlanned(cand)'
    BY <1>1, Zenon DEF OnlyPlanned, EditInv, Inv
  <2> QED BY <2>1, <2>3, <2>4 DEF EditInv
<1>4. PhaseInv'
  BY <1>1 DEF PhaseInv, Inv
<1> QED BY <1>2, <1>3, <1>4 DEF Inv

\* A set replaces its node in the candidate.
LEMMA SetKeeps == Inv /\ Set => Inv'
<1> SUFFICES ASSUME Inv, Set PROVE Inv'
  OBVIOUS
<1> DEFINE n == k - Deletes
           s == plan.sets[n]
<1>0. /\ phase = "edit" /\ phase' = "edit" /\ k > Deletes /\ k <= Commands
      /\ k' = k + 1 /\ cand' = AfterSet(cand, s)
      /\ UNCHANGED <<plan, running, before, skipped, owned>>
  BY DEF Set
<1>1. /\ n \in DOMAIN plan.sets
      /\ Deletes' = Deletes /\ SetNames' = SetNames
      /\ phase = "edit" /\ phase' = "edit" /\ k > Deletes
      /\ k' = k + 1 /\ cand' = AfterSet(cand, s)
      /\ UNCHANGED <<plan, running, before, skipped, owned>>
  <2>1. n \in DOMAIN plan.sets
    BY <1>0, PlanShape
  <2>2. Deletes' = Deletes /\ SetNames' = SetNames
    BY <1>0 DEF Deletes, SetNames
  <2> QED BY <1>0, <2>1, <2>2
<1>2. s \in Command /\ s \in SetNames
  BY <1>1 DEF Inv, TypeInv, PlanOK, SetNames
<1>3. /\ s \in cand'
      /\ \A t \in cand' : t = s \/ (t \in cand /\ Node(t) # Node(s))
      /\ \A t \in cand \ cand' : Node(t) = Node(s)
  BY <1>1 DEF AfterSet
<1>4. TypeInv'
  BY <1>1, <1>2, <1>3, PlanShape DEF TypeInv, PlanOK, Inv
<1>5. \A j \in DOMAIN plan.sets : Sent(j, k + 1) => j = n \/ (Sent(j, k) /\ j < n)
  BY <1>1, PlanShape DEF Sent
<1>6. EditInv'
  <2>1. Deleted(cand, k)'
    BY <1>1, <1>2, <1>3, PlanShape DEF Deleted, EditInv, Inv
  <2>2. Replaced(cand, k)'
    BY <1>1, <1>2, <1>3, <1>5, Zenon DEF Replaced, Sent, EditInv, Inv
  <2>3. ASSUME NEW i \in DOMAIN plan.sets, Sent(i, k + 1)
        PROVE  \/ plan.sets[i] \in cand'
               \/ \E j \in DOMAIN plan.sets : j > i /\ Node(plan.sets[j]) = Node(plan.sets[i])
    <3>1. CASE i = n
      BY <1>3, <3>1
    <3>2. CASE Sent(i, k) /\ i < n
      <4>1. CASE plan.sets[i] \in cand
        BY <1>1, <1>3, <3>2, <4>1, PlanShape
      <4>2. CASE plan.sets[i] \notin cand
        BY <3>2, <4>2 DEF Present, EditInv, Inv
      <4> QED BY <4>1, <4>2
    <3> QED BY <1>5, <2>3, <3>1, <3>2
  <2>4. Present(cand, k)'
    BY <1>1, <2>3 DEF Present, Sent
  <2>5. OnlyPlanned(cand)'
    BY <1>1, <1>2, <1>3 DEF OnlyPlanned, EditInv, Inv
  <2> QED BY <2>1, <2>2, <2>4, <2>5 DEF EditInv
<1>7. PhaseInv'
  BY <1>1 DEF PhaseInv, Inv
<1> QED BY <1>4, <1>6, <1>7 DEF Inv

-----------------------------------------------------------------------------
\* A commit makes the candidate the running configuration.
LEMMA CommitKeeps == Inv /\ Commit => Inv'
<1> SUFFICES ASSUME Inv, Commit PROVE Inv'
  OBVIOUS
<1>1. /\ phase = "edit" /\ phase' = "committed" /\ k > Commands
      /\ running' = cand /\ owned' = (owned \cup SetNames) \cap cand
      /\ UNCHANGED <<plan, k, cand, before, skipped>>
  BY DEF Commit
<1>2. Deletes' = Deletes /\ SetNames' = SetNames /\ Commands' = Commands
  BY <1>1 DEF Deletes, SetNames, Commands
<1>3. \A t \in owned' : AcceptedCommand(t)
  BY <1>1 DEF SetNames, TypeInv, PlanOK, Inv
<1>4. TypeInv'
  BY <1>1, <1>3 DEF TypeInv, PlanOK, Inv
<1>5. EditInv'
  BY <1>1, <1>2, Zenon DEF EditInv, Deleted, Replaced, Present, OnlyPlanned, Sent, Inv
<1>6. PhaseInv'
  BY <1>1, <1>2 DEF PhaseInv, Inv
<1> QED BY <1>4, <1>5, <1>6 DEF Inv

\* An apply that ends leaves the device idle.
LEMMA EndKeeps == Inv /\ (Fail \/ Succeed) => Inv'
<1> SUFFICES ASSUME Inv, Fail \/ Succeed PROVE Inv'
  OBVIOUS
<1>1. /\ phase \in {"edit", "committed"} /\ phase' = "over"
      /\ UNCHANGED <<plan, k, cand, running, before, skipped, owned>>
  BY DEF Fail, Succeed
<1>2. Deletes' = Deletes /\ SetNames' = SetNames
  BY <1>1 DEF Deletes, SetNames
<1>3. TypeInv'
  BY <1>1 DEF TypeInv, PlanOK, Inv
<1>4. EditInv'
  BY <1>1, <1>2, Zenon DEF EditInv, Deleted, Replaced, Present, OnlyPlanned, Sent, Inv
<1>5. PhaseInv'
  BY <1>1 DEF PhaseInv, Inv
<1> QED BY <1>3, <1>4, <1>5 DEF Inv

\* IdleHolds for the state after a step.
LEMMA IdleHoldsNext ==
  ASSUME plan' = NoPlan \/ plan' = [NoPlan EXCEPT !.by = "preview"],
         k' = 1, cand' = running', before' = running', running' \subseteq Command,
         owned' \subseteq running', \A t \in owned' : AcceptedCommand(t)
  PROVE  TypeInv' /\ EditInv'
<1>1. /\ plan'.roots = <<>> /\ plan'.sets = <<>> /\ plan'.by \in {"nobody", "preview"}
      /\ plan' = [by |-> plan'.by, roots |-> plan'.roots, sets |-> plan'.sets]
  BY DEF NoPlan
<1>2. PlanOK'
  BY <1>1 DEF PlanOK
<1>3. TypeInv'
  BY <1>2 DEF TypeInv
<1>4. EditInv'
  BY <1>1 DEF EditInv, Deleted, Replaced, Present, OnlyPlanned, Sent, Deletes, SetNames
<1> QED BY <1>3, <1>4

\* Inv always holds.
LEMMA ReconcileInvariant == Spec => []Inv
<1>1. Init => Inv
  <2> SUFFICES ASSUME Init PROVE Inv
    OBVIOUS
  <2>1. TypeInv /\ EditInv
    BY IdleHolds, ReconcileAssumption DEF Init
  <2>2. PhaseInv
    BY DEF PhaseInv, Init, NoPlan
  <2> QED BY <2>1, <2>2 DEF Inv
<1>2. Inv /\ [Next]_vars => Inv'
  <2> SUFFICES ASSUME Inv, [Next]_vars PROVE Inv'
    OBVIOUS
  <2>1. CASE AgentApply
    <3>1. PICK roots \in Policies, list \in DesiredLists : Begin("agent", roots, list)
      BY <2>1 DEF AgentApply
    <3>2. /\ roots \in Seq(AllowedRoots) /\ list \in Seq(Command)
          /\ \A j \in DOMAIN list : AcceptedCommand(list[j])
      BY ReconcileAssumption
    <3> QED BY <3>1, <3>2, BeginKeeps
  <2>2. CASE Smoke
    <3>1. PICK run \in SmokeRuns, binaries \in BOOLEAN :
            LET stop == SmokeStops(run, binaries) IN
            IF stop = "no" THEN Begin("smoke", smokePolicy(run.mode), smokeCommands)
            ELSE /\ phase' = "over" /\ exit' = stop /\ before' = running
                 /\ plan' = [NoPlan EXCEPT !.by = "preview"]
                 /\ UNCHANGED <<k, cand, running, skipped, owned>>
      BY <2>2 DEF Smoke
    <3>2. CASE Begin("smoke", smokePolicy(run.mode), smokeCommands)
      <4>1. smokePolicy(run.mode) \in {DefaultRoots, << <<"interfaces", "bridge", "br0">> >>}
        BY DEF smokePolicy
      <4>2. smokePolicy(run.mode) \in Seq(AllowedRoots)
        BY <4>1, DefaultAllowed
      <4> HIDE DEF smokePolicy
      <4> QED BY <3>2, <4>1, <4>2, SmokeAccepted, BeginKeeps
    <3>3. CASE /\ phase' = "over" /\ before' = running
               /\ plan' = [NoPlan EXCEPT !.by = "preview"]
               /\ UNCHANGED <<k, cand, running, skipped, owned>>
      <4>1. phase = "idle" /\ k = 1 /\ cand = running
        BY <2>2 DEF Smoke, PhaseInv, Inv
      <4>2. TypeInv' /\ EditInv'
        BY <3>3, <4>1, IdleHoldsNext DEF TypeInv, Inv
      <4>3. PhaseInv'
        BY <3>3, <4>1 DEF PhaseInv, NoPlan
      <4> QED BY <4>2, <4>3 DEF Inv
    <3> QED BY <3>1, <3>2, <3>3
  <2>3. CASE Return
    <3>1. TypeInv' /\ EditInv'
      BY <2>3, IdleHoldsNext DEF Return, TypeInv, Inv
    <3>2. PhaseInv'
      BY <2>3 DEF Return, PhaseInv, NoPlan
    <3> QED BY <3>1, <3>2 DEF Inv
  <2>4. CASE Operator
    <3>1. PICK t \in OperatorCommands :
            /\ running' = IF t \in running THEN running \ {t} ELSE AfterSet(running, t)
            /\ owned' = owned \cap (running' \ {t})
      BY <2>4 DEF Operator
    <3>2. running' \subseteq Command
      BY <3>1, ReconcileAssumption DEF AfterSet, TypeInv, Inv
    <3>3. owned' \subseteq running' /\ \A u \in owned' : AcceptedCommand(u)
      BY <3>1 DEF TypeInv, Inv
    <3>4. /\ phase = "idle" /\ plan' = NoPlan /\ k' = 1 /\ phase' = "idle"
          /\ cand' = running' /\ before' = running'
      BY <2>4 DEF Operator, PhaseInv, Inv
    <3>5. TypeInv' /\ EditInv'
      BY <3>2, <3>3, <3>4, IdleHoldsNext
    <3>6. PhaseInv'
      BY <3>4 DEF PhaseInv, NoPlan
    <3> QED BY <3>5, <3>6 DEF Inv
  <2>5. CASE UNCHANGED vars
    BY <2>5 DEF vars, Inv, TypeInv, PlanOK, EditInv, Deleted, Replaced, Present,
                OnlyPlanned, Sent, Deletes, Commands, SetNames, PhaseInv
  <2> QED BY <2>1, <2>2, <2>3, <2>4, <2>5, DeleteKeeps, SkipKeeps, SetKeeps,
             CommitKeeps, EndKeeps DEF Next
<1> QED BY <1>1, <1>2, PTL DEF Spec

-----------------------------------------------------------------------------
\* At a commit every command of the plan has been run.
LEMMA AllSent ==
  ASSUME Inv, phase = "committed"
  PROVE  /\ running = cand
         /\ \A j \in DOMAIN plan.sets : Sent(j, k)
         /\ \A j \in 1 .. Deletes : j < k
BY PlanShape DEF Sent, PhaseInv, Inv

\* After every commit the running configuration holds below the plan's roots
\* exactly the plan's commands, of each node the last.
THEOREM ManagedReplaced == Spec => []ManagedExactly
<1>1. Inv => ManagedExactly
  BY AllSent, Zenon DEF ManagedExactly, Inv, EditInv, Deleted, Present
<1> QED BY <1>1, ReconcileInvariant, PTL

\* A commit takes away nothing but what its plan resets or replaces.
THEOREM RestKept == Spec => []UnmanagedKept
<1>1. Inv => UnmanagedKept
  BY AllSent, Zenon DEF UnmanagedKept, Inv, EditInv, OnlyPlanned
<1> QED BY <1>1, ReconcileInvariant, PTL

\* What earlier applies leave behind after an apply under the default policy is
\* ethernet descriptions, whatever policies they were made under.
THEOREM OnlyDescriptionsPileUp == Spec => []ResidueConfined
<1>1. Inv => ResidueConfined
  <2> SUFFICES ASSUME Inv, phase = "committed", plan.roots = DefaultRoots, skipped = {},
                      NEW t \in owned \ SetNames
               PROVE  /\ EthernetDescription(t)
                      /\ \A j \in DOMAIN plan.sets : Node(plan.sets[j]) # Node(t)
    BY DEF ResidueConfined
  <2>1. t \in cand /\ t \in Command /\ AcceptedCommand(t)
    BY AllSent DEF Inv, TypeInv
  <2>2. \A j \in DOMAIN plan.sets : Node(plan.sets[j]) # Node(t)
    BY <2>1, AllSent, Zenon DEF Inv, EditInv, Replaced
  <2>3. Len(t) \in Nat
    BY <2>1, ReconcileAssumption
  <2>4. ~Resets(DefaultRoots, t)
    <3>1. DOMAIN DefaultRoots = 1 .. Deletes
      BY PlanShape
    <3>2. \A j \in 1 .. Deletes : ~Covers(plan.roots[j], t)
      BY <2>1, AllSent DEF Inv, EditInv, Deleted
    <3> QED BY <3>1, <3>2 DEF Resets
  <2>5. EthernetDescription(t)
    BY <2>1, <2>3, <2>4, AllowlistsAgree
  <2> QED BY <2>2, <2>5
<1> QED BY <1>1, ReconcileInvariant, PTL

\* A targeted smoke run changes nothing outside interfaces bridge br0, and one
\* that stops before Apply changes nothing.
THEOREM SmokeStaysOnItsBridge == Spec => []SmokeConfined
<1>1. Inv => SmokeConfined
  <2> DEFINE target == <<"interfaces", "bridge", "br0">>
  <2> SUFFICES ASSUME Inv, plan.by = "smoke", plan.roots # DefaultRoots,
                      NEW t \in (before \ running) \cup (running \ before)
               PROVE  Covers(target, t)
    BY DEF SmokeConfined, Inv, PhaseInv
  <2>1. plan.roots = <<target>> /\ plan.sets = smokeCommands
    BY DEF Inv, TypeInv, PlanOK
  <2>2. running = cand /\ t \in Command
    BY DEF Inv, TypeInv, PhaseInv, NoPlan
  <2>3. \A j \in DOMAIN plan.sets : plan.sets[j] \in Command /\ Covers(target, plan.sets[j])
    BY <2>1, SmokeAccepted
  <2>4. target \in AllowedRoots
    BY DEF AllowedRoots
  <2>5. CASE t \in cand \ before
    BY <2>3, <2>5 DEF Inv, EditInv, OnlyPlanned, SetNames
  <2>6. CASE t \in before \ cand
    <3>1. CASE Resets(plan.roots, t)
      BY <2>1, <3>1 DEF Resets
    <3>2. CASE \E j \in DOMAIN plan.sets : Node(plan.sets[j]) = Node(t)
      BY <2>2, <2>3, <2>4, <3>2, ReconcileAssumption
    <3> QED BY <2>6, <3>1, <3>2 DEF Inv, EditInv, OnlyPlanned
  <2> QED BY <2>2, <2>5, <2>6
<1> QED BY <1>1, ReconcileInvariant, PTL

\* A smoke run that says so has made its candidate the running configuration,
\* after every command of its plan.
ExitInv ==
  phase = "over" /\ plan.by = "smoke" /\ exit = "0" => running = cand /\ k > Commands

\* Only a run that has committed its last command ends so.
LEMMA ExitStep == Inv /\ ExitInv /\ [Next]_vars => ExitInv'
<1> SUFFICES ASSUME Inv, ExitInv, [Next]_vars,
                    phase' = "over", plan'.by = "smoke", exit' = "0"
             PROVE  running' = cand' /\ k' > Commands'
  BY DEF ExitInv
<1>1. CASE AgentApply \/ Delete \/ DeleteTakenForMiss \/ Set \/ Commit \/ Return \/ Operator
  BY <1>1 DEF AgentApply, Begin, Delete, DeleteTakenForMiss, Set, Commit, Return, Operator, Inv,
       PhaseInv
<1>2. CASE Smoke
  <2>1. plan' = [NoPlan EXCEPT !.by = "preview"]
    BY <1>2 DEF Smoke, Begin
  <2> QED BY <2>1 DEF NoPlan
<1>3. CASE Fail
  BY <1>3 DEF Fail, ExitWith
<1>4. CASE Succeed
  BY <1>4 DEF Succeed, Inv, PhaseInv, Commands, Deletes
<1>5. CASE UNCHANGED vars
  BY <1>5 DEF vars, ExitInv, Commands, Deletes
<1> QED BY <1>1, <1>2, <1>3, <1>4, <1>5 DEF Next

\* A smoke run that exits with status 0 has left its bridge as it wants it.
THEOREM SmokeExitsTruthfully == Spec => []SmokeExitTruthful
<1>1. Inv /\ ExitInv => SmokeExitTruthful
  <2> DEFINE target == <<"interfaces", "bridge", "br0">>
  <2> SUFFICES ASSUME Inv, running = cand, k > Commands, plan.by = "smoke"
               PROVE  /\ \A j \in DOMAIN smokeCommands : smokeCommands[j] \in running
                      /\ skipped = {} => \A t \in running :
                           Covers(target, t) => \E j \in DOMAIN smokeCommands : t = smokeCommands[j]
    BY DEF SmokeExitTruthful, ExitInv
  <2>1. /\ plan.sets = smokeCommands
        /\ plan.roots = <<target>> \/ plan.roots = DefaultRoots
    BY DEF Inv, TypeInv, PlanOK
  <2>2. /\ \A j \in DOMAIN plan.sets : Sent(j, k)
        /\ \A j \in 1 .. Deletes : j < k
    BY PlanShape DEF Sent
  <2>3. ASSUME NEW j \in DOMAIN smokeCommands PROVE smokeCommands[j] \in running
    <3>1. \A l \in DOMAIN smokeCommands : l > j => Node(smokeCommands[l]) # Node(smokeCommands[j])
      BY ReconcileAssumption, SmokeAccepted
    <3> QED BY <2>1, <2>2, <3>1, Zenon DEF Inv, EditInv, Present
  <2>4. \E d \in 1 .. Deletes : \A t : Covers(target, t) => Covers(plan.roots[d], t)
    <3>1. 1 \in DOMAIN plan.roots
      BY <2>1 DEF DefaultRoots
    <3>2. plan.roots[1] = target \/ plan.roots[1] = <<"interfaces", "bridge">>
      BY <2>1 DEF DefaultRoots
    <3>3. \A t : Covers(target, t) => Covers(<<"interfaces", "bridge">>, t)
      BY DEF Covers
    <3> QED BY <3>1, <3>2, <3>3, PlanShape
  <2>5. ASSUME skipped = {}, NEW t \in running, Covers(target, t)
        PROVE  t \in SetNames
    BY <2>2, <2>4, <2>5 DEF Inv, EditInv, Deleted
  <2>6. ASSUME NEW t \in SetNames PROVE \E j \in DOMAIN smokeCommands : t = smokeCommands[j]
    BY <2>1 DEF SetNames
  <2> QED BY <2>3, <2>5, <2>6
<1>2. Init => ExitInv
  BY DEF Init, ExitInv
<1> QED BY <1>1, <1>2, ExitStep, ReconcileInvariant, PTL DEF Spec
=============================================================================
