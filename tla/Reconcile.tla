----------------------------- MODULE Reconcile -----------------------------
(***************************************************************************)
(* One device over a sequence of applies, told apart by their set commands *)
(* and not by leaves: the agent's, each with the reset policy of the       *)
(* engine it used (src/apply/options.go, planner.go), those of the smoke   *)
(* command (src/cmd/vyos-apply-smoke/main.go), and between them a human.   *)
(* The executor replays the roots of a plan as deletes, then its sets, in  *)
(* a candidate of its own (src/apply/default_executor.go); that it does so *)
(* alone, and commits all or nothing, is what ApplyExecutor shows.         *)
(*                                                                         *)
(* A configuration is the set of commands that "show configuration         *)
(* commands" prints.                                                       *)
(***************************************************************************)
EXTENDS ConfigureGrammar

CONSTANTS Command,         \* commands a configuration may hold
          Policies,        \* bound: reset policies of the agent's engines
          DesiredLists,    \* bound: set commands of the agent's inputs, parsed
          Node(_),         \* the node a command sets: what a set replaces
          OperatorCommands,\* bound: commands a human sets or deletes
          SmokeRuns        \* bound: command lines of the smoke command

TargetedModes == {"", "minimal", "bridge", "minimal-targeted"}
SmokeModes == TargetedModes \cup {"minimal-managed"}
SmokeBridge == <<"set", "interfaces", "bridge", "br0">>
smokeCommands == << SmokeBridge \o <<"address", "dhcp">>,
                    SmokeBridge \o <<"description", "OLG_APPLY_SMOKE_TEST">>,
                    SmokeBridge \o <<"member", "interface", "eth0">> >>
smokePolicy(mode) ==
  IF mode \in TargetedModes THEN << <<"interfaces", "bridge", "br0">> >> ELSE DefaultRoots

\* A deleted root takes a node away with every value of it, and the smoke
\* commands set three nodes.
ASSUME ReconcileAssumption ==
  /\ Command \subseteq Seq(STRING) /\ smokeCommands \in Seq(Command)
  /\ Policies \subseteq Seq(AllowedRoots) /\ DesiredLists \subseteq Seq(Command)
  /\ \A list \in DesiredLists : \A j \in DOMAIN list : AcceptedCommand(list[j])
  /\ OperatorCommands \subseteq Command
  /\ \A t, u \in Command : Node(t) = Node(u) =>
       /\ EthernetDescription(t) <=> EthernetDescription(u)
       /\ \A root \in AllowedRoots : Covers(root, t) <=> Covers(root, u)
  /\ \A j, l \in DOMAIN smokeCommands :
       Node(smokeCommands[j]) = Node(smokeCommands[l]) => j = l

VARIABLES phase,      \* "idle", "edit", "committed", "over"
          plan, k,    \* the apply under way and its next command, deletes first
          cand,       \* its candidate
          running,    \* the running configuration
          exit,       \* what the smoke command exited with last
          before,     \* history: running when the apply began
          skipped,    \* history: roots whose delete failed and was taken for a miss
          owned       \* history: commands of the running configuration an apply set

vars == <<phase, plan, k, cand, running, exit, before, skipped, owned>>

NoPlan == [by |-> "nobody", roots |-> <<>>, sets |-> <<>>]

Init ==
  /\ phase = "idle" /\ plan = NoPlan /\ k = 1
  /\ running \in SUBSET OperatorCommands /\ cand = running
  /\ exit = "none"
  /\ before = running /\ skipped = {} /\ owned = {}

-----------------------------------------------------------------------------
\* The device.

AfterDelete(conf, root) == {t \in conf : ~Covers(root, t)}
AfterSet(conf, t) == {u \in conf : Node(u) # Node(t)} \cup {t}

-----------------------------------------------------------------------------
\* What an apply is asked for.

Begin(by, roots, sets) ==
  /\ phase = "idle"
  /\ phase' = "edit" /\ plan' = [by |-> by, roots |-> roots, sets |-> sets] /\ k' = 1
  /\ cand' = running
  /\ before' = running /\ skipped' = {} /\ exit' = "none"
  /\ UNCHANGED <<running, owned>>

AgentApply == \E roots \in Policies, list \in DesiredLists : Begin("agent", roots, list)

\* Why a run stops before Apply, in the order runWithContext asks.
SmokeStops(run, binaries) ==
  IF ~run.flags \/ ~run.confirmed THEN "2"
  ELSE IF ~run.skip /\ ~binaries THEN "1"
  ELSE IF run.mode \notin SmokeModes THEN "2"
  ELSE IF run.target # "vyos" \/ run.uuid = "" THEN "1"
  ELSE IF run.skip THEN "0" ELSE "no"

\* Mutant: the preview is not the end of a run with --skip-apply.
SmokeAlways ==
  /\ phase = "idle"
  /\ \E run \in SmokeRuns, binaries \in BOOLEAN :
       LET stop == SmokeStops([run EXCEPT !.skip = FALSE], binaries) IN
       IF stop = "no"
       THEN Begin(IF run.skip THEN "preview" ELSE "smoke", smokePolicy(run.mode), smokeCommands)
       ELSE /\ phase' = "over" /\ exit' = stop /\ before' = running
            /\ plan' = [NoPlan EXCEPT !.by = "preview"]
            /\ UNCHANGED <<k, cand, running, skipped, owned>>

\* A run that ends before Apply is kept as one by "preview".
Smoke ==
  /\ phase = "idle"
  /\ \E run \in SmokeRuns, binaries \in BOOLEAN :
       LET stop == SmokeStops(run, binaries) IN
       IF stop = "no" THEN Begin("smoke", smokePolicy(run.mode), smokeCommands)
       ELSE /\ phase' = "over" /\ exit' = stop /\ before' = running
            /\ plan' = [NoPlan EXCEPT !.by = "preview"]
            /\ UNCHANGED <<k, cand, running, skipped, owned>>

-----------------------------------------------------------------------------
\* Execute.

Deletes == Len(plan.roots)
Commands == Deletes + Len(plan.sets)

\* Mutant: a root with nothing under it ends the loop.
DeleteBreaks ==
  /\ phase = "edit" /\ k <= Deletes
  /\ cand' = AfterDelete(cand, plan.roots[k])
  /\ k' = IF cand' = cand THEN Deletes + 1 ELSE k + 1
  /\ UNCHANGED <<phase, plan, running, exit, before, skipped, owned>>

\* Mutant: a root is cut to its first two words.
DeleteBroad ==
  /\ phase = "edit" /\ k <= Deletes
  /\ cand' = AfterDelete(cand, SubSeq(plan.roots[k], 1, 2))
  /\ k' = k + 1
  /\ UNCHANGED <<phase, plan, running, exit, before, skipped, owned>>

Delete ==
  /\ phase = "edit" /\ k <= Deletes
  /\ cand' = AfterDelete(cand, plan.roots[k])
  /\ k' = k + 1
  /\ UNCHANGED <<phase, plan, running, exit, before, skipped, owned>>

\* The delete fails, and its output says of something that it does not exist.
DeleteTakenForMiss ==
  /\ phase = "edit" /\ k <= Deletes
  /\ skipped' = skipped \cup {plan.roots[k]}
  /\ k' = k + 1
  /\ UNCHANGED <<phase, plan, cand, running, exit, before, owned>>

\* Mutant: a command is added to the values of its node.
SetAdds ==
  /\ phase = "edit" /\ Deletes < k /\ k <= Commands
  /\ cand' = cand \cup {plan.sets[k - Deletes]}
  /\ k' = k + 1
  /\ UNCHANGED <<phase, plan, running, exit, before, skipped, owned>>

Set ==
  /\ phase = "edit" /\ Deletes < k /\ k <= Commands
  /\ cand' = AfterSet(cand, plan.sets[k - Deletes])
  /\ k' = k + 1
  /\ UNCHANGED <<phase, plan, running, exit, before, skipped, owned>>

SetNames == {plan.sets[j] : j \in DOMAIN plan.sets}

Commit ==
  /\ phase = "edit" /\ k > Commands
  /\ running' = cand
  /\ owned' = (owned \cup SetNames) \cap cand
  /\ phase' = "committed"
  /\ UNCHANGED <<plan, k, cand, exit, before, skipped>>

\* Any error ends an edit in a discard; after a commit it is a save, close or
\* release that failed.
ExitWith(status) == exit' = IF plan.by = "agent" THEN "none" ELSE status

\* Mutant: the smoke command does not look at the error of Apply.
FailSilent ==
  /\ phase \in {"edit", "committed"}
  /\ phase' = "over" /\ ExitWith("0")
  /\ UNCHANGED <<plan, k, cand, running, before, skipped, owned>>

Fail ==
  /\ phase \in {"edit", "committed"}
  /\ phase' = "over" /\ ExitWith("1")
  /\ UNCHANGED <<plan, k, cand, running, before, skipped, owned>>

Succeed ==
  /\ phase = "committed"
  /\ phase' = "over" /\ ExitWith("0")
  /\ UNCHANGED <<plan, k, cand, running, before, skipped, owned>>

\* The call is over, and its candidate with it.
Return ==
  /\ phase = "over"
  /\ phase' = "idle" /\ plan' = NoPlan /\ k' = 1 /\ cand' = running
  /\ before' = running /\ skipped' = {} /\ exit' = "none"
  /\ UNCHANGED <<running, owned>>

\* A human between two applies.
Operator ==
  /\ phase = "idle"
  /\ \E t \in OperatorCommands :
       /\ running' = IF t \in running THEN running \ {t} ELSE AfterSet(running, t)
       /\ owned' = owned \cap (running' \ {t})
  /\ cand' = running' /\ before' = running'
  /\ UNCHANGED <<phase, plan, k, exit, skipped>>

Next == AgentApply \/ Smoke \/ Delete \/ DeleteTakenForMiss \/ Set \/ Commit
          \/ Fail \/ Succeed \/ Return \/ Operator
Spec == Init /\ [][Next]_vars

-----------------------------------------------------------------------------
\* Properties.

\* Whatever was there, by another policy, another list or a human, a commit
\* leaves below the roots of its plan exactly the commands of its plan, of two
\* values of one node the last; a root whose delete was taken for a miss aside.
ManagedExactly ==
  phase = "committed" =>
    /\ \A t \in running, j \in 1 .. Deletes :
         Covers(plan.roots[j], t) /\ plan.roots[j] \notin skipped => t \in SetNames
    /\ \A i \in DOMAIN plan.sets :
         \/ plan.sets[i] \in running
         \/ \E j \in DOMAIN plan.sets : j > i /\ Node(plan.sets[j]) = Node(plan.sets[i])

\* What a commit takes away is below a root of its plan or replaced by a
\* command of its plan: the rest of the device is kept.
UnmanagedKept ==
  phase = "committed" =>
    \A t \in before \ running :
      \/ Resets(plan.roots, t)
      \/ \E j \in DOMAIN plan.sets : Node(plan.sets[j]) = Node(t)

\* However narrow the policies of the applies before it, after an apply under
\* the default policy whose deletes all ran the commands that an earlier apply
\* left behind are ethernet descriptions, of interfaces it does not describe.
ResidueConfined ==
  phase = "committed" /\ plan.roots = DefaultRoots /\ skipped = {} =>
    \A t \in owned \ SetNames :
      /\ EthernetDescription(t)
      /\ \A j \in DOMAIN plan.sets : Node(plan.sets[j]) # Node(t)

\* A targeted smoke run touches nothing but interfaces bridge br0, and a run
\* that was not confirmed, is a preview or fails before Apply touches nothing.
SmokeConfined ==
  /\ plan.by = "smoke" /\ plan.roots # DefaultRoots =>
       \A t \in (before \ running) \cup (running \ before) :
         Covers(<<"interfaces", "bridge", "br0">>, t)
  /\ plan.by = "preview" => running = before

\* Exit status 0 without --skip-apply means that the smoke bridge is up: all of
\* it is running, and nothing else below br0 is, unless its delete was skipped.
SmokeExitTruthful ==
  phase = "over" /\ plan.by = "smoke" /\ exit = "0" =>
    /\ \A j \in DOMAIN smokeCommands : smokeCommands[j] \in running
    /\ skipped = {} => \A t \in running :
         Covers(<<"interfaces", "bridge", "br0">>, t) => \E j \in DOMAIN smokeCommands : t = smokeCommands[j]
=============================================================================
