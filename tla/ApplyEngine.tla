----------------------------- MODULE ApplyEngine -----------------------------
(***************************************************************************)
(* One engine of the apply package, from New to the Result of an Apply     *)
(* (src/apply/engine.go, options.go, planner.go, policy.go, parser.go):    *)
(* the options are applied in order, the input is validated and parsed     *)
(* line by line, and the plan goes to an executor that may be the          *)
(* caller's, and so may answer anything.                                   *)
(***************************************************************************)
EXTENDS ConfigureGrammar, FiniteSetsExt

CONSTANTS OptionLists,   \* bound: the argument lists of New
          Inputs         \* bound: the inputs of Apply

ASSUME InputsAssumption ==
  \A i \in Inputs :
    /\ DOMAIN i.lines = 1 .. Len(i.lines) /\ Len(i.lines) \in Nat
    /\ \A j \in DOMAIN i.lines : i.lines[j].tokens \in Seq(STRING)

ASSUME OptionsAssumption ==
  \A list \in OptionLists :
    /\ DOMAIN list = 1 .. Len(list) /\ Len(list) \in Nat
    /\ \A j \in DOMAIN list :
         /\ list[j].op = "executor" => list[j].value \in {"custom", "nil"}
         /\ list[j].op = "save" => list[j].value \in BOOLEAN

\* Option: [op, value]; a nil option has op "nil", an option of the caller's own
\* that fails has op "foreign".  A reset root is given as its words.
\* Input: [ctx, target, uuid, lines].
PackageCodes == {"invalid_input", "empty_desired_commands", "invalid_command", "plan_failed",
                 "executor_failed", "delete_failed", "set_failed", "commit_failed",
                 "save_failed", "discard_failed", "apply_failed"}
\* A Code is a string: an executor of the caller's may have codes of its own.
Codes == PackageCodes \cup {"none", "callers_own"}
\* What an executor may return for an error: any code, its own or one the package
\* gives to failures of its own; or an error without a code ("uncoded").
ExecErrors == Codes \cup {"uncoded"}
NoResult == [applied |-> FALSE, saved |-> FALSE, sets |-> <<>>, dels |-> <<>>]

VARIABLES phase,      \* "new", "ready", "parse", "execute", "done"
          opts, k,    \* the options, and the next one
          engine,     \* executor, saveAfterCommit, resetPolicy
          input, n,   \* the input, and its next line
          commands,   \* the set commands found so far
          executed,   \* the plans an executor was given
          result, err \* what New or Apply returned

vars == <<phase, opts, k, engine, input, n, commands, executed, result, err>>

Init ==
  /\ phase = "new"
  /\ opts \in OptionLists /\ k = 1
  /\ engine = [executor |-> "default", save |-> FALSE, roots |-> DefaultRoots]
  /\ input \in Inputs /\ n = 1
  /\ commands = <<>>
  /\ executed = {}
  /\ result = NoResult /\ err = "none"

Return(res, code) ==
  /\ phase' = "done"
  /\ result' = res
  /\ err' = code
  /\ UNCHANGED <<opts, input>>

-----------------------------------------------------------------------------
\* New: the first option that fails ends it, with the code of its error, which
\* is invalid_input for all of them (wrapOptionError).

PolicyOK(roots) == \A j \in DOMAIN roots : roots[j] \in AllowedRoots

OptionFails(o) ==
  \/ o.op = "foreign"
  \/ o.op = "executor" /\ o.value = "nil"
  \/ o.op = "policy" /\ ~PolicyOK(o.value)

\* Mutant: an option that fails is left out.
ApplyOptionContinues ==
  /\ phase = "new" /\ k \in DOMAIN opts
  /\ LET o == opts[k] IN
       engine' = CASE OptionFails(o) -> engine
                   [] o.op = "executor" -> [engine EXCEPT !.executor = o.value]
                   [] o.op = "save" -> [engine EXCEPT !.save = o.value]
                   [] o.op = "policy" -> [engine EXCEPT !.roots = o.value]
                   [] OTHER -> engine
  /\ k' = k + 1
  /\ UNCHANGED <<phase, opts, input, result, err, n, commands, executed>>

ApplyOption ==
  /\ phase = "new" /\ k \in DOMAIN opts
  /\ LET o == opts[k] IN
       IF OptionFails(o)
       THEN Return(NoResult, "invalid_input") /\ UNCHANGED <<k, engine>>
       ELSE /\ engine' = CASE o.op = "executor" -> [engine EXCEPT !.executor = o.value]
                           [] o.op = "save" -> [engine EXCEPT !.save = o.value]
                           [] o.op = "policy" -> [engine EXCEPT !.roots = o.value]
                           [] OTHER -> engine
            /\ k' = k + 1
            /\ UNCHANGED <<phase, opts, input, result, err>>
  /\ UNCHANGED <<n, commands, executed>>

EngineBuilt ==
  /\ phase = "new" /\ k \notin DOMAIN opts
  /\ phase' = "ready"
  /\ UNCHANGED <<opts, k, engine, input, n, commands, executed, result, err>>

-----------------------------------------------------------------------------
\* Prepare

InputFault ==
  IF input.ctx # "live" \/ input.target # "vyos" \/ input.uuid = "" THEN "invalid_input"
  ELSE IF \A j \in DOMAIN input.lines : input.lines[j].kind = "blank"
       THEN "empty_desired_commands" ELSE "none"

ValidateInput ==
  /\ phase = "ready"
  /\ IF InputFault # "none" THEN Return(NoResult, InputFault)
     ELSE phase' = "parse" /\ UNCHANGED <<opts, input, result, err>>
  /\ UNCHANGED <<k, engine, n, commands, executed>>

\* Mutant: a line that is not accepted is ignored.
ParseLineIgnoring ==
  /\ phase = "parse" /\ n \in DOMAIN input.lines
  /\ commands' = IF input.lines[n].kind # "blank" /\ AcceptedLine(input.lines[n])
                 THEN Append(commands, input.lines[n].tokens) ELSE commands
  /\ n' = n + 1
  /\ UNCHANGED <<k, engine, executed, phase, opts, input, result, err>>

ParseLine ==
  /\ phase = "parse" /\ n \in DOMAIN input.lines
  /\ LET line == input.lines[n] IN
       \/ line.kind = "blank" /\ UNCHANGED <<phase, opts, input, commands, result, err>>
       \/ /\ line.kind # "blank" /\ ~AcceptedLine(line)
          /\ Return(NoResult, "invalid_command") /\ UNCHANGED commands
       \/ /\ line.kind # "blank" /\ AcceptedLine(line)
          /\ commands' = Append(commands, line.tokens)
          /\ UNCHANGED <<phase, opts, input, result, err>>
  /\ n' = n + 1
  /\ UNCHANGED <<k, engine, executed>>

Plan == [dels |-> engine.roots, sets |-> commands, commit |-> TRUE, save |-> engine.save]

\* parseCommands asks again for at least one command.
LinesParsed ==
  /\ phase = "parse" /\ n \notin DOMAIN input.lines
  /\ IF commands = <<>> THEN Return(NoResult, "empty_desired_commands")
     ELSE phase' = "execute" /\ UNCHANGED <<opts, input, result, err>>
  /\ UNCHANGED <<k, engine, n, commands, executed>>

-----------------------------------------------------------------------------
\* Execute, and what Apply makes of the executor's answer.

\* Mutant: the executor's Applied is believed whatever its error.
ResultOfBelieving(applied, saved, e) ==
  [applied |-> applied, saved |-> Plan.save /\ saved,
   sets |-> Plan.sets, dels |-> Plan.dels]

ResultOf(applied, saved, e) ==
  [applied |-> applied /\ e \notin {"delete_failed", "set_failed", "commit_failed"},
   saved |-> Plan.save /\ saved,
   sets |-> Plan.sets, dels |-> Plan.dels]

\* Mutant: an error without a code is returned as it is.
ExecuteUncoded ==
  /\ phase = "execute"
  /\ executed' = executed \cup {Plan}
  /\ \E applied, saved \in BOOLEAN, e \in ExecErrors : Return(ResultOf(applied, saved, e), e)
  /\ UNCHANGED <<k, engine, n, commands>>

Execute ==
  /\ phase = "execute"
  /\ executed' = executed \cup {Plan}
  /\ \E applied, saved \in BOOLEAN, e \in ExecErrors :
       Return(ResultOf(applied, saved, e), IF e = "uncoded" THEN "executor_failed" ELSE e)
  /\ UNCHANGED <<k, engine, n, commands>>

Done == phase = "done" /\ UNCHANGED vars

Next == ApplyOption \/ EngineBuilt \/ ValidateInput \/ ParseLine \/ LinesParsed
          \/ Execute \/ Done
Spec == Init /\ [][Next]_vars

-----------------------------------------------------------------------------
\* Properties.

TypeOK ==
  /\ phase \in {"new", "ready", "parse", "execute", "done"}
  /\ opts \in OptionLists /\ input \in Inputs
  /\ k \in Nat \ {0} /\ n \in Nat \ {0}
  /\ engine.executor \in {"default", "custom"} /\ engine.save \in BOOLEAN
  /\ err \in Codes
  /\ result.applied \in BOOLEAN /\ result.saved \in BOOLEAN

PolicyGiven == \E j \in DOMAIN opts : opts[j].op = "policy"

\* The last option of kind op, or what New starts from.
Given(op) == {j \in DOMAIN opts : opts[j].op = op}
LastOption(op, default) == IF Given(op) = {} THEN default ELSE opts[Max(Given(op))].value

\* The options in force when a plan is executed are those New was given, the
\* last one of a kind winning and none of them invalid: an option that fails
\* leaves no engine behind that could run with half of them.
OptionsTakeEffect ==
  \A p \in executed :
    /\ \A j \in DOMAIN opts : ~OptionFails(opts[j])
    /\ p.save = LastOption("save", FALSE)
    /\ p.dels = LastOption("policy", DefaultRoots)

\* sets are the first m lines without the blank ones, in their order.
ExactlyLines(sets, lines, m) ==
  \E at \in [DOMAIN sets -> DOMAIN lines] :
    /\ \A j, l \in DOMAIN sets : j < l => at[j] < at[l]
    /\ {at[j] : j \in DOMAIN sets} = {l \in 1 .. m : lines[l].kind # "blank"}
    /\ \A j \in DOMAIN sets : sets[j] = lines[at[j]].tokens

\* What an executor is given has passed every check, whatever the options and
\* the input: the deletes are allowed roots, the sets are exactly the lines of
\* the input that are not blank, in their order, and each of them is an allowed
\* path; never an empty list, which would only delete.
OnlyValidatedExecuted ==
  \A p \in executed :
    /\ \A j \in DOMAIN p.dels : p.dels[j] \in AllowedRoots
    /\ p.sets # <<>>
    /\ \A j \in DOMAIN p.sets : AcceptedCommand(p.sets[j])
    /\ ExactlyLines(p.sets, input.lines, Len(input.lines))

\* Under the default policy an apply leaves no residue of the one before it but
\* ethernet descriptions: everything a plan can set is under a root that every
\* plan deletes.
SetsAreReset ==
  ~PolicyGiven =>
    \A p \in executed : \A j \in DOMAIN p.sets :
      EthernetDescription(p.sets[j]) \/ Resets(p.dels, p.sets[j])

\* Whatever an executor answers, a Result that comes with the code of a failure
\* before the commit is never Applied, Saved needs the save option, and a Result
\* says whether the device may have been touched: it names the commands of the one
\* plan an executor was given, and names none when the options, the input or a
\* command were refused.  The code does not say that: an executor may answer with
\* the code of a refused input.
ResultConsistent ==
  phase = "done" =>
    /\ err \in {"delete_failed", "set_failed", "commit_failed"} => ~result.applied
    /\ result.saved => \E p \in executed : p.save
    /\ \/ /\ executed = {} /\ result = NoResult
          /\ err \in {"invalid_input", "invalid_command", "empty_desired_commands"}
       \/ \E p \in executed : /\ executed = {p} /\ p.sets # <<>>
                              /\ result.sets = p.sets /\ result.dels = p.dels
=============================================================================
