# A verification development for olg-renderer-vyos

The repository turns an OLG/uCentral payload into VyOS `set` commands (package
`renderer`) and applies such commands to the device it runs on (package
`apply`). These modules model the two packages and what they need from the
device, TLC checks them on small instances, and TLAPS proves the properties that
matter most for every value of the constants. Paths below are relative to `src/`.

## 1. Inventory

### Components

| component | state it keeps | operations | modelled by |
|---|---|---|---|
| default executor, `apply/default_executor.go` | the lock file, `committed`, `discarded`, the result and the error being built | `Execute` with its two deferred functions, `discardAfterFailure`, `fileApplyLocker.Lock` and its release | `ApplyExecutor` |
| CLI Shell API runner, `internal/vyos/runner.go` | one session: its environment, named after the process id | `Begin`, `Delete`, `Set`, `Commit`, `Save`, `Discard`, `Close`, each one child process; `parseSessionEnv`, `mergeEnv`, `splitCLICommand` | `ApplyExecutor`, `SessionEnv`, `CommandText` |
| VyOS device (not in this repository) | running and saved configuration, one candidate per session identifier | what `my_set`, `my_delete`, `my_commit`, `my_discard`, `save`, `setupSession`, `teardownSession` do | `VyOSConfig` (external), `Reconcile` |
| apply engine, `apply/engine.go`, `options.go`, `planner.go` | the options: executor, save, reset policy | `New`, `Prepare`, `Apply` | `ApplyEngine` |
| command parser and reset policy, `apply/parser.go`, `policy.go` | none | `parseCommands`, `tokenizeCommand`, `validateSetPath`, `normalizeResetPolicy` | `ConfigureGrammar`, `ApplyEngine`, `CommandText` |
| slice cloning, `apply/clones.go` | none | copies between engine, plan and caller | not modelled (section 5) |
| renderer facade, `renderer/renderer.go` | the port map | `New`, `WithPortMap`, `Render` | `RenderPayload` |
| interface normalization, `internal/normalize/interface.go` | bridges, pending VLANs, ethernet descriptions, service LANs | `normalizeInterfaces` | `NormalizeInterfaces` |
| service and NAT normalization, `internal/normalize/service.go`, `nat.go` | none | DHCP and DNS services, SSH, NAT rules | `NormalizeServices`, `RenderPayload` |
| templates, `internal/templates` | none | the commands of each section, `vyosQuote`, `allowedVLANsForMember` | `RenderPayload`, `CommandText` |
| smoke command, `cmd/vyos-apply-smoke` | none | flags, preview, `Apply`, exit status | `Reconcile` |
| NATS client agent (not in this repository) | | calls `Render` and `Apply`, cancels, restarts | the environment of the modules |

### How they interact

The agent calls `Render`, which normalizes the payload (interfaces first, since
services and NAT need their bridges) and executes the templates; the text
goes to `Engine.Apply`, which validates it line by line, joins it with the reset
roots to a plan and hands the plan to an executor. The default executor takes an
exclusive `flock`, opens a candidate session named after the process id, replays
deletes and sets in it, commits, optionally saves, and tears the session down.
All calls on a device share the lock file and the running configuration; calls
of one process share the session identifier too. A human in `configure` takes
part in neither the lock nor the session.

### What is hard

* Concurrency: several goroutines and several processes in `Execute`, a session
  identifier shared by all goroutines of a process, an operator beside them.
* Failure: each of about ten child processes per call may fail, with or without
  its effect; three cleanup operations may fail after that, in deferred
  functions that rewrite the returned error.
* Cancellation: the context may be done before, between or during commands. A
  command that is killed may have had its effect, and reports its exit status
  instead of the context's error.
* Time limits: the cleanup has its own 5 s, which ignore the cancellation and
  are shared by discard and teardown on one of the two cleanup paths.
* Crashes: the kernel frees the lock of a dead process while its last child
  process may still run; the candidate survives and its identifier may return.
* Agreement of copies: two allowlists in two files, two tokenizers in two
  packages, a renderer and a parser with different ideas of a legal character.
* Order in the payload: an index kept while the list it points into grows;
  "first" and "last" rules that decide between entries.

### What makes each part correct

* Executor: calls exclude each other until teardown; a commit makes the running
  configuration exactly what the plan says; the result tells the truth and the
  code says how far the call got; nothing uncommitted survives unreported, and
  what a killed process left can add to a later commit whole commands of its own
  plan at most; a cancelled call ends and gives up the lock.
* Engine and parser: an executor is only given allowed deletes and allowed sets,
  the ones of the input; an apply leaves no residue of an earlier one; a `Result`
  names the commands of the plan an executor was given, or none if none was, with
  whatever code or error that executor answers.
* Text: what was checked is what is sent, and what the payload said arrives.
* Sessions: the commands of a session run in the session the API declared,
  whatever the environment of the process says.
* Rendering: the rendered bridges with their VIFs and ports are the same wherever
  the VLANs stand in the payload (descriptions and DHCP subnet identifiers do
  depend on the order: who comes first on a port, and 4051 plus the index of the
  entry); no address is leased twice; every rendered line is one the apply package
  accepts.
* A device over time: an apply leaves below its roots what it says and elsewhere
  what was there, whoever configured the device before.

`PROJECT.json` lists every hazard at its line, with the properties that catch it.

## 2. The modules

| module | models | composed with |
|---|---|---|
| `VyOSConfig` | the device: `running`, `saved`, `cand[sid]` | extended by `ApplyExecutor` |
| `ApplyExecutor` | concurrent calls of `Execute` on one device | |
| `ApplyAtomic` | what `Execute` promises: one atomic replacement per call | |
| `ApplyRefinement` | the refinement mapping from the former to the latter | `INSTANCE ApplyAtomic` |
| `ConfigureGrammar` | the allowlist of set paths and the reset roots | extended by the next two and by `RenderPayload` |
| `ApplyEngine` | `New`, `Prepare`, `Apply` with any executor | |
| `Reconcile` | one device over a sequence of applies, smoke runs and a human | |
| `CommandText` | a description or a text on its way to the arguments of `my_set` | extended by `SessionEnv` |
| `SessionEnv` | the shell text `getSessionEnv` prints, on its way to the environment of a session | |
| `NormalizeInterfaces` | the loop over `interfaces` and the VLAN merge | extended by `RenderPayload` |
| `NormalizeServices` | one service LAN, its checks and order; the NAT checks (operators only) | extended by `RenderPayload` |
| `RenderPayload` | `New` and `Render` from the request to the set commands | |
| `ApplyExecutorProofs` | theorems about `ApplyExecutor` and its refinement of `ApplyAtomic` | extends `ApplyRefinement` |
| `ApplyEngineProofs`, `ConfigureGrammarProofs`, `ReconcileProofs` | theorems about the module each is named after | |
| `CommandTextProofs` | theorems about `CommandText` and `SessionEnv` | extends `SessionEnv`, `SequenceLemmas` |
| `InterfacesProofs` | theorems about `NormalizeInterfaces`, under the steps of `Render` | extends `RenderPayload`, `SequenceLemmas` |
| `RenderPayloadProofs` | theorems about `RenderPayload` | extends `InterfacesProofs` |
| `SequenceLemmas` | least numbers, sequences, finite sets in order | |
| `MC...` | small instances for TLC | |

### ApplyExecutor

`pc[c]` is the statement call `c` of `Execute` is at: `entry` (the first look at
the context), `lock`, `getenv` and `setup` (`runner.Begin`), `delete`, `set`,
`commit`, `save`, `fail_discard` (`discardAfterFailure`), `discard` and `close`
(the deferred cleanup), `release` (the deferred release), `returned`.
`committed` and `discarded` are not variables: they are where the call has come
from, and decide whether `discard` stands before `close`. `wait[c]` is true while
the child process of the statement runs. So a command is two steps, `Start` and
one of the `...Ends` actions, and everything else that happens while it runs
(cancellation, the other calls, an operator, the death of the process) falls
between the two. `idx[c]` counts through the plan, deletes first.

A child process ends in one of four ways (`Outcomes`): with its effect and
success; without effect and a failure; and, once the context is done, *lost* (it
had its effect, and was killed before it exited) or *late* (it exited 0, and
`exec.Cmd.Wait` reports the context's error). That a command
which fails by itself has no effect is an assumption about VyOS: the code knows
nothing else than the exit status, and `AppliedTruthful` rests on it.
A second assumption about the device is in `DeleteEnds`: it goes on after a failed
delete only when there was nothing under the root. The code
(`apply/default_executor.go:122`, `:208`) goes on after any failure whose output
says "nothing to delete" or "does not exist". `CommitReplaces`, `CommitAccounted`
and `ImplementsAtomic` rest on such a text being true; `Reconcile` does without the
assumption (`DeleteTakenForMiss`), and its `ManagedExactly` exempts such a root.

`Crash(s)` kills a process: its calls stop, the kernel frees the lock, and the
child process of a waiting call becomes an orphan (`OrphanEnds`) that ends later,
with or without its effect, outside the lock. `SetupSession` finds the old
candidate of its identifier or a clean one: the code depends on neither.

`landed`, `foreign` and `ran` are history variables for the properties:
`foreign[c]` are the leaves somebody else changed while `c`'s session was open.

### ApplyEngine and ConfigureGrammar

A command is its sequence of tokens; the values that `netip` and `strconv` judge
are members of constant sets (`Ipv4Addr`, `Ipv4Prefix`, `PositiveInt`, `Port`).
A line is one of the kinds the parser tells apart. One step handles one option
or one line. The executor may be the caller's, so its answer is any combination
of applied, saved and error, and the error has any code of the package (those of
refused inputs included), a code of the caller's own, or none. An executor that
returns a nil `*Error` as its error, on which `CodeOf` panics, is left out.

### Reconcile

The executor alone, with nobody beside it, but over applies without end. A
configuration is the set of commands that `show configuration commands` prints, a
command being the sequence of tokens of `ConfigureGrammar`; `Node(t)` is what a
`set` of `t` replaces. `AgentApply` begins an apply with any of the reset
policies and lists the constants name; `Smoke` is `runWithContext`, whose checks
are listed in their order by `SmokeStops`; `Operator` is a human. `Delete`,
`DeleteTakenForMiss`, `Set`, `Commit`, `Fail`, `Succeed` are the statements of
`Execute`, without the interleavings `ApplyExecutor` is about.
`DeleteTakenForMiss` is a delete that fails for whatever reason with an output
that contains "does not exist" (`isMissingDeleteOutput`). `owned` is a history
variable: the commands of the running configuration that some apply has set.

### CommandText and SessionEnv

A character is known by what the code tells apart: quotes, blanks, line ends,
shell metacharacters, `#`, ordinary. The line reader and the tokenizers, one for
`tokenizeCommand` and one for `splitCLICommand`, kept apart as in the code, are
recursive functions of the number of characters read.
`SessionEnv` adds the third tokenizer, `shellWords`, and what is made of its
words: `parseSessionEnv` takes the assignments, `mergeEnv` lays them over the
environment of the process. Its input is what a shell would print for given
declarations, in each of the quoting styles the code reads, with unquoted words
before an assignment (`before`). An environment is a sequence of entries, the
overrides of a session are a function of the keys. A NUL in a value, which the code
refuses like a line break, is not a character of the model.

### NormalizeInterfaces, NormalizeServices, RenderPayload

`RenderPayload` is `Render`: `New`, `ValidateRequest`, then the section steps
(`InterfacesNext` of `NormalizeInterfaces`, `normalizeNAT`, `normalizeServices`),
then `RenderTemplates`. Each can end the call with the code it has.

In `NormalizeInterfaces` one step handles one entry of the array; `MergeVLANs` is
what follows the loop. A name is known by its rank, a sorted list of ports by its
set, an entry that does not decode by the role `malformed`. `lans` holds the
entries that become services. An IPv4 address is its number; `SubnetPrefix` is
`netip.ParsePrefix`; `Wrapped` is the arithmetic of `int`.

The templates give sequences of tokens, so that `AcceptedCommand`, the allowlist
of the apply package, can be asked about them: the two packages meet here.

### Mutants

An operator under a comment that begins with "Mutant" is the definition after it
with a plausible bug. It is used nowhere; `PROJECT.json` pairs it with the
property that TLC finds violated when it takes the place of the definition.

## 3. The runs

| run | instance | question |
|---|---|---|
| `exec_shared` | two calls of one process, an operator on the leaf `pool` | do calls exclude each other, replace exactly, report truthfully, and clean up? |
| `exec_crash` | two processes, one of which may die | does an orphaned child process break what the other call commits? |
| `exec_reuse` | two calls under one identifier, whose processes may die | what can the next call under the identifier of a dead one commit but its own plan? |
| `exec_live` | two processes, every command may hang | does a cancelled call return and release, and does the executor implement `ApplyAtomic`? |
| `exec_teardown` | two processes | violated: is teardown always attempted? |
| `exec_cancel_code` | two processes | violated: is a cancelled call `executor_failed`? |
| `engine` | every input of up to two lines out of all paths and near misses, under every list of up to two options | what reaches the executor, what comes back, which options are in force? |
| `command_text` | every text of up to four characters after `set `, every description of up to four, every environment value of up to three in every style | is what was checked what is sent, and in the session the API opened? |
| `reconcile` | four reset policies, four lists, eight smoke runs, a human | what is left of the earlier applies, and of the rest of the device? |
| `render` | 17 families of requests | is the rendered configuration the one the payload describes, and one the apply package accepts? |
| `render_upstream` | the same | violated: does a render require an upstream interface? |
| `render_lease` | the same | violated: does a lease last as long as the payload says? |

What each property says stands above it in its module. By run:

* `exec_shared`: calls exclude each other (`MutualExclusion`); a commit makes the
  device what the plan says (`CommitReplaces`) and a save saves that
  (`SaveOwnCommit`); answer, code and device agree (`AppliedTruthful`,
  `CodeTellsOutcome`, `PrimaryCodeKept`); a session is discarded exactly when
  it was not committed, and what stays behind is reported, be it edits or a
  session that is still open (`DiscardIffUncommitted`, `LeftoversReported`: the
  one silent way is a setup that took effect and was cancelled).
* `exec_crash`, `exec_reuse`: kills do not change what a commit makes of the leaves
  nobody else touched (`CommitReplaces`). On those somebody else did touch, it
  enforces its plan, or keeps what runs there, or carries out a whole command of a
  call of the same process id that was killed or reported a failed cleanup
  (`CommitAccounted`): the leftovers README.md:390 warns of get in, nothing else.
* `exec_live`: a cancelled call returns and gives up the lock, and each call is
  one atomic replacement (`ImplementsAtomic`).
* `engine`: an executor gets validated commands only, all of them below a root
  that is reset with them; whatever an executor answers, the `Result`, and not the
  code, tells whether one was run.
* `command_text`: tokens checked are tokens sent; a description arrives as it is
  or is refused; an environment value arrives as declared and hides an outer one.
* `reconcile`: below its roots an apply leaves its own commands and nothing else
  (`ManagedExactly`), above them nothing changes (`UnmanagedKept`); commands that
  an apply with a narrower policy left behind end with the next default apply,
  ethernet descriptions aside (`ResidueConfined`); a smoke run keeps to its bridge
  and its exit status is true (`SmokeConfined`, `SmokeExitTruthful`).
* `render`: bridges, VIFs, descriptions and services follow the payload; leases
  and identifiers do not clash (for VLAN ids of at most 4050, the schema's maximum,
  which the renderer does not enforce); services stand in the order of the base
  entries and then of the VLAN ids, rules in that of theirs; a service's router is
  an address of a rendered bridge; the parser of the other package accepts every
  line.

### Bounds, and why they are enough

* Two calls. The lock, the session identifier and the running configuration are
  shared pairwise; a third call adds another waiter. The theorems hold for any
  number.
* Plans of three or four commands: two roots or one, two sets, one with a leaf
  outside every root (the ethernet descriptions no reset root covers) and one
  that sets a leaf twice, with and without save. Each statement of the loop is
  met first, in the middle and last. `exec_live` uses a plan with one delete and
  one set, and two calls of distinct processes.
* Five leaves, two values and one or two initial configurations, in which a root
  has something to delete and another has not.
* `MayCrash` and `OperatorLeaf` say which processes may die and which leaf the
  operator commits; both are on in separate runs, and together nowhere.
* Options and lines: two of each, since each step looks at one and depends on
  those before it through one value that is set or not.
* Characters: four. The state of a tokenizer is two quote flags and whether a
  token has begun; four characters reach every state and leave it again. Three
  between two complete commands cover every separator. An environment value has
  three: a backslash, what it escapes, and what follows. It is declared after no
  words, a `declare` with options or an `export`, alone or followed by a second
  declaration of the same key or another; an empty list is one of the inputs.
* `reconcile`: eleven commands, at least one under every default root, two values
  of one node, descriptions, and two commands no root covers. The number of
  applies is not bounded: `running` and `owned` are sets of these commands.
* Entries: four, of eight shapes: two downstream interfaces, an upstream one, and
  VLANs, in every order; up to two entries when one of them is faulty.
* Addresses: 16, with blocks of 1 to 16 addresses at every place, so that a range
  meets each end of its subnet and the end of the address space; two LANs at a
  time for overlaps, four for their order. `MaxInt` is 8191, so that the lease
  arithmetic of 64 bits wraps for small numbers.

`CHECK_DEADLOCK` is on everywhere: the end of a behaviour is an action of its own
(`Terminated`, `Done`), so a call that waits for nobody would be reported.

### Fairness

`FairSpec` assumes of every call: its own statements are executed (WF); a
`select` that keeps being offered the context's branch takes it (SF, since the
timer's branch is offered alternately); a child process whose context is done is
killed and ends (WF, `exec.CommandContext`); a cleanup context expires (WF,
`context.WithTimeout`). It assumes nothing of a command whose context is live:
it may hang for ever, and the properties are about cancelled calls only. It does
not assume that a waiter ever gets the lock: the retry loop promises no order.

### Disagreements with the documentation

1. `exec_teardown`. SPEC.md:1504 and README.md:388 say that teardown is always
   attempted. The deferred cleanup gives discard and teardown one context of 5 s
   (`apply/default_executor.go:83`): a discard that hangs uses it up, and
   `exec.Cmd.Start` then refuses to run `teardownSession`. The session stays
   open, and the call says so (`LeftoversReported` holds).
2. `exec_cancel_code`. SPEC.md:1555 says a cancellation is returned as
   `executor_failed` or `apply_failed`. A command that the cancellation kills
   reports its exit status, which `isContextError` does not recognise, so the
   code is that of the command (`delete_failed`, ..., `save_failed`). In
   particular `commit_failed` may be returned for a commit that happened, the
   one lie `AppliedTruthful` and `ApplyAtomic` allow for.
3. `render_upstream`. SPEC.md:369 and SPEC.md:1941 say that a render without
   an upstream interface fails. It succeeds when there is anything else to
   render, and applying the result removes `br0`.
4. `render_lease`. `parseLeaseTimeString` bounds the base of a duration from above
   only (`internal/normalize/service.go:281`). A negative base may wrap to a
   positive product and pass the test for a positive duration: the payload's
   `-213503982334601d` is rendered as a lease of 25216 s.

The documents disagree with one another in one place the models touch: SPEC.md:1260
lists five managed roots as "exactly" the allowed ones, README.md:344 and
`apply/policy.go:48` add `interfaces bridge br0` for the smoke command.
`AllowedRoots` follows the code.

## 4. The proofs

`ApplyExecutorProofs` (for every set of calls, processes, plans, leaves, values;
from `ExecutorAssumption` and `ConfigAssumption`):

* `TypeCorrect`. `TypeOK` alone is not inductive: a statement looks up command
  `idx[c]` of a plan. `IndexOK` adds that the index agrees with the statement
  (in `delete` it is a position among the deletes, in `set` among the sets), and
  `TypeInv` is the conjunction. One lemma per group of actions.
* `Exclusion`. `MutualExclusion` is inductive together with `TypeInv`, which says
  that every command of a plan leads to another statement inside the lock; the
  proof has one step per action.
* `ResultTruthful`. `AppliedTruthful` is not inductive: `OutcomeInv` adds that a
  live call whose commit has not ended has neither landed, nor claimed to, nor
  failed, and that a save runs only after a commit that was claimed.
* `FirstFailureKept`. An action property, from the same invariant: a statement
  that assigns a code either is reached with `ok` only, or keeps the old one.
* `CodeTruthful`, `DiscardedUnlessCommitted`. What a call returns depends on the path
  it took: `PathInv` says, for each statement, what code, notes, cleanup context
  and the cleanup commands started so far may be there.
* `CommitIsPlan`, `SavedIsCommitted`. `CandidateInv` says what the candidate of a
  call holds before command `idx` on the leaves nobody else touched: the last
  value set, or a delete, or, below a root that was reported as having nothing to
  delete, no edit and nothing in the running configuration. Orphans, operators
  and other calls leave that alone or are recorded in `foreign`
  (`OthersUndisturbed`). From commit to save the running configuration is what
  the plan asked for.
* `CommitIsAccounted`. `OwnedInv`: every edit in a candidate is a command of the plan
  of a call of its process id, and of one that will still discard it or tear it
  down, unless that call has reported that it failed to, or a process with the id
  was killed. By `Exclusion` no other call is between setup and teardown when one
  commits, so what it did not put in its candidate itself is left by a dead or a
  reporting one.
* `NothingLeftSilently`. `OwnedInv` again, for the edits, and `OpenInv` for the session
  itself: an open one belongs to a call that will tear it down, or was reported,
  or is that of a killed call or of one cut short in its setup.
* `Refinement`. `Alone => (Spec => ImplementsAtomic)`, where `Alone` is: calls of
  distinct processes, none killed, nobody else configuring. `AloneInv` says what `Alone` gives: nothing
  is ever foreign and a candidate is clean when it is set up. Then a commit that
  has its effect is `Land` (`Lands`; nobody else is unanswered by `Exclusion`), a
  save that has is `Save`, a return is `Answer` (by `ResultTruthful`), and every
  other step changes nothing the abstract specification sees.

`ConfigureGrammarProofs` (from `GrammarAssumption`):

* `AllowlistsAgree`. Every command `AcceptedCommand` admits, with tokens of any
  value and any number, is under a root of the default policy or describes an
  ethernet interface. This is the agreement of `parser.go` with `policy.go`.

`ApplyEngineProofs` (for every option list and input; from `InputsAssumption`,
`OptionsAssumption`):

* `NoResidue`. `SetsAreReset` follows from `AllowlistsAgree` and `EngineInv`, which
  says that the roots in force are the default ones until an option names others,
  and that every command kept so far was accepted.
* `EngineTyped`, `OptionsInForce`. `New` looks at one option at a time and the
  property speaks of the whole list: `OptionInv` says that before option `k` the
  engine holds the last option of each kind among those before `k`, that none of
  them was invalid, and that no plan is executed before the list is at its end.
* `ResultsConsistent`. `ResultInv`: before its end an apply has executed nothing and
  has no result. That an executed plan has set commands, so that an empty `Result`
  cannot stand for one, is by `ParseInv` (below).
* `ExecutedIsValidated`. The property says which lines of the whole input a plan
  holds: there is an increasing map from the commands onto the lines that are not
  blank. `ParseInv` says the same of the lines read so far, each line read
  extends the map by one place or leaves it, and the parser reaches a plan only
  after the last line.

`ReconcileProofs` (for every set of commands, policies, lists and smoke runs, and
applies without end; from `ReconcileAssumption`: policies and lists are ones the
engine accepts, a root that covers a command covers the other values of its
node, and the three commands of the smoke run set three nodes):

* `ManagedReplaced`, `RestKept`, `OnlyDescriptionsPileUp`, `SmokeStaysOnItsBridge`,
  `SmokeExitsTruthfully` state the properties of the run `reconcile`. None is inductive, since
  they speak of a finished commit. `EditInv` says what the first `k` commands
  have made of the candidate (below a deleted root only the plan's commands are
  left; of every command already set, it or a later one of its node is there;
  everything else is as before) and `PhaseInv` how candidate, running
  configuration and `before` relate in each phase. The third uses
  `AllowlistsAgree`: an owned command was accepted once, so a default root covers
  it or it is a description. The last one uses `ExitInv`: status 0 is reached
  only after the commit of the last command.

`CommandTextProofs` (for texts and descriptions of any length; from
`TextAssumption`: they are sequences of characters, and the path of a description
is one the parser supports):

* `SentAsChecked`. A line that `parseCommands` returns is a line `splitCLICommand`
  gets back when it trims it: it starts and ends in a character that is no blank
  and holds no line break (`LinesClean`, by following the reader through the text).
  The two tokenizers then compute the same (`CopiesAgree`), and each test the
  session makes was made before it (`AcceptedIsTaken`).
* `DescriptionArrives`, `RefusedForMeta`. `RenderedLines` follows the reader and
  `RenderedTokens` the tokenizer through the line of a description: one line,
  two tokens, the second the description. `DescInv` carries that from `Render` to
  the last `Send`.
* `DeclaredReachesCommands`, `OuterSessionHidden` (from `EnvAssumption`: the API
  assigns to names a shell takes, and prints before an assignment words without
  quotes, escapes or `=`; nothing is assumed of values, of lengths or of the entries
  of the process). Both speak of what `Begin` has computed, so the invariant is
  their conjunction and the work is in the functions `Begin` is made of. The scan
  of two texts in a row is the scan of the second from where the first ended
  (`ScanConcat`), so the text is read piece by piece: the characters of a value in
  its style (`ValueScanned`), the words before an assignment, which leave the
  variables as they were (`HeadScanned`), one declaration (`DeclarationScanned`,
  `DeclarationSet`), all of them (`AllSet`): after the first `k` each key has its
  last value among those, and the only failures are line breaks (`Parsed`).
  `MergeMerges` says where each entry of the merged environment comes from: a place
  in the environment of the process, in its order, or an override no entry had.

`InterfacesProofs` (for payloads of any length, any port maps and any addresses;
from the assumptions of `RenderPayload`):

* `BridgesAreInterfaces`, `VLANsAreVIFs`, `DescriptionsChosen`, `ServicesAreInterfaces`.
  The loop looks at one entry at a time and the properties speak of the finished
  section. `Found` says of the entries before `i` (`Handled`) what the
  properties say of all: which of them are bridges, where `firstDown` points, which
  VLANs are pending, which name a port has. `MergeVLANs` then attaches the VLANs
  and sorts. `sort.Slice` promises no order of equal elements: `Sortings` is every
  permutation without an inversion, and the theorems hold for each.

`RenderPayloadProofs` (for every payload, address space and width of `int`; from
`ServicesAssumption`, `RequestsAssumption`, `ValuesAssumption`, `TokensAssumption`:
what `netip`, `strconv` and the token checks of `validate.go` let through is what
the parser takes, and is neither empty nor a metacharacter):

* `LeasesNeverClash`. The code compares each range with its own LAN and the LANs by
  their first addresses; that no address is leased twice, and no reserved
  address of any LAN at all, follows because two blocks that share an address
  contain the first address of one another (`SharedAddressOverlaps`).
* `SubnetsIdentified`. Identifiers of VLANs up to 4050 and of other interfaces from
  4051 up do not meet, and an entry has one index.
* `RoutersRendered`. Bridges and services are made in two passes. `VLANsCarried`
  and `BridgesFollowPayload` say which entry each VIF and bridge was made of, and
  `ServedInv` which entry each service LAN: the same prefix, so the same router.
* `RenderedIsAccepted`. Every template is a base path followed by tails of plain
  words, which may end in a description; below a bridge or the NAT rules any such
  tail is accepted, and the DHCP, DNS and SSH paths are checked one by one (`Fine`).
  The command lists of the sections are put together from such commands only.
* `OutputIsOrdered`. A subnet is announced by one line of its block and a rule by one
  of its own, and what is flattened from a sorted list keeps its order. Two services
  may have one identifier, and then stand in either order, as the sort leaves them.

Induction in these proofs is the existence of a least number in a set that is not
empty (`LeastNumber`, from `NatLessThanWellFounded`): the least counterexample of a
statement about lengths is none. So too that a recursive function has the values its
definition says (`ReadingExists`, `TokenizingExists`). The library's induction
theorems, which take an operator for the statement, are out of the provers' reach.

Only model-checked: liveness (`CancelledReturns`, `CancelledReleases`) and
anything with ENABLED, which the prover does not handle. Every other property the
runs check and expect to hold is proved.

## 5. What is left out (not modelled)

* Partial commits. `my_commit` takes effect as a whole or not at all; VyOS may
  apply parts of a commit whose scripts fail, and the code knows nothing of it.
* A failed delete whose output says falsely that something does not exist is not a
  step of `ApplyExecutor` (section 2); it is one of `Reconcile`.
* Reboots: `saved` is written and compared, never read back.
* `Plan.Commit` is true in every plan (`apply/planner.go:27`); the branch for
  false is not modelled.
* A grandchild that holds the pipe of a killed command open makes `Wait` hang
  (no `WaitDelay`): the fairness of `KilledEnds` assumes there is none.
* Slice cloning (`apply/clones.go`). It protects against aliasing; in TLA+ every
  sequence is a value, and a model of pointers into arrays would say more about
  Go than about this code.
* `chmod` of the lock file, a lock file that is unlinked, a nil engine, executor
  or renderer, the texts of errors, outputs and logs.
* JSON decoding is one outcome, `malformed`; the classes of characters a token
  may hold are sets of names; of the templates' layout only the tokens are kept.
* `$'...'` quoting in a session environment: the code reads its backslashes and
  quotes like those of double-quoted text, and what VyOS prints is not known here.
* The flags of the smoke command are parsed or not; `--save` is left out.
* The NATS agent lives in another repository.

## 6. Plan

Done, in this order: the executor with its device, its abstract specification,
its proofs; the engine and the grammar; the text; the interfaces; services, NAT
and the whole of `Render`; the session environment; sequences of applies with the
smoke command; the proofs about services, about sequences of applies, about
candidates and of the refinement; the proofs about the interfaces, about the
rendered commands, about the text and about the session environment. Next:

1. Agent above both packages: `Render`, then `Apply` of its text, retried after a
   failure with the rendering of a newer payload.
2. Its proofs: that a retry leaves what one apply of the newest rendering would
   leave, from `ManagedReplaced` and `RenderedIsAccepted`.
