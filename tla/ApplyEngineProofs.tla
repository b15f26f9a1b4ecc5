-------------------------- MODULE ApplyEngineProofs --------------------------
(***************************************************************************)
(* Theorems about ApplyEngine, for every list of options and every input.  *)
(***************************************************************************)
EXTENDS ApplyEngine, ConfigureGrammarProofs

\* The invariant behind SetsAreReset: the plan under construction holds only
\* accepted commands, and the engine keeps the default roots until an option
\* replaces them.
Reset(p) ==
  \A j \in DOMAIN p.sets :
    EthernetDescription(p.sets[j]) \/ Resets(p.dels, p.sets[j])

EngineInv ==
  /\ input \in Inputs
  /\ engine = [executor |-> engine.executor, save |-> engine.save, roots |-> engine.roots]
  /\ commands \in Seq(Seq(STRING))
  /\ \A j \in DOMAIN commands : AcceptedCommand(commands[j])
  /\ ~PolicyGiven => /\ engine.roots = DefaultRoots
                     /\ \A p \in executed : Reset(p)

\* The plan of an engine without a policy option resets all it sets.
LEMMA PlanReset ==
  ASSUME EngineInv, ~PolicyGiven
  PROVE  Reset(Plan)
<1>1. Plan.sets = commands /\ Plan.dels = DefaultRoots
  BY DEF Plan, EngineInv
<1>2. ASSUME NEW j \in DOMAIN commands
      PROVE  EthernetDescription(commands[j]) \/ Resets(DefaultRoots, commands[j])
  <2>1. commands[j] \in Seq(STRING) /\ AcceptedCommand(commands[j])
    BY DEF EngineInv
  <2>2. Len(commands[j]) \in Nat
    BY <2>1
  <2> QED BY <2>1, <2>2, AllowlistsAgree
<1> QED BY <1>1, <1>2, Zenon DEF Reset

\* Every step of New, Prepare and Apply keeps EngineInv.
LEMMA EngineInvariant == Spec => []EngineInv
<1>1. Init => EngineInv
  BY DEF Init, EngineInv
<1>2. EngineInv /\ [Next]_vars => EngineInv'
  <2> SUFFICES ASSUME EngineInv, [Next]_vars PROVE EngineInv'
    OBVIOUS
  <2>1. CASE ApplyOption
    BY <2>1 DEF ApplyOption, Return, EngineInv, PolicyGiven, Reset
  <2>2. CASE EngineBuilt
    BY <2>2, Zenon DEF EngineBuilt, EngineInv, PolicyGiven
  <2>3. CASE ValidateInput
    BY <2>3, Zenon DEF ValidateInput, Return, EngineInv, PolicyGiven
  <2>4. CASE ParseLine
    <3> DEFINE line == input.lines[n]
    <3>1. CASE UNCHANGED commands
      BY <2>4, <3>1, Zenon DEF ParseLine, Return, EngineInv, PolicyGiven
    <3>2. CASE AcceptedLine(line) /\ commands' = Append(commands, line.tokens)
      <4>1. line.tokens \in Seq(STRING) /\ AcceptedCommand(line.tokens)
        BY <2>4, <3>2, InputsAssumption DEF ParseLine, AcceptedLine, EngineInv
      <4>2. commands \in Seq(Seq(STRING)) /\ \A j \in DOMAIN commands : AcceptedCommand(commands[j])
        BY DEF EngineInv
      <4>3. /\ commands' \in Seq(Seq(STRING))
            /\ \A j \in DOMAIN commands' : AcceptedCommand(commands'[j])
        BY <3>2, <4>1, <4>2
      <4>4. UNCHANGED <<opts, input, engine, executed>>
        BY <2>4 DEF ParseLine, Return
      <4> QED BY <4>3, <4>4, Zenon DEF EngineInv, PolicyGiven
    <3> QED BY <2>4, <3>1, <3>2, Zenon DEF ParseLine
  <2>5. CASE LinesParsed
    BY <2>5, Zenon DEF LinesParsed, Return, EngineInv, PolicyGiven
  <2>6. CASE Execute
    BY <2>6, PlanReset DEF Execute, Return, EngineInv, PolicyGiven
  <2>7. CASE Done \/ UNCHANGED vars
    BY <2>7, Zenon DEF Done, vars, EngineInv, PolicyGiven
  <2> QED BY <2>1, <2>2, <2>3, <2>4, <2>5, <2>6, <2>7 DEF Next
<1> QED BY <1>1, <1>2, PTL DEF Spec

\* Under the default policy everything an executed plan sets, ethernet
\* descriptions aside, is under a root the same plan deletes, so that an apply
\* leaves no residue of the one before it.
THEOREM NoResidue == Spec => []SetsAreReset
<1>1. EngineInv => SetsAreReset
  BY Zenon DEF EngineInv, SetsAreReset, Reset
<1> QED BY <1>1, EngineInvariant, PTL

-----------------------------------------------------------------------------
\* Types, and the options an engine ends up with.

\* The last of the options before option m that is of kind op, or the default.
Before(op, m) == {j \in DOMAIN opts : j < m /\ opts[j].op = op}
Latest(op, default, m) ==
  IF Before(op, m) = {} THEN default ELSE opts[Max(Before(op, m))].value

OptionInv ==
  /\ TypeOK
  /\ engine = [executor |-> engine.executor, save |-> engine.save, roots |-> engine.roots]
  /\ \A j \in DOMAIN opts : j < k => ~OptionFails(opts[j])
  /\ engine.save = Latest("save", FALSE, k)
  /\ engine.roots = Latest("policy", DefaultRoots, k)
  /\ phase \notin {"new", "done"} => k \notin DOMAIN opts
  /\ OptionsTakeEffect

\* An option of another kind leaves the last one of a kind the same, an option
\* of that kind replaces it.
LEMMA LatestStep ==
  ASSUME OptionInv, k \in DOMAIN opts, UNCHANGED opts, k' = k + 1, NEW op, NEW default
  PROVE  Latest(op, default, k)' =
           IF opts[k].op = op THEN opts[k].value ELSE Latest(op, default, k)
<1>1. DOMAIN opts \subseteq Nat /\ k \in Nat
  BY OptionsAssumption DEF OptionInv, TypeOK
<1>2. CASE opts[k].op = op
  <2>1. k \in Before(op, k + 1) /\ \A j \in Before(op, k + 1) : j \in Nat /\ j <= k
    BY <1>1, <1>2 DEF Before
  <2>2. k = Max(Before(op, k + 1))
    BY <1>1, <2>1 DEF Max
  <2>3. Before(op, k)' = Before(op, k + 1)
    BY DEF Before
  <2> QED BY <1>2, <2>1, <2>2, <2>3 DEF Latest
<1>3. CASE opts[k].op # op
  <2>1. Before(op, k)' = Before(op, k)
    BY <1>1, <1>3 DEF Before
  <2> QED BY <1>3, <2>1 DEF Latest
<1> QED BY <1>2, <1>3

\* When no option is left, the last one of a kind is the last of them all.
LEMMA LatestIsLast ==
  ASSUME OptionInv, k \notin DOMAIN opts, NEW op, NEW default
  PROVE  Latest(op, default, k) = LastOption(op, default)
<1>1. \A j \in DOMAIN opts : j < k
  BY OptionsAssumption DEF OptionInv, TypeOK
<1>2. Before(op, k) = Given(op)
  BY <1>1 DEF Before, Given
<1> QED BY <1>2 DEF Latest, LastOption

\* Every step of New, Prepare and Apply keeps OptionInv.
LEMMA OptionInvariant == Spec => []OptionInv
<1>1. Init => OptionInv
  <2> SUFFICES ASSUME Init PROVE OptionInv
    OBVIOUS
  <2>1. TypeOK /\ OptionsTakeEffect
    BY DEF Init, TypeOK, OptionsTakeEffect, Codes, NoResult
  <2>2. \A j \in DOMAIN opts : ~(j < k)
    BY OptionsAssumption DEF Init
  <2>3. \A op, default : Latest(op, default, k) = default
    BY <2>2 DEF Latest, Before
  <2> QED BY <2>1, <2>2, <2>3 DEF Init, OptionInv
<1>2. OptionInv /\ [Next]_vars => OptionInv'
  <2> SUFFICES ASSUME OptionInv, [Next]_vars PROVE OptionInv'
    OBVIOUS
  <2>1. CASE ApplyOption
    <3>1. CASE OptionFails(opts[k])
      <4>1. /\ UNCHANGED <<opts, k, engine, input, n, executed>>
            /\ phase' = "done" /\ result' = NoResult /\ err' = "invalid_input"
        BY <2>1, <3>1 DEF ApplyOption, Return
      <4>2. TypeOK'
        BY <4>1 DEF OptionInv, TypeOK, Codes, PackageCodes, NoResult
      <4> QED BY <4>1, <4>2
                 DEF OptionInv, Latest, Before, OptionsTakeEffect, LastOption, Given
    <3>2. CASE ~OptionFails(opts[k])
      <4>1. /\ k \in DOMAIN opts /\ phase = "new" /\ k \in Nat /\ k' = k + 1
            /\ UNCHANGED <<phase, opts, input, result, err, n, commands, executed>>
        BY <2>1, <3>2 DEF ApplyOption, OptionInv, TypeOK
      <4>2. \A j \in DOMAIN opts : j < k' => ~OptionFails(opts[j])
        BY <3>2, <4>1, OptionsAssumption DEF OptionInv, TypeOK
      <4>3. /\ engine' = [executor |-> engine'.executor, save |-> engine'.save,
                          roots |-> engine'.roots]
            /\ engine'.save = IF opts[k].op = "save" THEN opts[k].value ELSE engine.save
            /\ engine'.roots = IF opts[k].op = "policy" THEN opts[k].value ELSE engine.roots
            /\ engine'.executor =
                 IF opts[k].op = "executor" THEN opts[k].value ELSE engine.executor
        BY <2>1, <3>2 DEF ApplyOption, OptionInv
      <4>4. TypeOK'
        <5>1. /\ opts \in OptionLists /\ k \in Nat \ {0} /\ engine.save \in BOOLEAN
              /\ engine.executor \in {"default", "custom"}
          BY DEF OptionInv, TypeOK
        <5>2. /\ opts[k].op = "save" => opts[k].value \in BOOLEAN
              /\ opts[k].op = "executor" => opts[k].value \in {"custom", "nil"}
          BY <4>1, <5>1, OptionsAssumption
        <5>3. engine'.save \in BOOLEAN
          BY <4>3, <5>1, <5>2
        <5>4. engine'.executor \in {"default", "custom"}
          BY <3>2, <4>3, <5>1, <5>2 DEF OptionFails
        <5>5. k' \in Nat \ {0}
          BY <4>1, <5>1
        <5> QED BY <4>1, <5>3, <5>4, <5>5, Zenon DEF OptionInv, TypeOK
      <4>5. \A op, default : Latest(op, default, k)' =
              IF opts[k].op = op THEN opts[k].value ELSE Latest(op, default, k)
        BY <4>1, LatestStep
      <4>6. /\ engine'.save = Latest("save", FALSE, k)'
            /\ engine'.roots = Latest("policy", DefaultRoots, k)'
        BY <4>3, <4>5 DEF OptionInv
      <4>7. OptionsTakeEffect'
        BY <4>1 DEF OptionInv, OptionsTakeEffect, LastOption, Given
      <4> QED BY <4>1, <4>2, <4>3, <4>4, <4>6, <4>7, Zenon DEF OptionInv, OptionFails
    <3> QED BY <3>1, <3>2
  <2>2. CASE Execute
    <3>1. /\ k \notin DOMAIN opts
          /\ UNCHANGED <<opts, k, engine, input, n>> /\ executed' = executed \cup {Plan}
      BY <2>2 DEF Execute, Return, OptionInv
    <3>2. \A j \in DOMAIN opts : ~OptionFails(opts[j])
      BY <3>1, OptionsAssumption DEF OptionInv, TypeOK
    <3>3. Plan.save = LastOption("save", FALSE) /\ Plan.dels = LastOption("policy", DefaultRoots)
      BY <3>1, LatestIsLast DEF OptionInv, Plan
    <3>4. OptionsTakeEffect'
      BY <3>1, <3>2, <3>3 DEF OptionInv, OptionsTakeEffect, LastOption, Given
    <3>5. TypeOK'
      <4>1. PICK applied \in BOOLEAN, saved \in BOOLEAN, e \in ExecErrors :
              Return(ResultOf(applied, saved, e), IF e = "uncoded" THEN "executor_failed" ELSE e)
        BY <2>2 DEF Execute
      <4>2. result'.applied \in BOOLEAN /\ result'.saved \in BOOLEAN
        BY <4>1, Zenon DEF Return, ResultOf
      <4>3. err' \in Codes /\ phase' = "done"
        BY <4>1 DEF Return, ExecErrors, Codes, PackageCodes
      <4> QED BY <3>1, <4>2, <4>3, Zenon DEF OptionInv, TypeOK
    <3>6. phase' = "done"
      BY <2>2 DEF Execute, Return
    <3> QED BY <3>1, <3>4, <3>5, <3>6 DEF OptionInv, Latest, Before
  <2>3. CASE EngineBuilt \/ ValidateInput \/ ParseLine \/ LinesParsed
    <3>1. UNCHANGED <<opts, k, engine, input, executed>>
      BY <2>3 DEF EngineBuilt, ValidateInput, ParseLine, LinesParsed, Return
    <3>2. TypeOK'
      <4>1. phase' \in {"ready", "parse", "execute", "done"}
        BY <2>3 DEF EngineBuilt, ValidateInput, ParseLine, LinesParsed, Return, OptionInv, TypeOK
      <4>2. n' \in Nat \ {0}
        BY <2>3 DEF EngineBuilt, ValidateInput, ParseLine, LinesParsed, OptionInv, TypeOK
      <4>3. err' \in Codes
        BY <2>3 DEF EngineBuilt, ValidateInput, ParseLine, LinesParsed, Return, InputFault,
                    OptionInv, TypeOK, Codes, PackageCodes
      <4>4. result' = result \/ result' = NoResult
        BY <2>3 DEF EngineBuilt, ValidateInput, ParseLine, LinesParsed, Return
      <4>5. result'.applied \in BOOLEAN /\ result'.saved \in BOOLEAN
        <5>1. NoResult.applied \in BOOLEAN /\ NoResult.saved \in BOOLEAN
          BY DEF NoResult
        <5> QED BY <4>4, <5>1 DEF OptionInv, TypeOK
      <4> QED BY <3>1, <4>1, <4>2, <4>3, <4>5, Zenon DEF OptionInv, TypeOK
    <3>3. phase' \notin {"new", "done"} => k' \notin DOMAIN opts'
      BY <2>3, <3>1 DEF EngineBuilt, ValidateInput, ParseLine, LinesParsed, Return, OptionInv
    <3> QED BY <3>1, <3>2, <3>3 DEF OptionInv, Latest, Before, OptionsTakeEffect, LastOption, Given
  <2>4. CASE Done \/ UNCHANGED vars
    <3>1. UNCHANGED vars
      BY <2>4 DEF Done
    <3>2. TypeOK'
      BY <3>1, Zenon DEF vars, OptionInv, TypeOK
    <3> QED BY <3>1, <3>2
               DEF vars, OptionInv, Latest, Before, OptionsTakeEffect, LastOption, Given
  <2> QED BY <2>1, <2>2, <2>3, <2>4 DEF Next
<1> QED BY <1>1, <1>2, PTL DEF Spec

\* New, Prepare and Apply keep the types of what they hold: the error they
\* return is none or has a code, of the package or of the executor's choice.
THEOREM EngineTyped == Spec => []TypeOK
  BY OptionInvariant, PTL DEF OptionInv

\* A plan is executed under the options New was given, of each kind the last,
\* and under no invalid one.
THEOREM OptionsInForce == Spec => []OptionsTakeEffect
  BY OptionInvariant, PTL DEF OptionInv

-----------------------------------------------------------------------------
\* What an executor is given.

\* One more line that is not blank, and its tokens; or one more that is.
LEMMA OneMoreLine ==
  ASSUME NEW sets \in Seq(Seq(STRING)), NEW lines, NEW m \in Nat, m + 1 \in DOMAIN lines,
         ExactlyLines(sets, lines, m)
  PROVE  /\ lines[m + 1].kind = "blank" => ExactlyLines(sets, lines, m + 1)
         /\ lines[m + 1].kind # "blank" /\ lines[m + 1].tokens \in Seq(STRING) =>
              ExactlyLines(Append(sets, lines[m + 1].tokens), lines, m + 1)
<1> DEFINE Kept(l) == {j \in 1 .. l : lines[j].kind # "blank"}
<1>1. PICK at \in [DOMAIN sets -> DOMAIN lines] :
        /\ \A j, l \in DOMAIN sets : j < l => at[j] < at[l]
        /\ {at[j] : j \in DOMAIN sets} = Kept(m)
        /\ \A j \in DOMAIN sets : sets[j] = lines[at[j]].tokens
  BY DEF ExactlyLines
<1>2. 1 .. m + 1 = (1 .. m) \cup {m + 1}
  OBVIOUS
<1>3. CASE lines[m + 1].kind = "blank"
  <2>1. Kept(m + 1) = Kept(m)
    BY <1>2, <1>3
  <2> QED BY <1>1, <1>3, <2>1 DEF ExactlyLines
<1>4. CASE lines[m + 1].kind # "blank" /\ lines[m + 1].tokens \in Seq(STRING)
  <2> DEFINE t == lines[m + 1].tokens
             more == Append(sets, t)
             L == Len(sets)
             to == [j \in DOMAIN more |-> IF j \in DOMAIN sets THEN at[j] ELSE m + 1]
  <2>1. /\ L \in Nat /\ DOMAIN sets = 1 .. L /\ DOMAIN more = 1 .. L + 1
        /\ \A j \in DOMAIN sets : more[j] = sets[j]
        /\ more[L + 1] = t
    BY <1>4
  <2>2. Kept(m + 1) = Kept(m) \cup {m + 1}
    BY <1>2, <1>4
  <2> HIDE DEF t, more, L
  <2>3. to \in [DOMAIN more -> DOMAIN lines]
    BY <1>1, <2>1
  <2>4. \A j \in DOMAIN sets : to[j] = at[j] /\ at[j] \in 1 .. m
    BY <1>1, <2>1
  <2>5. to[L + 1] = m + 1 /\ \A j \in DOMAIN more : j \in DOMAIN sets \/ j = L + 1
    BY <2>1
  <2>6. ASSUME NEW j \in DOMAIN more, NEW l \in DOMAIN more, j < l
        PROVE  to[j] < to[l]
    <3>1. j \in DOMAIN sets /\ to[j] = at[j] /\ at[j] \in 1 .. m
      <4>1. j \in 1 .. L + 1 /\ l \in 1 .. L + 1 /\ j < l
        BY <2>1, <2>6
      <4>2. j \in 1 .. L
        BY <2>1, <4>1
      <4> QED BY <2>1, <2>4, <4>2
    <3>2. CASE l \in DOMAIN sets
      <4>1. to[l] = at[l] /\ at[j] < at[l]
        BY <1>1, <2>4, <2>6, <3>1, <3>2
      <4> HIDE DEF to
      <4> QED BY <3>1, <4>1
    <3>3. CASE l = L + 1
      <4>1. to[l] = m + 1
        BY <2>5, <3>3
      <4> HIDE DEF to
      <4> QED BY <3>1, <4>1
    <3> QED BY <2>5, <3>2, <3>3
  <2>7. {to[j] : j \in DOMAIN more} = {at[j] : j \in DOMAIN sets} \cup {m + 1}
    BY <2>1, <2>4, <2>5
  <2>8. \A j \in DOMAIN more : more[j] = lines[to[j]].tokens
    BY <1>1, <2>1, <2>4, <2>5 DEF t
  <2>9. {to[j] : j \in DOMAIN more} = Kept(m + 1)
    BY <1>1, <2>2, <2>7
  <2> QED BY <1>4, <2>3, <2>6, <2>8, <2>9 DEF ExactlyLines, more, t
<1> QED BY <1>3, <1>4

Allowed(roots) == \A j \in DOMAIN roots : roots[j] \in AllowedRoots

\* The invariant behind OnlyValidatedExecuted: the commands are the lines read.
ParseInv ==
  /\ EngineInv
  /\ n \in Nat \ {0} /\ n <= Len(input.lines) + 1
  /\ Allowed(engine.roots)
  /\ phase \in {"new", "ready"} => n = 1
  /\ phase # "done" => ExactlyLines(commands, input.lines, n - 1) /\ executed = {}
  /\ phase = "execute" => n = Len(input.lines) + 1 /\ commands # <<>>
  /\ OnlyValidatedExecuted

\* The plan made when the last line is read has passed every check.
LEMMA PlanValidated ==
  ASSUME ParseInv, phase = "execute"
  PROVE  /\ Allowed(Plan.dels) /\ Plan.sets # <<>>
         /\ \A j \in DOMAIN Plan.sets : AcceptedCommand(Plan.sets[j])
         /\ ExactlyLines(Plan.sets, input.lines, Len(input.lines))
<1>1. Plan.sets = commands /\ Plan.dels = engine.roots
  BY DEF Plan
<1>2. n - 1 = Len(input.lines) /\ \A j \in DOMAIN commands : AcceptedCommand(commands[j])
  BY InputsAssumption DEF ParseInv, EngineInv
<1> QED BY <1>1, <1>2 DEF ParseInv

\* ParseInv is one.
LEMMA ParseInvariant == Spec => []ParseInv
<1>1. Init => ParseInv
  <2> SUFFICES ASSUME Init PROVE ParseInv
    OBVIOUS
  <2>1. EngineInv
    BY DEF Init, EngineInv
  <2>2. /\ n = 1 /\ input \in Inputs /\ engine.roots = DefaultRoots /\ phase = "new"
        /\ commands = <<>> /\ executed = {}
    BY DEF Init
  <2>3. ExactlyLines(<<>>, input.lines, 0)
    <3>1. <<>> \in [DOMAIN <<>> -> DOMAIN input.lines]
      OBVIOUS
    <3>2. DOMAIN <<>> = {} /\ 1 .. 0 = {}
      OBVIOUS
    <3>3. {<<>>[j] : j \in DOMAIN <<>>} = {l \in 1 .. 0 : input.lines[l].kind # "blank"}
      BY <3>2, Zenon
    <3> QED BY <3>1, <3>2, <3>3 DEF ExactlyLines
  <2>4. Allowed(DefaultRoots)
    BY DEF Allowed, AllowedRoots
  <2> QED BY <2>1, <2>2, <2>3, <2>4, InputsAssumption DEF ParseInv, OnlyValidatedExecuted
<1>2. ParseInv /\ EngineInv' /\ [Next]_vars => ParseInv'
  <2> SUFFICES ASSUME ParseInv, EngineInv', [Next]_vars PROVE ParseInv'
    OBVIOUS
  <2>1. CASE ApplyOption
    <3>1. Allowed(engine.roots)'
      BY <2>1 DEF ApplyOption, OptionFails, PolicyOK, Allowed, ParseInv, EngineInv, Return
    <3>2. /\ phase = "new" /\ phase' \in {"new", "done"}
          /\ UNCHANGED <<n, commands, executed, input>>
      BY <2>1 DEF ApplyOption, Return
    <3> QED BY <3>1, <3>2 DEF ParseInv, OnlyValidatedExecuted
  <2>2. CASE EngineBuilt
    BY <2>2 DEF EngineBuilt, ParseInv, OnlyValidatedExecuted
  <2>3. CASE ValidateInput
    BY <2>3 DEF ValidateInput, Return, ParseInv, OnlyValidatedExecuted
  <2>4. CASE ParseLine
    <3> DEFINE line == input.lines[n]
    <3>1. /\ n \in DOMAIN input.lines /\ n' = n + 1 /\ phase = "parse"
          /\ UNCHANGED <<input, engine, executed>>
      BY <2>4 DEF ParseLine, Return
    <3>2. n \in Nat \ {0} /\ n <= Len(input.lines) /\ Len(input.lines) \in Nat
      BY <3>1, InputsAssumption DEF ParseInv, EngineInv
    <3>3. ExactlyLines(commands, input.lines, n - 1) /\ commands \in Seq(Seq(STRING))
      BY <3>1 DEF ParseInv, EngineInv
    <3>4. /\ line.kind = "blank" => ExactlyLines(commands, input.lines, n)
          /\ line.kind # "blank" => ExactlyLines(Append(commands, line.tokens), input.lines, n)
      <4>1. n - 1 \in Nat /\ (n - 1) + 1 = n /\ line.tokens \in Seq(STRING)
        BY <3>1, <3>2, InputsAssumption DEF ParseInv, EngineInv
      <4> QED BY <3>1, <3>3, <4>1, OneMoreLine, SMTT(30)
    <3>5. \/ phase' = "done"
          \/ phase' = "parse" /\ ExactlyLines(commands', input.lines, n)
      BY <2>4, <3>4 DEF ParseLine, Return
    <3>6. n' - 1 = n /\ n' \in Nat \ {0} /\ n' <= Len(input.lines) + 1
      BY <3>1, <3>2
    <3> QED BY <3>1, <3>5, <3>6 DEF ParseInv, OnlyValidatedExecuted
  <2>5. CASE LinesParsed
    <3>1. /\ n \notin DOMAIN input.lines /\ phase = "parse"
          /\ UNCHANGED <<input, engine, executed, n, commands>>
          /\ phase' = "done" \/ (phase' = "execute" /\ commands # <<>>)
      BY <2>5 DEF LinesParsed, Return
    <3>2. n = Len(input.lines) + 1
      BY <3>1, InputsAssumption DEF ParseInv, EngineInv
    <3> QED BY <3>1, <3>2 DEF ParseInv, OnlyValidatedExecuted
  <2>6. CASE Execute
    <3>1. /\ phase = "execute" /\ phase' = "done" /\ executed' = executed \cup {Plan}
          /\ UNCHANGED <<input, engine, n, commands>>
      BY <2>6 DEF Execute, Return
    <3>2. OnlyValidatedExecuted'
      BY <3>1, PlanValidated DEF ParseInv, OnlyValidatedExecuted, Allowed
    <3> QED BY <3>1, <3>2 DEF ParseInv
  <2>7. CASE Done \/ UNCHANGED vars
    BY <2>7 DEF Done, vars, ParseInv, OnlyValidatedExecuted
  <2> QED BY <2>1, <2>2, <2>3, <2>4, <2>5, <2>6, <2>7 DEF Next
<1> QED BY <1>1, <1>2, EngineInvariant, PTL DEF Spec

\* Whatever the options, the text and the executor: a plan that is executed
\* deletes allowed roots only, and sets the lines of the text that are not
\* blank, all of them, in their order, each of them accepted.
THEOREM ExecutedIsValidated == Spec => []OnlyValidatedExecuted
BY ParseInvariant, PTL DEF ParseInv

-----------------------------------------------------------------------------
\* The result.

ResultInv ==
  /\ phase # "done" => executed = {} /\ result = NoResult
  /\ ResultConsistent

\* Whatever the executor of an engine answers, with any code or none: the Result
\* agrees with what was executed, and tells whether anything was.
THEOREM ResultsConsistent == Spec => []ResultConsistent
<1>1. Init => ResultInv
  BY DEF Init, ResultInv, ResultConsistent
<1>2. ResultInv /\ ParseInv /\ [Next]_vars => ResultInv'
  <2> SUFFICES ASSUME ResultInv, ParseInv, [Next]_vars PROVE ResultInv'
    OBVIOUS
  <2>1. CASE ApplyOption \/ EngineBuilt \/ ValidateInput \/ ParseLine \/ LinesParsed
    <3>1. /\ executed' = executed
          /\ result' \in {result, NoResult}
          /\ phase # "done"
      BY <2>1 DEF ApplyOption, EngineBuilt, ValidateInput, ParseLine, LinesParsed, Return, ResultInv
    <3>2. phase' = "done" => err' \in {"invalid_input", "invalid_command", "empty_desired_commands"}
      BY <2>1 DEF ApplyOption, EngineBuilt, ValidateInput, InputFault, ParseLine, LinesParsed, Return
    <3>3. executed' = {} /\ result' = NoResult
      BY <3>1 DEF ResultInv
    <3>4. ~NoResult.saved /\ ~NoResult.applied
      BY Zenon DEF NoResult
    <3> QED BY <3>2, <3>3, <3>4, Zenon DEF ResultInv, ResultConsistent
  <2>2. CASE Execute
    <3>1. PICK applied \in BOOLEAN, saved \in BOOLEAN, e \in ExecErrors :
            Return(ResultOf(applied, saved, e), IF e = "uncoded" THEN "executor_failed" ELSE e)
      BY <2>2 DEF Execute
    <3>2. phase = "execute" /\ executed' = executed \cup {Plan} /\ phase' = "done"
      BY <2>2 DEF Execute, Return
    <3>3. executed' = {Plan} /\ Plan.sets # <<>>
      BY <3>2, PlanValidated DEF ResultInv
    <3>4. err' \in {"delete_failed", "set_failed", "commit_failed"} => err' = e
      BY <3>1 DEF Return, ExecErrors
    <3>5. /\ result'.saved => Plan.save
          /\ result'.sets = Plan.sets /\ result'.dels = Plan.dels
          /\ result'.applied => e \notin {"delete_failed", "set_failed", "commit_failed"}
      BY <3>1, Zenon DEF Return, ResultOf
    <3>6. Plan \in executed'
      BY <3>3
    <3> HIDE DEF Plan
    <3> QED BY <3>2, <3>3, <3>4, <3>5, <3>6, Zenon DEF ResultInv, ResultConsistent
  <2>3. CASE Done \/ UNCHANGED vars
    BY <2>3 DEF Done, vars, ResultInv, ResultConsistent
  <2> QED BY <2>1, <2>2, <2>3 DEF Next
<1>3. ResultInv => ResultConsistent
  BY DEF ResultInv
<1> QED BY <1>1, <1>2, <1>3, ParseInvariant, PTL DEF Spec
=============================================================================
