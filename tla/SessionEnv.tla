----------------------------- MODULE SessionEnv -----------------------------
(***************************************************************************)
(* The environment of a CLI session (src/internal/vyos/runner.go): Begin   *)
(* splits what cli-shell-api getSessionEnv prints, a shell script, into    *)
(* words, takes the assignments out of them and lays them over the         *)
(* environment of the process.  The candidate configuration a session      *)
(* edits is found by these variables and by nothing else.                  *)
(*                                                                         *)
(* A character is known by what the code tells apart: "A" and "B" stand    *)
(* for letters, "9" for a digit, "x" for a character no key may have; the  *)
(* words declare and export are one character each.                        *)
(***************************************************************************)
EXTENDS CommandText

CONSTANTS Declarations,    \* bound: what the API prints, as declarations
          BaseEnvs         \* bound: environments of the process

Letter == {"A", "B"}
DeclareWord == {<<"declare">>, <<"export">>}
EnvChar == Char \cup Letter \cup {"9", "bs", "semi", "brace", "eq", "dash", "declare", "export"}

envKeyOK(key) ==
  /\ key # <<>> /\ key[1] \in Letter
  /\ \A i \in DOMAIN key : key[i] \in Letter \cup {"9"}

\* What stands before an assignment: words of their own, none of them quoted
\* and none an assignment.
HeadOK(before) ==
  /\ \A i \in DOMAIN before : before[i] \notin {"eq", "bs", "sq", "dq"}
  /\ before # <<>> => before[Len(before)] \in Blank \cup {"semi", "brace"}

\* The API assigns to names a shell takes.
ASSUME EnvAssumption ==
  /\ \A ds \in Declarations :
       /\ ds \in Seq([before : Seq(EnvChar), key : Seq(EnvChar), value : Seq(EnvChar),
                      style : {"bare", "single", "double", "escaped"}])
       /\ \A i \in DOMAIN ds : HeadOK(ds[i].before) /\ envKeyOK(ds[i].key)
  /\ BaseEnvs \subseteq Seq(Seq(EnvChar))

VARIABLES declared,        \* the assignments the API printed
          base,            \* os.Environ() when Begin ran
          childEnv         \* the environment of every command of the session

envVars == <<declared, base, childEnv>>

-----------------------------------------------------------------------------
\* shellWords

NoWord == [tokens |-> <<>>, current |-> <<>>, single |-> FALSE, double |-> FALSE,
           started |-> FALSE, escaped |-> FALSE]

\* Mutant: a backslash escapes inside single quotes too.
shellRuneEscaping(q, r) ==
  CASE q.escaped -> [q EXCEPT !.current = Append(@, r), !.started = TRUE, !.escaped = FALSE]
    [] ~q.escaped /\ r = "bs" -> [q EXCEPT !.escaped = TRUE, !.started = TRUE]
    [] ~q.escaped /\ r = "sq" /\ ~q.double -> [q EXCEPT !.single = ~@, !.started = TRUE]
    [] ~q.escaped /\ r = "dq" /\ ~q.single -> [q EXCEPT !.double = ~@, !.started = TRUE]
    [] ~q.escaped /\ r \in Blank \cup {"semi", "brace"} /\ ~q.single /\ ~q.double -> Flush(q)
    [] OTHER -> [q EXCEPT !.current = Append(@, r), !.started = TRUE]

shellRune(q, r) ==
  CASE q.escaped -> [q EXCEPT !.current = Append(@, r), !.started = TRUE, !.escaped = FALSE]
    [] ~q.escaped /\ r = "bs" /\ ~q.single -> [q EXCEPT !.escaped = TRUE, !.started = TRUE]
    [] ~q.escaped /\ r = "sq" /\ ~q.double -> [q EXCEPT !.single = ~@, !.started = TRUE]
    [] ~q.escaped /\ r = "dq" /\ ~q.single -> [q EXCEPT !.double = ~@, !.started = TRUE]
    [] ~q.escaped /\ r \in Blank \cup {"semi", "brace"} /\ ~q.single /\ ~q.double -> Flush(q)
    [] OTHER -> [q EXCEPT !.current = Append(@, r), !.started = TRUE]

\* What the loop makes of input, from q on.
Scan(q, input) ==
  LET st[n \in 0 .. Len(input)] == IF n = 0 THEN q ELSE shellRune(st[n - 1], input[n])
  IN st[Len(input)]

\* A backslash that ends the text stands for itself.
shellWords(input) ==
  LET q == Scan(NoWord, input)
  IN Flush(IF q.escaped THEN [q EXCEPT !.current = Append(@, "bs")] ELSE q)

-----------------------------------------------------------------------------
\* strings.Cut at the first "=": the text before and after it.
EqualsAt(word) == {i \in DOMAIN word : word[i] = "eq"}
CutKey(word) == SubSeq(word, 1, Min(EqualsAt(word)) - 1)
CutValue(word) == SubSeq(word, Min(EqualsAt(word)) + 1, Len(word))

WithValue(env, key, value) ==
  [k \in DOMAIN env \cup {key} |-> IF k = key THEN value ELSE env[k]]

\* st.env and st.failed; st.option: declare or export was the last word but options.
addEnvAssignment(st, word) ==
  IF EqualsAt(word) = {} THEN st
  ELSE LET key == TrimSpace(CutKey(word)) IN
       IF ~envKeyOK(key) \/ \E i \in DOMAIN CutValue(word) : CutValue(word)[i] \in {"nl", "cr"}
       THEN [st EXCEPT !.failed = TRUE]
       ELSE [st EXCEPT !.env = WithValue(@, key, CutValue(word))]

ReadWord(st, word) ==
  CASE st.option /\ word # <<>> /\ word[1] = "dash" -> st
    [] ~st.option /\ word \in DeclareWord -> [st EXCEPT !.option = TRUE]
    [] OTHER -> [addEnvAssignment(st, word) EXCEPT !.option = FALSE]

NothingSet == [env |-> <<>>, failed |-> FALSE, option |-> FALSE]
ReadWords(words) ==
  LET st[n \in 0 .. Len(words)] == IF n = 0 THEN NothingSet ELSE ReadWord(st[n - 1], words[n])
  IN st[Len(words)]

\* Its failed covers the unbalanced quote and the empty environment.
parseSessionEnv(output) ==
  LET q == shellWords(output)
      st == ReadWords(q.tokens)
  IN [st EXCEPT !.failed = @ \/ q.single \/ q.double \/ DOMAIN st.env = {}]

Assigned(key, value) == key \o <<"eq">> \o value

\* The entries of environ, one that overrides has replaced, one without "="
\* dropped.
Replaced(item, overrides) ==
  IF CutKey(item) \in DOMAIN overrides
  THEN Assigned(CutKey(item), overrides[CutKey(item)]) ELSE item
KeepEntry(out, item, overrides) ==
  IF EqualsAt(item) = {} THEN out ELSE Append(out, Replaced(item, overrides))
Kept(environ, overrides) ==
  LET out[n \in 0 .. Len(environ)] ==
        IF n = 0 THEN <<>> ELSE KeepEntry(out[n - 1], environ[n], overrides)
  IN out[Len(environ)]

\* Go ranges over the map in any order; one order stands for all of them here.
Appended(overrides, keys) ==
  [i \in 1 .. Cardinality(keys) |-> Assigned(SetToSeq(keys)[i], overrides[SetToSeq(keys)[i]])]

Entries(environ) == {j \in DOMAIN environ : EqualsAt(environ[j]) # {}}
Seen(environ) == {CutKey(environ[j]) : j \in Entries(environ)}

\* Mutant: an entry of the process is not replaced.
mergeEnvKeeping(environ, overrides) ==
  Kept(environ, <<>>) \o Appended(overrides, DOMAIN overrides \ Seen(environ))

mergeEnv(environ, overrides) ==
  Kept(environ, overrides) \o Appended(overrides, DOMAIN overrides \ Seen(environ))

-----------------------------------------------------------------------------
\* What the API prints: a value bare, quoted either way or escaped, as a shell
\* reads it.

Special == {"bs", "sq", "dq", "sp", "semi", "brace"}
Backslashed(value, special) ==
  FlattenSeq([i \in DOMAIN value |->
                IF value[i] \in special THEN <<"bs", value[i]>> ELSE <<value[i]>>])

Printable(d) ==
  \/ d.style = "bare" /\ \A i \in DOMAIN d.value : d.value[i] \notin Special \cup Blank
  \/ d.style = "single" /\ \A i \in DOMAIN d.value : d.value[i] # "sq"
  \/ d.style = "double"
  \/ d.style = "escaped" /\ \A i \in DOMAIN d.value : d.value[i] \notin {"nl", "cr"}

Quote(style) == CASE style = "single" -> <<"sq">> [] style = "double" -> <<"dq">> [] OTHER -> <<>>
Escapes(style) ==
  CASE style = "single" -> {} [] style = "double" -> {"bs", "dq"} [] OTHER -> Special
Quoted(d) == Quote(d.style) \o Backslashed(d.value, Escapes(d.style)) \o Quote(d.style)

Printed(ds) == FlattenSeq([i \in DOMAIN ds |->
                 ds[i].before \o ds[i].key \o <<"eq">> \o Quoted(ds[i]) \o <<"semi", "sp">>])

Begin ==
  /\ phase = "start"
  /\ \E ds \in Declarations, environ \in BaseEnvs :
       LET got == parseSessionEnv(Printed(ds)) IN
       /\ \A i \in DOMAIN ds : Printable(ds[i])
       /\ declared' = ds /\ base' = environ
       /\ IF got.failed
          THEN phase' = "not_opened" /\ UNCHANGED childEnv
          ELSE phase' = "opened" /\ childEnv' = mergeEnv(environ, got.env)
  /\ UNCHANGED <<desc, text, commands, checked, sent>>

SessionDone == phase \in {"opened", "not_opened"} /\ UNCHANGED <<vars, envVars>>

SessionInit == Init /\ declared = <<>> /\ base = <<>> /\ childEnv = <<>>
SessionNext == (Next /\ UNCHANGED envVars) \/ Begin \/ SessionDone
SessionSpec == SessionInit /\ [][SessionNext]_<<vars, envVars>>

-----------------------------------------------------------------------------
\* Properties.

EntriesOf(environ, keys) == {j \in Entries(environ) : CutKey(environ[j]) \in keys}
Others(environ, keys) == Entries(environ) \ EntriesOf(environ, keys)
DeclaredKeys(ds) == {ds[i].key : i \in DOMAIN ds}
LastValue(ds, key) == ds[Max({i \in DOMAIN ds : ds[i].key = key})].value
LineBreak(value) == \E i \in DOMAIN value : value[i] \in {"nl", "cr"}

\* However the API quotes a value, the commands of the session are given the
\* value a shell that sourced the same text would have, the last one where a
\* variable is declared twice; and Begin fails only for a line break in a value,
\* or when nothing is declared.
EnvAsDeclared ==
  /\ phase = "opened" =>
       \A key \in DeclaredKeys(declared) :
         LET found == EntriesOf(childEnv, {key})
         IN found # {} /\ CutValue(childEnv[Max(found)]) = LastValue(declared, key)
  /\ phase = "not_opened" =>
       declared = <<>> \/ \E i \in DOMAIN declared : LineBreak(declared[i].value)

\* A variable of an outer session never shows through: no entry of the process
\* contradicts the session's, and every other entry is handed on as it was.
OuterEnvHidden ==
  phase = "opened" =>
    LET keys == DeclaredKeys(declared) others == Others(childEnv, keys)
    IN /\ \A j \in EntriesOf(childEnv, keys) :
            CutValue(childEnv[j]) = LastValue(declared, CutKey(childEnv[j]))
       /\ \E at \in [others -> Others(base, keys)] :
            /\ {at[j] : j \in others} = Others(base, keys)
            /\ \A j, k \in others : j < k => at[j] < at[k]
            /\ \A j \in others : childEnv[j] = base[at[j]]
=============================================================================
