----------------------------- MODULE CommandText -----------------------------
(***************************************************************************)
(* Command text on its way from the renderer to the argument vector of     *)
(* my_set: the renderer quotes a description into a line                   *)
(* (src/internal/templates/templates.go), parseCommands splits the text    *)
(* into lines and checks the tokens of each (src/apply/parser.go), and the *)
(* CLI session tokenizes the accepted line again, with a copy of the       *)
(* tokenizer of its own (src/internal/vyos/runner.go).                     *)
(*                                                                         *)
(* A character is known by what the code tells apart; "set" is the three   *)
(* letters of that word, "x" any other ordinary character.                 *)
(***************************************************************************)
EXTENDS SequencesExt, Integers

CONSTANTS SetPathOK(_),    \* validateSetPath, as ConfigureGrammar details it
          Texts,           \* bound: texts handed to the apply engine
          Descriptions     \* bound: interface names in a payload

Blank == {"sp", "nl", "cr"}                 \* unicode.IsSpace
Char == Blank \cup {"sq", "dq", "meta", "hash", "set", "x"}
LineHead == <<"set", "sp">>                 \* a set path, kept to its first word
NoDesc == <<"none">>

\* The path of a description is one the parser supports, whatever is described.
ASSUME TextAssumption ==
  /\ Texts \subseteq Seq(Char) /\ Descriptions \subseteq Seq(Char)
  /\ \A d \in Descriptions : SetPathOK(<< <<"set">>, d >>)

VARIABLES phase,        \* "start", "text", "parsed", or how it ended
          desc, text,
          commands,     \* the lines parseCommands returned
          checked,      \* their tokens, as the allowlist saw them
          sent          \* the arguments of the my_set commands run

vars == <<phase, desc, text, commands, checked, sent>>

Init ==
  /\ phase = "start"
  /\ desc = NoDesc
  /\ text = <<>> /\ commands = <<>> /\ checked = <<>> /\ sent = <<>>

-----------------------------------------------------------------------------
\* The renderer.

\* Control characters are left to "nl" and "cr".
descriptionOK(value) == \A i \in DOMAIN value : value[i] \notin {"sq", "nl", "cr"}
vyosQuotable(value) == \A i \in DOMAIN value : value[i] \notin {"sq", "nl", "cr"}
\* Mutant: the template writes the description as it is.
vyosQuoteNone(value) == value
vyosQuote(value) == <<"sq">> \o value \o <<"sq">>

-----------------------------------------------------------------------------
\* parseCommands.

TrimSpace(s) ==
  LET ink == {i \in DOMAIN s : s[i] \notin Blank}
  IN IF ink = {} THEN <<>> ELSE SubSeq(s, Min(ink), Max(ink))

AddLine(lines, raw) == IF TrimSpace(raw) = <<>> THEN lines ELSE Append(lines, TrimSpace(raw))

\* The lines before a character and the text of its own line; "\r\n" ends one
\* more line here than in the code, a blank one.
ReadChar(st, r) ==
  IF r \in {"nl", "cr"} THEN [lines |-> AddLine(st.lines, st.raw), raw |-> <<>>]
  ELSE [st EXCEPT !.raw = Append(@, r)]

CommandLines(s) ==
  LET st[n \in 0 .. Len(s)] ==
        IF n = 0 THEN [lines |-> <<>>, raw |-> <<>>] ELSE ReadChar(st[n - 1], s[n])
  IN AddLine(st[Len(s)].lines, st[Len(s)].raw)

NoToken == [tokens |-> <<>>, current |-> <<>>, single |-> FALSE, double |-> FALSE,
            started |-> FALSE]
Flush(q) ==
  IF q.started THEN [q EXCEPT !.tokens = Append(@, q.current), !.current = <<>>, !.started = FALSE]
  ELSE q

\* Mutant: a double quote counts inside single quotes.
tokenizeRuneMixed(q, r) ==
  CASE r = "sq" /\ ~q.double -> [q EXCEPT !.single = ~@, !.started = TRUE]
    [] r = "dq" -> [q EXCEPT !.double = ~@, !.started = TRUE]
    [] r \in Blank /\ ~q.single /\ ~q.double -> Flush(q)
    [] OTHER -> [q EXCEPT !.current = Append(@, r), !.started = TRUE]

tokenizeRune(q, r) ==
  CASE r = "sq" /\ ~q.double -> [q EXCEPT !.single = ~@, !.started = TRUE]
    [] r = "dq" /\ ~q.single -> [q EXCEPT !.double = ~@, !.started = TRUE]
    [] r \in Blank /\ ~q.single /\ ~q.double -> Flush(q)
    [] OTHER -> [q EXCEPT !.current = Append(@, r), !.started = TRUE]
tokenizeCommand(line) ==
  LET q[n \in 0 .. Len(line)] == IF n = 0 THEN NoToken ELSE tokenizeRune(q[n - 1], line[n])
  IN Flush(q[Len(line)])

\* A line that is not blank has a token: the code's test for none never bites.
\* A path is too short when nothing follows the words LineHead stands for.
Refused(line) ==
  LET q == tokenizeCommand(line) IN
    \/ line[1] = "hash"
    \/ \E i \in DOMAIN line : line[i] = "meta"
    \/ q.single \/ q.double
    \/ q.tokens[1] # <<"set">>
    \/ Len(q.tokens) < 2
    \/ ~SetPathOK(q.tokens)

-----------------------------------------------------------------------------
\* splitCLICommand: the session's own copy.

\* Mutant: the copy forgets double quotes.
splitRuneSingle(q, r) ==
  CASE r = "sq" -> [q EXCEPT !.single = ~@, !.started = TRUE]
    [] r \in Blank /\ ~q.single -> Flush(q)
    [] OTHER -> [q EXCEPT !.current = Append(@, r), !.started = TRUE]

splitRune(q, r) ==
  CASE r = "sq" /\ ~q.double -> [q EXCEPT !.single = ~@, !.started = TRUE]
    [] r = "dq" /\ ~q.single -> [q EXCEPT !.double = ~@, !.started = TRUE]
    [] r \in Blank /\ ~q.single /\ ~q.double -> Flush(q)
    [] OTHER -> [q EXCEPT !.current = Append(@, r), !.started = TRUE]
splitTokens(command) ==
  LET line == TrimSpace(command)
      q[n \in 0 .. Len(line)] == IF n = 0 THEN NoToken ELSE splitRune(q[n - 1], line[n])
  IN Flush(q[Len(line)])

\* The guards it ends on; Set accepts no operation but set.
splitRefuses(command) ==
  LET q == splitTokens(command) IN
    \/ \E i \in DOMAIN TrimSpace(command) : TrimSpace(command)[i] \in {"nl", "cr", "meta"}
    \/ q.single \/ q.double
    \/ Len(q.tokens) < 2
    \/ q.tokens[1] # <<"set">>

-----------------------------------------------------------------------------
Give ==
  /\ phase = "start"
  /\ text' \in Texts
  /\ phase' = "text"
  /\ UNCHANGED <<desc, commands, checked, sent>>

\* normalizeInterfaces validates the name, the bridge template quotes it.
Render ==
  /\ phase = "start"
  /\ \E d \in Descriptions :
       IF descriptionOK(d) /\ vyosQuotable(d)
       THEN desc' = d /\ text' = LineHead \o vyosQuote(d) \o <<"nl">> /\ phase' = "text"
       ELSE phase' = "not_rendered" /\ UNCHANGED <<desc, text>>
  /\ UNCHANGED <<commands, checked, sent>>

Parse ==
  /\ phase = "text"
  /\ LET found == CommandLines(text) IN
       IF found = <<>> \/ \E i \in DOMAIN found : Refused(found[i])
       THEN phase' = "refused" /\ UNCHANGED <<commands, checked>>
       ELSE /\ phase' = "parsed"
            /\ commands' = found
            /\ checked' = [i \in DOMAIN found |-> tokenizeCommand(found[i]).tokens]
  /\ UNCHANGED <<desc, text, sent>>

\* session.Set with the next command
Send ==
  /\ phase = "parsed" /\ Len(sent) < Len(commands)
  /\ LET command == commands[Len(sent) + 1] IN
       IF splitRefuses(command)
       THEN phase' = "set_refused" /\ UNCHANGED sent
       ELSE sent' = Append(sent, Tail(splitTokens(command).tokens)) /\ UNCHANGED phase
  /\ UNCHANGED <<desc, text, commands, checked>>

Done ==
  /\ \/ phase \in {"not_rendered", "refused", "set_refused"}
     \/ phase = "parsed" /\ Len(sent) = Len(commands)
  /\ UNCHANGED vars

Next == Give \/ Render \/ Parse \/ Send \/ Done
Spec == Init /\ [][Next]_vars

-----------------------------------------------------------------------------
\* Properties.

\* What the allowlist checked is what my_set is given: the session, which
\* tokenizes the line again, neither refuses an accepted command nor cuts it
\* into other words.
CheckedIsSent ==
  /\ phase # "set_refused"
  /\ \A i \in DOMAIN sent : sent[i] = Tail(checked[i])

\* A description reaches my_set as one argument, exactly as the payload had it,
\* blanks, double quotes and comment signs included.
DescriptionSurvives ==
  desc # NoDesc /\ sent # <<>> => sent = << <<desc>> >>

\* The one thing the renderer accepts in a description and the apply engine
\* does not is a shell metacharacter: every other rendered line is applied.
RefusedOnlyForMeta ==
  desc # NoDesc => (phase = "refused" => Contains(desc, "meta"))
=============================================================================
