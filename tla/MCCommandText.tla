---------------------------- MODULE MCCommandText ----------------------------
(***************************************************************************)
(* Every text of up to four characters after "set ", every text of up to   *)
(* three characters between two commands, every description of up to four. *)
(* A session environment of one variable with every value of up to three   *)
(* characters in every style, or of two with values of up to two.          *)
(***************************************************************************)
EXTENDS SessionEnv

MCPath(tokens) == Len(tokens) >= 2

UpTo(m) == UNION {[1 .. j -> Char] : j \in 0 .. m}
Command == <<"set", "sp", "x">>
MCTexts == {LineHead \o s : s \in UpTo(4)}
             \cup {Command \o s \o Command : s \in UpTo(3)} \cup UpTo(3)
MCDescriptions == UpTo(4)

ValueChar == Special \cup {"nl", "cr", "eq", "dash", "x"}
Values(m) == UNION {[1 .. j -> ValueChar] : j \in 0 .. m}
Styles == {"bare", "single", "double", "escaped"}
Heads == {<<>>, <<"declare", "sp", "dash", "x", "sp", "dash", "x", "sp">>,
          <<"x", "sp", "9", "semi", "brace", "export", "sp">>}
Declare(heads, keys, values, styles) ==
  [before : heads, key : keys, value : values, style : styles]
First == Declare(Heads, {<<"A">>}, Values(1), Styles)
Second == Declare({<<"declare", "sp">>}, {<<"A">>, <<"B", "9">>}, Values(1), {"single", "escaped"})
MCDeclarations ==
  {<<>>} \cup {<<d>> : d \in Declare(Heads, {<<"A">>}, Values(3), Styles)}
    \cup (First \X Second)

MCBaseEnvs == {<< <<"A", "eq", "9">>, <<"B", "eq", "x", "eq">>, <<"x">>, <<"A", "eq", "B">>,
                  <<"B", "9", "eq">> >>, <<>>}
=============================================================================
