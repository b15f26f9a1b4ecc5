-------------------------- MODULE CommandTextProofs --------------------------
(***************************************************************************)
(* Theorems about CommandText, for texts and descriptions of any length:   *)
(* the two tokenizers agree on every line the parser accepts, and a        *)
(* description comes out of both as it went in.  And about SessionEnv, for *)
(* any declarations and any environment of the process: what the API       *)
(* declares is what the commands of the session are given.                 *)
(***************************************************************************)
EXTENDS SessionEnv, SequenceLemmas

-----------------------------------------------------------------------------
\* TrimSpace.

\* Trimming leaves a part of the text that neither starts nor ends in a blank.
LEMMA Trimmed ==
  ASSUME NEW s, Sequence(s)
  PROVE  LET t == TrimSpace(s) IN
           /\ Sequence(t) /\ Range(t) \subseteq Range(s)
           /\ t # <<>> => t[1] \notin Blank /\ t[Len(t)] \notin Blank
<1> DEFINE t == TrimSpace(s)
           ink == {i \in DOMAIN s : s[i] \notin Blank}
<1>1. Len(s) \in Nat /\ DOMAIN s = 1 .. Len(s)
  BY SequenceFacts
<1>2. CASE ink = {}
  <2>1. t = <<>>
    BY <1>2 DEF TrimSpace
  <2>2. Sequence(<<>>) /\ Range(<<>>) = {}
    BY DEF Sequence, Range
  <2> QED BY <2>1, <2>2
<1>3. CASE ink # {}
  <2> DEFINE a == Min(ink)
             b == Max(ink)
  <2>1. t = SubSeq(s, a, b)
    BY <1>3 DEF TrimSpace
  <2>2. ink \subseteq 1 .. Len(s) /\ ink \subseteq Nat
    BY <1>1
  <2>3. \A i \in ink : s[i] \notin Blank
    OBVIOUS
  <2> HIDE DEF ink
  <2>4. /\ a \in ink /\ \A y \in ink : a <= y
        /\ b \in ink
    BY <1>1, <1>3, <2>2, MinIsLeast, MaxIsGreatest
  <2>5. a \in 1 .. Len(s) /\ b \in 1 .. Len(s) /\ a <= b
    BY <2>2, <2>4
  <2> HIDE DEF a, b, t
  <2>6. \A i \in a .. b : s[i] \in Range(s)
    BY <1>1, <2>5 DEF Range
  <2>7. /\ t \in Seq(Range(s)) /\ Len(t) = b - a + 1
        /\ \A i \in 1 .. b - a + 1 : t[i] = s[a + i - 1]
    BY <2>1, <2>5, <2>6, SubSeqProperties
  <2>8. Sequence(t)
    BY <2>7, SequenceOfAny
  <2>9. Range(t) \subseteq Range(s)
    BY <2>7 DEF Range
  <2>10. t[1] = s[a] /\ t[Len(t)] = s[b]
    <3>1. 1 \in 1 .. b - a + 1 /\ b - a + 1 \in 1 .. b - a + 1
      BY <1>1, <2>5
    <3>2. a + 1 - 1 = a /\ a + (b - a + 1) - 1 = b
      BY <1>1, <2>5
    <3> QED BY <2>7, <3>1, <3>2
  <2> QED BY <2>3, <2>4, <2>8, <2>9, <2>10 DEF t
<1> QED BY <1>2, <1>3

\* It leaves alone what has no blank at either end.
LEMMA NothingToTrim ==
  ASSUME NEW s, Sequence(s), s # <<>>, s[1] \notin Blank, s[Len(s)] \notin Blank
  PROVE  TrimSpace(s) = s
<1> DEFINE ink == {i \in DOMAIN s : s[i] \notin Blank}
<1>1. Len(s) \in Nat /\ DOMAIN s = 1 .. Len(s)
  BY SequenceFacts
<1>2. Len(s) # 0
  <2>1. s \in Seq(Range(s))
    BY DEF Sequence
  <2> QED BY <2>1, EmptySeq
<1>3. 1 \in ink /\ Len(s) \in ink /\ ink \subseteq 1 .. Len(s) /\ ink \subseteq Nat
  BY <1>1, <1>2
<1>4. TrimSpace(s) = SubSeq(s, Min(ink), Max(ink))
  BY <1>3 DEF TrimSpace
<1> HIDE DEF ink
<1> DEFINE a == Min(ink)
           b == Max(ink)
<1>5. a \in ink /\ a <= 1 /\ b \in ink /\ Len(s) <= b
  BY <1>1, <1>3, MinIsLeast, MaxIsGreatest
<1> HIDE DEF a, b
<1>6. a \in Int /\ 1 <= a /\ b \in Int /\ b <= Len(s)
  BY <1>1, <1>3, <1>5
<1>7. a = 1 /\ b = Len(s)
  <2> DEFINE n == Len(s)
  <2>1. n \in Nat /\ n <= b /\ b <= n
    BY <1>1, <1>5, <1>6
  <2> HIDE DEF n
  <2>2. b = n
    BY <1>6, <2>1
  <2> QED BY <1>5, <1>6, <2>2 DEF n
<1>8. SubSeq(s, 1, Len(s)) = s
  BY SubSeqFull DEF Sequence
<1> QED BY <1>4, <1>7, <1>8 DEF a, b

\* There is nothing in an empty text.
LEMMA NothingIn == TrimSpace(<<>>) = <<>>
BY DEF TrimSpace

-----------------------------------------------------------------------------
\* parseCommands reads a text character by character.

NothingRead == [lines |-> <<>>, raw |-> <<>>]

\* What has been read after each character of s.
ReadAs(f, s) ==
  /\ f[0] = NothingRead
  /\ \A k \in 1 .. Len(s) : f[k] = ReadChar(f[k - 1], s[k])
  /\ CommandLines(s) = AddLine(f[Len(s)].lines, f[Len(s)].raw)

\* The recursive function of CommandLines exists.
LEMMA ReadingExists ==
  ASSUME NEW s, NEW n \in Nat
  PROVE  \E f : f = [k \in 0 .. n |-> IF k = 0 THEN [lines |-> <<>>, raw |-> <<>>]
                                     ELSE ReadChar(f[k - 1], s[k])]
<1> DEFINE Built(f, m) == f = [k \in 0 .. m |-> IF k = 0 THEN [lines |-> <<>>, raw |-> <<>>]
                                              ELSE ReadChar(f[k - 1], s[k])]
           Unbuilt == {m \in Nat : ~\E f : Built(f, m)}
<1> SUFFICES ASSUME Unbuilt # {} PROVE FALSE
  OBVIOUS
<1>1. PICK m \in Unbuilt : \A k \in Unbuilt : m <= k
  <2>1. Unbuilt \subseteq Nat
    OBVIOUS
  <2> HIDE DEF Unbuilt
  <2> QED BY <2>1, LeastNumber
<1>2. m \in Nat /\ ~\E f : Built(f, m)
  OBVIOUS
<1>3. m # 0
  <2>1. Built([k \in 0 .. 0 |-> [lines |-> <<>>, raw |-> <<>>]], 0)
    <3> DEFINE g == [k \in 0 .. 0 |-> [lines |-> <<>>, raw |-> <<>>]]
    <3>1. \A k \in 0 .. 0 : k = 0
      OBVIOUS
    <3> QED BY <3>1
  <2> QED BY <1>2, <2>1
<1>4. PICK f : Built(f, m - 1)
  <2>1. m - 1 \in Nat /\ ~(m <= m - 1)
    BY <1>2, <1>3
  <2>2. m - 1 \notin Unbuilt
    BY <1>1, <2>1
  <2> HIDE DEF Built
  <2> QED BY <2>1, <2>2
<1> DEFINE g == [k \in 0 .. m |-> IF k = m THEN ReadChar(f[m - 1], s[m]) ELSE f[k]]
<1>5. ASSUME NEW k \in 0 .. m
      PROVE  g[k] = IF k = 0 THEN [lines |-> <<>>, raw |-> <<>>] ELSE ReadChar(g[k - 1], s[k])
  <2>1. CASE k = m
    <3>1. m - 1 \in 0 .. m /\ m - 1 # m /\ g[m - 1] = f[m - 1]
      BY <1>2, <1>3
    <3>2. g[m] = ReadChar(f[m - 1], s[m])
      BY <1>2
    <3> QED BY <1>3, <2>1, <3>1, <3>2
  <2>2. CASE k # m
    <3>1. k \in 0 .. m - 1 /\ g[k] = f[k]
      BY <1>2, <2>2
    <3>2. f[k] = IF k = 0 THEN [lines |-> <<>>, raw |-> <<>>] ELSE ReadChar(f[k - 1], s[k])
      BY <1>4, <3>1
    <3>3. k # 0 => k - 1 \in 0 .. m /\ k - 1 # m /\ g[k - 1] = f[k - 1]
      BY <1>2, <2>2
    <3> QED BY <3>1, <3>2, <3>3
  <2> QED BY <2>1, <2>2
<1>6. Built(g, m)
  <2>1. g = [k \in 0 .. m |-> g[k]]
    OBVIOUS
  <2> HIDE DEF g
  <2> QED BY <1>5, <2>1
<1> QED BY <1>2, <1>6

\* So there is such a record of any text.
LEMMA Reading == ASSUME NEW s, Sequence(s) PROVE \E f : ReadAs(f, s)
<1> DEFINE n == Len(s)
           f == CHOOSE f : f = [k \in 0 .. n |-> IF k = 0 THEN [lines |-> <<>>, raw |-> <<>>]
                                                ELSE ReadChar(f[k - 1], s[k])]
<1>1. n \in Nat
  BY SequenceFacts
<1>2. CommandLines(s) = AddLine(f[n].lines, f[n].raw)
  BY DEF CommandLines
<1> HIDE DEF n
<1>3. f = [k \in 0 .. n |-> IF k = 0 THEN [lines |-> <<>>, raw |-> <<>>]
                           ELSE ReadChar(f[k - 1], s[k])]
  BY <1>1, ReadingExists
<1> HIDE DEF f
<1>4. f[0] = NothingRead
  BY <1>1, <1>3 DEF NothingRead
<1>5. \A k \in 1 .. n : f[k] = ReadChar(f[k - 1], s[k])
  BY <1>1, <1>3
<1> QED BY <1>2, <1>4, <1>5 DEF n, ReadAs

NoBreak(s) == \A i \in DOMAIN s : s[i] \notin {"nl", "cr"}
CleanLine(line) ==
  Sequence(line) /\ line # <<>> /\ TrimSpace(line) = line /\ NoBreak(line)

\* A line is added trimmed, when it is not blank.
LEMMA LineAdded ==
  ASSUME NEW lines, Sequence(lines), \A line \in Range(lines) : CleanLine(line),
         NEW raw, Sequence(raw), NoBreak(raw)
  PROVE  LET after == AddLine(lines, raw)
         IN Sequence(after) /\ \A line \in Range(after) : CleanLine(line)
<1> DEFINE t == TrimSpace(raw)
<1>1. CASE t = <<>>
  BY <1>1 DEF AddLine
<1>2. CASE t # <<>>
  <2>1. /\ Sequence(t) /\ Range(t) \subseteq Range(raw)
        /\ t[1] \notin Blank /\ t[Len(t)] \notin Blank
    BY <1>2, Trimmed
  <2>2. AddLine(lines, raw) = Append(lines, t)
    BY <1>2 DEF AddLine
  <2> HIDE DEF t
  <2>3. TrimSpace(t) = t
    BY <1>2, <2>1, NothingToTrim
  <2>4. NoBreak(t)
    BY <2>1 DEF NoBreak, Range
  <2>5. CleanLine(t)
    BY <1>2, <2>1, <2>3, <2>4 DEF CleanLine
  <2>6. Sequence(Append(lines, t)) /\ Range(Append(lines, t)) = Range(lines) \cup {t}
    BY AppendOne
  <2> QED BY <2>2, <2>5, <2>6
<1> QED BY <1>1, <1>2

\* Commands are never blank, start and end in ink and hold no line break.
LEMMA LinesClean ==
  ASSUME NEW s, Sequence(s)
  PROVE  /\ Sequence(CommandLines(s))
         /\ \A line \in Range(CommandLines(s)) : CleanLine(line)
<1>0. PICK f : ReadAs(f, s)
  BY Reading
<1>1. /\ f[0] = NothingRead
      /\ \A k \in 1 .. Len(s) : f[k] = ReadChar(f[k - 1], s[k])
      /\ CommandLines(s) = AddLine(f[Len(s)].lines, f[Len(s)].raw)
  BY <1>0 DEF ReadAs
<1> DEFINE n == Len(s)
           Good(st) == /\ Sequence(st.lines) /\ \A line \in Range(st.lines) : CleanLine(line)
                       /\ Sequence(st.raw) /\ NoBreak(st.raw)
           Bad == {k \in 0 .. n : ~Good(f[k])}
<1>2. n \in Nat
  BY SequenceFacts
<1>3. Good(NothingRead)
  <2>1. Sequence(<<>>) /\ Range(<<>>) = {} /\ DOMAIN <<>> = {}
    BY DEF Sequence, Range
  <2> QED BY <2>1 DEF NothingRead, NoBreak
<1>4. ASSUME NEW st, NEW r, Good(st) PROVE Good(ReadChar(st, r))
  <2>1. CASE r \in {"nl", "cr"}
    <3>1. ReadChar(st, r) = [lines |-> AddLine(st.lines, st.raw), raw |-> <<>>]
      BY <2>1 DEF ReadChar
    <3>2. /\ Sequence(AddLine(st.lines, st.raw))
          /\ \A line \in Range(AddLine(st.lines, st.raw)) : CleanLine(line)
      BY <1>4, LineAdded
    <3>3. Sequence(<<>>) /\ NoBreak(<<>>)
      BY DEF Sequence, Range, NoBreak
    <3> QED BY <3>1, <3>2, <3>3
  <2>2. CASE r \notin {"nl", "cr"}
    <3>1. ReadChar(st, r) = [st EXCEPT !.raw = Append(@, r)]
      BY <2>2 DEF ReadChar
    <3>2. /\ Sequence(Append(st.raw, r))
          /\ Range(Append(st.raw, r)) = Range(st.raw) \cup {r}
      BY <1>4, AppendOne
    <3>3. NoBreak(Append(st.raw, r))
      BY <1>4, <2>2, <3>2 DEF NoBreak, Range
    <3> QED BY <1>4, <3>1, <3>2, <3>3
  <2> QED BY <2>1, <2>2
<1>5. Bad = {}
  <2> SUFFICES ASSUME Bad # {} PROVE FALSE
    OBVIOUS
  <2>1. PICK k \in Bad : \A j \in Bad : k <= j
    <3>1. Bad \subseteq Nat
      BY <1>2
    <3> HIDE DEF Bad
    <3> QED BY <3>1, LeastNumber
  <2>2. k \in 0 .. n /\ ~Good(f[k])
    OBVIOUS
  <2> HIDE DEF Good
  <2>3. k # 0
    BY <1>1, <1>3, <2>2
  <2>4. k - 1 \in 0 .. n /\ ~(k <= k - 1) /\ k \in 1 .. n
    BY <1>2, <2>2, <2>3
  <2>5. Good(f[k - 1])
    BY <2>1, <2>4
  <2> QED BY <1>1, <1>4, <2>2, <2>4, <2>5
<1>6. Good(f[n])
  <2>1. n \in 0 .. n
    BY <1>2
  <2> HIDE DEF Good
  <2> QED BY <1>5, <2>1
<1> QED BY <1>1, <1>6, LineAdded

-----------------------------------------------------------------------------
\* The line of a description.

LineOf(d) == LineHead \o vyosQuote(d)

\* Its characters.
LEMMA LineChars ==
  ASSUME NEW d, Sequence(d)
  PROVE  LET line == LineOf(d) m == Len(d) IN
           /\ m \in Nat /\ Sequence(line) /\ Len(line) = m + 4
           /\ line[1] = "set" /\ line[2] = "sp" /\ line[3] = "sq" /\ line[m + 4] = "sq"
           /\ \A j \in 1 .. m : line[j + 3] = d[j]
           /\ Range(line) = {"set", "sp", "sq"} \cup Range(d)
<1> DEFINE m == Len(d)
           quote == <<"sq">>
           opened == quote \o d
           quoted == opened \o quote
           line == LineHead \o quoted
<1>1. line = LineOf(d)
  BY DEF LineOf, vyosQuote
<1>2. Sequence(quote) /\ Len(quote) = 1 /\ quote[1] = "sq" /\ Range(quote) = {"sq"}
  BY DEF Sequence, Range
<1>3. /\ Sequence(LineHead) /\ Len(LineHead) = 2 /\ LineHead[1] = "set" /\ LineHead[2] = "sp"
      /\ Range(LineHead) = {"set", "sp"}
  BY DEF LineHead, Sequence, Range
<1>4. m \in Nat
  BY SequenceFacts
<1> HIDE DEF quote
<1>5. /\ Sequence(opened) /\ Len(opened) = 1 + m /\ opened[1] = "sq"
      /\ \A j \in 1 .. m : opened[1 + j] = d[j]
      /\ Range(opened) = {"sq"} \cup Range(d)
  <2>1. /\ Sequence(opened) /\ Len(opened) = Len(quote) + Len(d)
        /\ \A j \in 1 .. Len(quote) : opened[j] = quote[j]
        /\ \A j \in 1 .. Len(d) : opened[Len(quote) + j] = d[j]
        /\ Range(opened) = Range(quote) \cup Range(d)
    BY <1>2, Concatenated
  <2> HIDE DEF opened
  <2> QED BY <1>2, <2>1
<1> HIDE DEF opened
<1>6. /\ Sequence(quoted) /\ Len(quoted) = m + 2 /\ quoted[1] = "sq" /\ quoted[m + 2] = "sq"
      /\ \A j \in 1 .. m : quoted[1 + j] = d[j]
      /\ Range(quoted) = {"sq"} \cup Range(d)
  <2>1. /\ Sequence(quoted) /\ Len(quoted) = Len(opened) + Len(quote)
        /\ \A j \in 1 .. Len(opened) : quoted[j] = opened[j]
        /\ \A j \in 1 .. Len(quote) : quoted[Len(opened) + j] = quote[j]
        /\ Range(quoted) = Range(opened) \cup Range(quote)
    BY <1>2, <1>5, Concatenated
  <2> HIDE DEF quoted, m
  <2>2. Len(quoted) = m + 2 /\ (1 + m) + 1 = m + 2
    BY <1>2, <1>4, <1>5, <2>1
  <2>3. quoted[1] = "sq" /\ quoted[m + 2] = "sq"
    BY <1>2, <1>4, <1>5, <2>1, <2>2
  <2>4. \A j \in 1 .. m : quoted[1 + j] = d[j]
    BY <1>4, <1>5, <2>1
  <2> QED BY <1>2, <1>5, <2>1, <2>2, <2>3, <2>4
<1> HIDE DEF quoted
<1>7. /\ Sequence(line) /\ Len(line) = Len(LineHead) + Len(quoted)
      /\ \A j \in 1 .. Len(LineHead) : line[j] = LineHead[j]
      /\ \A j \in 1 .. Len(quoted) : line[Len(LineHead) + j] = quoted[j]
      /\ Range(line) = Range(LineHead) \cup Range(quoted)
  BY <1>3, <1>6, Concatenated, ZenonT(30)
<1> HIDE DEF line, m
<1>8. Len(line) = m + 4 /\ line[1] = "set" /\ line[2] = "sp"
  BY <1>3, <1>4, <1>6, <1>7
<1>9. \A j \in 1 .. m + 2 : line[2 + j] = quoted[j]
  BY <1>3, <1>6, <1>7
<1>10. line[3] = "sq" /\ line[m + 4] = "sq"
  <2>1. 1 \in 1 .. m + 2 /\ m + 2 \in 1 .. m + 2 /\ 2 + (m + 2) = m + 4
    BY <1>4
  <2> QED BY <1>6, <1>9, <2>1
<1>11. \A j \in 1 .. m : line[j + 3] = d[j]
  <2> TAKE j \in 1 .. m
  <2>1. 1 + j \in 1 .. m + 2 /\ 2 + (1 + j) = j + 3
    BY <1>4
  <2> QED BY <1>6, <1>9, <2>1
<1>12. Range(line) = {"set", "sp", "sq"} \cup Range(d)
  BY <1>3, <1>6, <1>7
<1> QED BY <1>1, <1>4, <1>7, <1>8, <1>10, <1>11, <1>12 DEF m

\* A beginning and the element after it.
LEMMA Prefix ==
  ASSUME NEW s, Sequence(s), NEW k \in 1 .. Len(s)
  PROVE  Append(SubSeq(s, 1, k - 1), s[k]) = SubSeq(s, 1, k)
<1>1. Len(s) \in Nat /\ s \in Seq(Range(s)) /\ 1 \in 1 .. Len(s) /\ k \in Nat
  BY SequenceFacts DEF Sequence
<1>2. SubSeq(s, 1, k) = SubSeq(s, 1, k - 1) \o <<s[k]>>
  BY <1>1, SubSeqRecursiveSecond
<1>3. SubSeq(s, 1, k - 1) \in Seq(Range(s)) /\ s[k] \in Range(s)
  <2>1. \A i \in 1 .. k - 1 : s[i] \in Range(s)
    BY <1>1
  <2>2. s[k] \in Range(s)
    BY <1>1
  <2> QED BY <1>1, <2>1, <2>2, SubSeqProperties
<1> QED BY <1>2, <1>3, AppendIsConcat

\* A rendered description is one command, the line it was written as.
LEMMA RenderedLines ==
  ASSUME NEW d, Sequence(d), NoBreak(d)
  PROVE  /\ CommandLines(LineOf(d) \o <<"nl">>) = <<LineOf(d)>>
         /\ CleanLine(LineOf(d))
<1> DEFINE line == LineOf(d)
           n == Len(line)
           end == <<"nl">>
           s == line \o end
<1>1. /\ Sequence(line) /\ n \in Nat /\ n >= 4
      /\ line[1] = "set" /\ line[n] = "sq"
      /\ Range(line) = {"set", "sp", "sq"} \cup Range(d)
  BY LineChars, SequenceFacts
<1>2. DOMAIN line = 1 .. n
  BY <1>1, SequenceFacts
<1>3. Sequence(end) /\ Len(end) = 1 /\ end[1] = "nl"
  BY DEF Sequence, Range
<1> HIDE DEF line, end
<1>4. NoBreak(line)
  BY <1>1 DEF NoBreak, Range
<1>5. TrimSpace(line) = line /\ line # <<>>
  <2>1. line # <<>>
    BY <1>1 DEF Sequence
  <2>2. line[1] \notin Blank /\ line[Len(line)] \notin Blank
    BY <1>1 DEF Blank
  <2> QED BY <1>1, <2>1, <2>2, NothingToTrim
<1>6. /\ Sequence(s) /\ Len(s) = n + 1
      /\ \A j \in 1 .. n : s[j] = line[j]
      /\ s[n + 1] = "nl"
  <2>0. Sequence(line) /\ Sequence(end)
    BY <1>1, <1>3
  <2>1. /\ Sequence(s) /\ Len(s) = Len(line) + Len(end)
        /\ \A j \in 1 .. Len(line) : s[j] = line[j]
        /\ \A j \in 1 .. Len(end) : s[Len(line) + j] = end[j]
    BY <2>0, Concatenated
  <2> HIDE DEF s
  <2> QED BY <1>1, <1>3, <2>1
<1> HIDE DEF s
<1>7. PICK f : ReadAs(f, s)
  BY <1>6, Reading
<1>8. /\ f[0] = NothingRead
      /\ \A k \in 1 .. n + 1 : f[k] = ReadChar(f[k - 1], s[k])
      /\ CommandLines(s) = AddLine(f[n + 1].lines, f[n + 1].raw)
  BY <1>6, <1>7 DEF ReadAs
<1> DEFINE Read(k) == [lines |-> <<>>, raw |-> SubSeq(line, 1, k)]
           Wrong == {k \in 0 .. n : f[k] # Read(k)}
<1>9. Wrong = {}
  <2> SUFFICES ASSUME Wrong # {} PROVE FALSE
    OBVIOUS
  <2>1. PICK k \in Wrong : \A j \in Wrong : k <= j
    <3>1. Wrong \subseteq Nat
      BY <1>1
    <3> HIDE DEF Wrong
    <3> QED BY <3>1, LeastNumber
  <2>2. k \in 0 .. n /\ f[k] # Read(k)
    OBVIOUS
  <2>3. k # 0
    <3>1. SubSeq(line, 1, 0) = <<>>
      BY SubSeqEmpty
    <3> QED BY <1>8, <2>2, <3>1 DEF NothingRead
  <2>4. k - 1 \in 0 .. n /\ ~(k <= k - 1) /\ k \in 1 .. n /\ k \in 1 .. n + 1
    BY <1>1, <2>2, <2>3
  <2>5. f[k - 1] = Read(k - 1)
    BY <2>1, <2>4
  <2>6. f[k] = ReadChar(Read(k - 1), line[k]) /\ line[k] \notin {"nl", "cr"}
    BY <1>2, <1>4, <1>6, <1>8, <2>4, <2>5 DEF NoBreak
  <2>7. Append(SubSeq(line, 1, k - 1), line[k]) = SubSeq(line, 1, k)
    BY <1>1, <2>4, Prefix
  <2>8. ReadChar(Read(k - 1), line[k]) = Read(k)
    BY <2>6, <2>7 DEF ReadChar
  <2> QED BY <2>2, <2>6, <2>8
<1>10. f[n] = [lines |-> <<>>, raw |-> line]
  <2>1. n \in 0 .. n
    BY <1>1
  <2>2. f[n] = Read(n)
    BY <1>9, <2>1
  <2>3. SubSeq(line, 1, n) = line
    BY <1>1, SubSeqFull DEF Sequence
  <2> QED BY <2>2, <2>3
<1>11. f[n + 1] = [lines |-> AddLine(<<>>, line), raw |-> <<>>]
  <2>1. n + 1 \in 1 .. n + 1 /\ (n + 1) - 1 = n
    BY <1>1
  <2>2. f[n + 1] = ReadChar(f[n], "nl")
    BY <1>6, <1>8, <2>1
  <2> QED BY <1>10, <2>2 DEF ReadChar
<1>12. AddLine(<<>>, line) = <<line>>
  <2>1. Append(<<>>, line) = <<line>>
    OBVIOUS
  <2> QED BY <1>5, <2>1 DEF AddLine
<1>13. CommandLines(s) = <<line>>
  BY <1>8, <1>11, <1>12, NothingIn DEF AddLine
<1> QED BY <1>1, <1>4, <1>5, <1>13 DEF CleanLine, s, end, line

-----------------------------------------------------------------------------
\* The tokenizers.

\* The recursive function of tokenizeCommand exists.
LEMMA TokenizingExists ==
  ASSUME NEW s, NEW n \in Nat
  PROVE  \E f : f = [k \in 0 .. n |-> IF k = 0 THEN NoToken ELSE tokenizeRune(f[k - 1], s[k])]
<1> DEFINE Built(f, m) ==
             f = [k \in 0 .. m |-> IF k = 0 THEN NoToken ELSE tokenizeRune(f[k - 1], s[k])]
           Unbuilt == {m \in Nat : ~\E f : Built(f, m)}
<1> SUFFICES ASSUME Unbuilt # {} PROVE FALSE
  OBVIOUS
<1>1. PICK m \in Unbuilt : \A k \in Unbuilt : m <= k
  <2>1. Unbuilt \subseteq Nat
    OBVIOUS
  <2> HIDE DEF Unbuilt
  <2> QED BY <2>1, LeastNumber
<1>2. m \in Nat /\ ~\E f : Built(f, m)
  OBVIOUS
<1>3. m # 0
  <2>1. Built([k \in 0 .. 0 |-> NoToken], 0)
    <3>1. \A k \in 0 .. 0 : k = 0
      OBVIOUS
    <3> QED BY <3>1
  <2> QED BY <1>2, <2>1
<1>4. PICK f : Built(f, m - 1)
  <2>1. m - 1 \in Nat /\ ~(m <= m - 1)
    BY <1>2, <1>3
  <2>2. m - 1 \notin Unbuilt
    BY <1>1, <2>1
  <2> HIDE DEF Built
  <2> QED BY <2>1, <2>2
<1> DEFINE g == [k \in 0 .. m |-> IF k = m THEN tokenizeRune(f[m - 1], s[m]) ELSE f[k]]
<1>5. ASSUME NEW k \in 0 .. m
      PROVE  g[k] = IF k = 0 THEN NoToken ELSE tokenizeRune(g[k - 1], s[k])
  <2>1. CASE k = m
    <3>1. m - 1 \in 0 .. m /\ m - 1 # m /\ g[m - 1] = f[m - 1]
      BY <1>2, <1>3
    <3>2. g[m] = tokenizeRune(f[m - 1], s[m])
      BY <1>2
    <3> QED BY <1>3, <2>1, <3>1, <3>2
  <2>2. CASE k # m
    <3>1. k \in 0 .. m - 1 /\ g[k] = f[k]
      BY <1>2, <2>2
    <3>2. f[k] = IF k = 0 THEN NoToken ELSE tokenizeRune(f[k - 1], s[k])
      BY <1>4, <3>1
    <3>3. k # 0 => k - 1 \in 0 .. m /\ k - 1 # m /\ g[k - 1] = f[k - 1]
      BY <1>2, <2>2
    <3> QED BY <3>1, <3>2, <3>3
  <2> QED BY <2>1, <2>2
<1>6. Built(g, m)
  <2>1. g = [k \in 0 .. m |-> g[k]]
    OBVIOUS
  <2> HIDE DEF g
  <2> QED BY <1>5, <2>1
<1> QED BY <1>2, <1>6

\* What the tokenizer knows after each character of s.
TokenizedAs(f, s) ==
  /\ f[0] = NoToken
  /\ \A k \in 1 .. Len(s) : f[k] = tokenizeRune(f[k - 1], s[k])
  /\ tokenizeCommand(s) = Flush(f[Len(s)])

\* So there is such a record of any line.
LEMMA Tokenizing == ASSUME NEW s, Sequence(s) PROVE \E f : TokenizedAs(f, s)
<1> DEFINE n == Len(s)
           f == CHOOSE f : f = [k \in 0 .. n |-> IF k = 0 THEN NoToken
                                                ELSE tokenizeRune(f[k - 1], s[k])]
<1>1. n \in Nat
  BY SequenceFacts
<1>2. tokenizeCommand(s) = Flush(f[n])
  BY DEF tokenizeCommand
<1> HIDE DEF n
<1>3. f = [k \in 0 .. n |-> IF k = 0 THEN NoToken ELSE tokenizeRune(f[k - 1], s[k])]
  BY <1>1, TokenizingExists
<1> HIDE DEF f
<1>4. f[0] = NoToken
  BY <1>1, <1>3
<1>5. \A k \in 1 .. n : f[k] = tokenizeRune(f[k - 1], s[k])
  BY <1>1, <1>3
<1> QED BY <1>2, <1>4, <1>5 DEF n, TokenizedAs

\* The session's copy makes the same tokens of a trimmed line.
LEMMA CopiesAgree ==
  ASSUME NEW line, TrimSpace(line) = line
  PROVE  splitTokens(line) = tokenizeCommand(line)
<1>1. \A q, r : splitRune(q, r) = tokenizeRune(q, r)
  BY DEF splitRune, tokenizeRune
<1>2. splitTokens(line) =
        LET q[n \in 0 .. Len(line)] == IF n = 0 THEN NoToken ELSE splitRune(q[n - 1], line[n])
        IN Flush(q[Len(line)])
  BY DEF splitTokens
<1> QED BY <1>1, <1>2 DEF tokenizeCommand

-----------------------------------------------------------------------------
\* What the tokenizer makes of the line of a description.

\* The tokenizer before a word, inside single quotes and after them.
Between(tokens) == [tokens |-> tokens, current |-> <<>>, single |-> FALSE, double |-> FALSE,
                    started |-> FALSE]
Word(tokens, c) == [tokens |-> tokens, current |-> c, single |-> FALSE, double |-> FALSE,
                    started |-> TRUE]
Inside(tokens, c) == [tokens |-> tokens, current |-> c, single |-> TRUE, double |-> FALSE,
                      started |-> TRUE]

\* How a character moves it.
LEMMA Moves ==
  ASSUME NEW tokens, NEW c
  PROVE  /\ tokenizeRune(Between(tokens), "set") = Word(tokens, Append(<<>>, "set"))
         /\ tokenizeRune(Between(tokens), "sq") = Inside(tokens, <<>>)
         /\ tokenizeRune(Word(tokens, c), "sp") = Flush(Word(tokens, c))
         /\ tokenizeRune(Inside(tokens, c), "sq") = Word(tokens, c)
         /\ Flush(Word(tokens, c)) = Between(Append(tokens, c))
         /\ \A r : r # "sq" => tokenizeRune(Inside(tokens, c), r) = Inside(tokens, Append(c, r))
<1>1. tokenizeRune(Between(tokens), "set") = Word(tokens, Append(<<>>, "set"))
  BY DEF tokenizeRune, Between, Word, Blank
<1>2. tokenizeRune(Between(tokens), "sq") = Inside(tokens, <<>>)
  BY DEF tokenizeRune, Between, Inside, Blank, Flush
<1>3. tokenizeRune(Word(tokens, c), "sp") = Flush(Word(tokens, c))
  BY DEF tokenizeRune, Word, Blank
<1>4. tokenizeRune(Inside(tokens, c), "sq") = Word(tokens, c)
  BY DEF tokenizeRune, Inside, Word
<1>5. Flush(Word(tokens, c)) = Between(Append(tokens, c))
  BY DEF Flush, Word, Between
<1>6. ASSUME NEW r, r # "sq"
      PROVE  tokenizeRune(Inside(tokens, c), r) = Inside(tokens, Append(c, r))
  BY <1>6 DEF tokenizeRune, Inside
<1> QED BY <1>1, <1>2, <1>3, <1>4, <1>5, <1>6

NoQuote(s) == \A i \in DOMAIN s : s[i] # "sq"

\* A second element.
LEMMA Paired == ASSUME NEW a, NEW b PROVE Append(<<a>>, b) = <<a, b>>
<1> DEFINE s == Append(<<a>>, b)
           t == <<a, b>>
<1>1. t \in Seq({a, b}) /\ Len(t) = 2 /\ t[1] = a /\ t[2] = b
  OBVIOUS
<1>2. <<a>> \in Seq({a, b}) /\ Len(<<a>>) = 1 /\ <<a>>[1] = a
  OBVIOUS
<1>3. s \in Seq({a, b}) /\ Len(s) = 2 /\ s[1] = a /\ s[2] = b
  <2> DEFINE o == <<a>>
  <2>1. o \in Seq({a, b}) /\ Len(o) = 1 /\ o[1] = a
    BY <1>2
  <2> DEFINE S == {a, b}
  <2>0. o \in Seq(S) /\ b \in S
    BY <2>1
  <2> HIDE DEF o, S
  <2>2. /\ Append(o, b) \in Seq(S) /\ Len(Append(o, b)) = Len(o) + 1
        /\ \A i \in 1 .. Len(o) : Append(o, b)[i] = o[i]
        /\ Append(o, b)[Len(o) + 1] = b
    BY <2>0, AppendProperties
  <2>3. 1 \in 1 .. Len(o) /\ Len(o) + 1 = 2
    BY <2>1
  <2> QED BY <2>1, <2>2, <2>3 DEF o, S
<1> HIDE DEF s, t
<1>4. \A i \in 1 .. Len(s) : s[i] = t[i]
  BY <1>1, <1>3
<1>5. s = t
  BY <1>1, <1>3, <1>4, SeqEqual
<1> QED BY <1>5 DEF s, t

\* Two tokens, the second the description itself.
LEMMA RenderedTokens ==
  ASSUME NEW d, Sequence(d), NoQuote(d)
  PROVE  tokenizeCommand(LineOf(d)) = Between(<< <<"set">>, d >>)
<1> DEFINE line == LineOf(d)
           m == Len(d)
           path == <<"set">>
<1>1. /\ m \in Nat /\ Sequence(line) /\ Len(line) = m + 4
      /\ line[1] = "set" /\ line[2] = "sp" /\ line[3] = "sq" /\ line[m + 4] = "sq"
      /\ \A j \in 1 .. m : line[j + 3] = d[j]
  BY LineChars
<1>2. PICK f : TokenizedAs(f, line)
  BY <1>1, Tokenizing
<1>3. /\ f[0] = NoToken
      /\ \A k \in 1 .. m + 4 : f[k] = tokenizeRune(f[k - 1], line[k])
      /\ tokenizeCommand(line) = Flush(f[m + 4])
  BY <1>1, <1>2 DEF TokenizedAs
<1>4. \A j \in 1 .. m : d[j] # "sq"
  BY SequenceFacts DEF NoQuote
<1> HIDE DEF line, m
<1>5. f[1] = Word(<<>>, path)
  <2>1. 1 \in 1 .. m + 4 /\ 1 - 1 = 0
    BY <1>1
  <2>2. f[1] = tokenizeRune(NoToken, "set")
    BY <1>1, <1>3, <2>1
  <2>3. NoToken = Between(<<>>) /\ Append(<<>>, "set") = path
    BY DEF NoToken, Between
  <2> QED BY <2>2, <2>3, Moves
<1>6. f[2] = Between(<<path>>)
  <2>1. 2 \in 1 .. m + 4 /\ 2 - 1 = 1
    BY <1>1
  <2>2. f[2] = tokenizeRune(Word(<<>>, path), "sp")
    BY <1>1, <1>3, <1>5, <2>1
  <2>3. Append(<<>>, path) = <<path>>
    <3> HIDE DEF path
    <3> QED OBVIOUS
  <2>4. f[2] = Between(Append(<<>>, path))
    BY <2>2, Moves
  <2> QED BY <2>3, <2>4
<1>7. f[3] = Inside(<<path>>, <<>>)
  <2>1. 3 \in 1 .. m + 4 /\ 3 - 1 = 2
    BY <1>1
  <2>2. f[3] = tokenizeRune(Between(<<path>>), "sq")
    BY <1>1, <1>3, <1>6, <2>1
  <2> QED BY <2>2, Moves
<1> DEFINE Wrong == {j \in 0 .. m : f[j + 3] # Inside(<<path>>, SubSeq(d, 1, j))}
<1>8. Wrong = {}
  <2> SUFFICES ASSUME Wrong # {} PROVE FALSE
    OBVIOUS
  <2>1. PICK k \in Wrong : \A j \in Wrong : k <= j
    <3>1. Wrong \subseteq Nat
      BY <1>1
    <3> HIDE DEF Wrong
    <3> QED BY <3>1, LeastNumber
  <2>2. k \in 0 .. m /\ f[k + 3] # Inside(<<path>>, SubSeq(d, 1, k))
    OBVIOUS
  <2>3. k # 0
    <3>1. SubSeq(d, 1, 0) = <<>>
      BY SubSeqEmpty
    <3>2. 0 + 3 = 3
      OBVIOUS
    <3> QED BY <1>7, <2>2, <3>1, <3>2
  <2>4. /\ k - 1 \in 0 .. m /\ ~(k <= k - 1) /\ k \in 1 .. m
        /\ k + 3 \in 1 .. m + 4 /\ (k + 3) - 1 = (k - 1) + 3
    BY <1>1, <2>2, <2>3
  <2>5. f[(k - 1) + 3] = Inside(<<path>>, SubSeq(d, 1, k - 1))
    BY <2>1, <2>4
  <2>6. f[k + 3] = tokenizeRune(Inside(<<path>>, SubSeq(d, 1, k - 1)), d[k]) /\ d[k] # "sq"
    BY <1>1, <1>3, <1>4, <2>4, <2>5
  <2>7. Append(SubSeq(d, 1, k - 1), d[k]) = SubSeq(d, 1, k)
    BY <2>4, Prefix DEF m
  <2>8. f[k + 3] = Inside(<<path>>, Append(SubSeq(d, 1, k - 1), d[k]))
    BY <2>6, Moves
  <2> QED BY <2>2, <2>7, <2>8
<1>9. f[m + 3] = Inside(<<path>>, d)
  <2>1. m \in 0 .. m
    BY <1>1
  <2>2. SubSeq(d, 1, m) = d
    BY SubSeqFull DEF Sequence, m
  <2> QED BY <1>8, <2>1, <2>2
<1>10. f[m + 4] = Word(<<path>>, d)
  <2>1. m + 4 \in 1 .. m + 4 /\ (m + 4) - 1 = m + 3
    BY <1>1
  <2>2. f[m + 4] = tokenizeRune(Inside(<<path>>, d), "sq")
    BY <1>1, <1>3, <1>9, <2>1
  <2> QED BY <2>2, Moves
<1>11. Append(<<path>>, d) = <<path, d>>
  BY Paired
<1> QED BY <1>3, <1>10, <1>11, Moves DEF line

-----------------------------------------------------------------------------
\* What the session is given.

\* An accepted command is not refused by the session, and cut alike.
LEMMA AcceptedIsTaken ==
  ASSUME NEW line, CleanLine(line), ~Refused(line)
  PROVE  /\ ~splitRefuses(line)
         /\ splitTokens(line).tokens = tokenizeCommand(line).tokens
<1>1. TrimSpace(line) = line /\ NoBreak(line)
  BY DEF CleanLine
<1>2. splitTokens(line) = tokenizeCommand(line)
  BY <1>1, CopiesAgree
<1> DEFINE q == tokenizeCommand(line)
<1>3. /\ ~\E i \in DOMAIN line : line[i] = "meta"
      /\ ~q.single /\ ~q.double
      /\ q.tokens[1] = <<"set">>
      /\ ~(Len(q.tokens) < 2)
  BY DEF Refused
<1>4. \A i \in DOMAIN line : line[i] \notin {"nl", "cr", "meta"}
  BY <1>1, <1>3 DEF NoBreak
<1> HIDE DEF q
<1>5. ~splitRefuses(line)
  BY <1>1, <1>2, <1>3, <1>4 DEF splitRefuses, q
<1> QED BY <1>2, <1>5

\* A rendered description is refused for a metacharacter only.
LEMMA RenderedRefused ==
  ASSUME NEW d \in Descriptions, NoBreak(d), NoQuote(d), Refused(LineOf(d))
  PROVE  Contains(d, "meta")
<1> DEFINE line == LineOf(d)
           tokens == << <<"set">>, d >>
<1>1. Sequence(d) /\ SetPathOK(tokens)
  BY TextAssumption, SequenceOfAny
<1>2. /\ Sequence(line) /\ line[1] = "set"
      /\ Range(line) = {"set", "sp", "sq"} \cup Range(d)
  BY <1>1, LineChars
<1>3. tokenizeCommand(line) = Between(tokens)
  BY <1>1, RenderedTokens
<1>4. /\ tokenizeCommand(line).tokens = tokens
      /\ ~tokenizeCommand(line).single /\ ~tokenizeCommand(line).double
  BY <1>3 DEF Between
<1>5. tokens[1] = <<"set">> /\ Len(tokens) = 2
  OBVIOUS
<1> HIDE DEF line, tokens
<1>6. Refused(line)
  BY DEF line
<1>7. \E i \in DOMAIN line : line[i] = "meta"
  <2>1. ~(line[1] = "hash")
    BY <1>2
  <2>2. ~(Len(tokenizeCommand(line).tokens) < 2)
    BY <1>4, <1>5
  <2>3. tokenizeCommand(line).tokens[1] = <<"set">>
    BY <1>4, <1>5
  <2> QED BY <1>1, <1>4, <1>6, <2>1, <2>2, <2>3 DEF Refused
<1>8. "meta" \in Range(d)
  BY <1>2, <1>7 DEF Range
<1>9. DOMAIN d = 1 .. Len(d)
  BY <1>1, SequenceFacts
<1> QED BY <1>8, <1>9 DEF Contains, Range

-----------------------------------------------------------------------------
\* The session, from the text it is given to the last command it sends.

\* Commands are accepted lines, and what was sent of them is what was checked.
SentInv ==
  /\ Sequence(text) /\ Sequence(commands) /\ Sequence(sent)
  /\ phase # "set_refused"
  /\ Len(sent) <= Len(commands)
  /\ DOMAIN checked = DOMAIN commands
  /\ \A i \in DOMAIN commands : /\ CleanLine(commands[i]) /\ ~Refused(commands[i])
                                /\ checked[i] = tokenizeCommand(commands[i]).tokens
  /\ \A i \in DOMAIN sent : sent[i] = Tail(checked[i])

\* A description that was rendered is the only command, or refused as it should be.
DescInv ==
  /\ phase = "start" => desc = NoDesc
  /\ phase \in {"start", "text"} => commands = <<>>
  /\ desc # NoDesc =>
       /\ desc \in Descriptions /\ NoBreak(desc) /\ NoQuote(desc)
       /\ text = LineOf(desc) \o <<"nl">>
       /\ commands \in {<<>>, <<LineOf(desc)>>}
       /\ phase = "refused" => Contains(desc, "meta")

TextInv == SentInv /\ DescInv

\* It holds before anything is read.
LEMMA TextInit == SessionInit => TextInv
<1> SUFFICES ASSUME SessionInit PROVE TextInv
  OBVIOUS
<1>1. Sequence(<<>>) /\ Len(<<>>) = 0 /\ DOMAIN <<>> = {}
  BY DEF Sequence, Range
<1>2. SentInv
  BY <1>1 DEF SessionInit, Init, SentInv
<1>3. DescInv
  BY DEF SessionInit, Init, DescInv
<1> QED BY <1>2, <1>3 DEF TextInv

\* A text that is given becomes the one to read.
LEMMA GiveKeeps == TextInv /\ Give => TextInv'
<1> SUFFICES ASSUME TextInv, Give PROVE TextInv'
  OBVIOUS
<1>1. text' \in Texts /\ phase = "start" /\ phase' = "text"
      /\ UNCHANGED <<desc, commands, checked, sent>>
  BY DEF Give
<1>2. Sequence(text')
  BY <1>1, TextAssumption, SequenceOfAny
<1>3. SentInv'
  BY <1>1, <1>2 DEF TextInv, SentInv
<1>4. desc' = NoDesc
  BY <1>1 DEF TextInv, DescInv
<1>5. DescInv'
  BY <1>1, <1>4 DEF TextInv, DescInv
<1> QED BY <1>3, <1>5 DEF TextInv

\* So does the line of a description, when it can be quoted.
LEMMA RenderKeeps == TextInv /\ Render => TextInv'
<1> SUFFICES ASSUME TextInv, Render PROVE TextInv'
  OBVIOUS
<1>1. PICK d \in Descriptions :
        IF descriptionOK(d) /\ vyosQuotable(d)
        THEN desc' = d /\ text' = LineHead \o vyosQuote(d) \o <<"nl">> /\ phase' = "text"
        ELSE phase' = "not_rendered" /\ UNCHANGED <<desc, text>>
  BY DEF Render
<1>2. phase = "start" /\ UNCHANGED <<commands, checked, sent>>
  BY DEF Render
<1>3. desc = NoDesc
  BY <1>2 DEF TextInv, DescInv
<1>4. CASE descriptionOK(d) /\ vyosQuotable(d)
  <2>1. desc' = d /\ phase' = "text"
    BY <1>1, <1>4
  <2>2. text' = LineOf(d) \o <<"nl">>
    BY <1>1, <1>4 DEF LineOf
  <2>3. NoBreak(d) /\ NoQuote(d)
    BY <1>4 DEF vyosQuotable, NoBreak, NoQuote
  <2>4. Sequence(d)
    BY TextAssumption, SequenceOfAny
  <2>5. Sequence(LineOf(d)) /\ Sequence(<<"nl">>)
    BY <2>4, LineChars DEF Sequence, Range
  <2>6. Sequence(text')
    BY <2>2, <2>5, Concatenated
  <2>7. SentInv'
    BY <1>2, <2>1, <2>6 DEF TextInv, SentInv
  <2>8. commands' = <<>>
    BY <1>2 DEF TextInv, DescInv
  <2>9. DescInv'
    BY <2>1, <2>2, <2>3, <2>8 DEF DescInv
  <2> QED BY <2>7, <2>9 DEF TextInv
<1>5. CASE ~(descriptionOK(d) /\ vyosQuotable(d))
  <2>1. phase' = "not_rendered" /\ desc' = desc /\ text' = text
    BY <1>1, <1>5
  <2>2. SentInv'
    BY <1>2, <2>1 DEF TextInv, SentInv
  <2>3. DescInv'
    BY <1>2, <1>3, <2>1 DEF TextInv, DescInv
  <2> QED BY <2>2, <2>3 DEF TextInv
<1> QED BY <1>4, <1>5

\* parseCommands keeps lines that are clean and accepted, or none.
LEMMA ParseKeeps == TextInv /\ Parse => TextInv'
<1> SUFFICES ASSUME TextInv, Parse PROVE TextInv'
  OBVIOUS
<1> DEFINE found == CommandLines(text)
           refuse == found = <<>> \/ \E i \in DOMAIN found : Refused(found[i])
<1>1. phase = "text" /\ UNCHANGED <<desc, text, sent>>
  BY DEF Parse
<1>2. Sequence(found) /\ \A line \in Range(found) : CleanLine(line)
  BY LinesClean DEF TextInv, SentInv
<1>3. commands = <<>> /\ sent = <<>>
  <2>1. commands = <<>>
    BY <1>1 DEF TextInv, DescInv
  <2>2. Len(commands) = 0
    BY <2>1
  <2>3. Sequence(sent) /\ Len(sent) <= Len(commands)
    BY DEF TextInv, SentInv
  <2>4. Len(sent) = 0
    BY <2>2, <2>3, SequenceFacts
  <2>5. sent \in Seq(Range(sent))
    BY <2>3 DEF Sequence
  <2> QED BY <2>1, <2>4, <2>5, EmptySeq
<1>4. ASSUME desc # NoDesc
      PROVE  /\ desc \in Descriptions /\ NoBreak(desc) /\ NoQuote(desc)
             /\ text = LineOf(desc) \o <<"nl">>
             /\ found = <<LineOf(desc)>>
  <2>1. /\ desc \in Descriptions /\ NoBreak(desc) /\ NoQuote(desc)
        /\ text = LineOf(desc) \o <<"nl">>
    BY <1>4 DEF TextInv, DescInv
  <2>2. Sequence(desc)
    BY <2>1, TextAssumption, SequenceOfAny
  <2> QED BY <2>1, <2>2, RenderedLines
<1> HIDE DEF found
<1>5. CASE refuse
  <2>1. phase' = "refused" /\ UNCHANGED <<commands, checked>>
    BY <1>5 DEF Parse, found
  <2>2. SentInv'
    BY <1>1, <2>1 DEF TextInv, SentInv
  <2>3. ASSUME desc # NoDesc PROVE Contains(desc, "meta")
    <3>1. found = <<LineOf(desc)>> /\ found # <<>> /\ DOMAIN found = {1} /\ found[1] = LineOf(desc)
      <4> DEFINE line == LineOf(desc)
      <4>1. found = <<line>>
        BY <1>4, <2>3
      <4> HIDE DEF line
      <4>2. <<line>> # <<>> /\ DOMAIN <<line>> = {1} /\ <<line>>[1] = line
        OBVIOUS
      <4> QED BY <4>1, <4>2 DEF line
    <3>2. Refused(LineOf(desc))
      BY <1>5, <3>1
    <3> QED BY <1>4, <2>3, <3>2, RenderedRefused
  <2>4. DescInv'
    BY <1>1, <1>3, <1>4, <2>1, <2>3 DEF DescInv
  <2> QED BY <2>2, <2>4 DEF TextInv
<1>6. CASE ~refuse
  <2>1. /\ phase' = "parsed" /\ commands' = found
        /\ checked' = [i \in DOMAIN found |-> tokenizeCommand(found[i]).tokens]
    BY <1>6 DEF Parse, found
  <2>2. \A i \in DOMAIN found : CleanLine(found[i]) /\ ~Refused(found[i])
    BY <1>2, <1>6 DEF Range
  <2>3. SentInv'
    <3>1. Len(sent') = 0 /\ DOMAIN sent' = {} /\ Sequence(sent')
      BY <1>1, <1>3 DEF Sequence, Range
    <3>2. Len(found) \in Nat
      BY <1>2, SequenceFacts
    <3>3. Len(sent') <= Len(commands')
      BY <2>1, <3>1, <3>2
    <3>4. Sequence(text')
      BY <1>1 DEF TextInv, SentInv
    <3> QED BY <1>2, <2>1, <2>2, <3>1, <3>3, <3>4 DEF SentInv
  <2>4. DescInv'
    BY <1>1, <1>4, <2>1 DEF DescInv
  <2> QED BY <2>3, <2>4 DEF TextInv
<1> QED BY <1>5, <1>6

\* The session takes the next command as the parser saw it.
LEMMA SendKeeps == TextInv /\ Send => TextInv'
<1> SUFFICES ASSUME TextInv, Send PROVE TextInv'
  OBVIOUS
<1> DEFINE n == Len(sent)
           command == commands[n + 1]
<1>1. /\ phase = "parsed" /\ n < Len(commands)
      /\ UNCHANGED <<desc, text, commands, checked>>
  BY DEF Send
<1>2. n \in Nat /\ n + 1 \in DOMAIN commands
  BY <1>1, SequenceFacts DEF TextInv, SentInv
<1>3. /\ CleanLine(command) /\ ~Refused(command)
      /\ checked[n + 1] = tokenizeCommand(command).tokens
  BY <1>2 DEF TextInv, SentInv
<1>4. ~splitRefuses(command) /\ splitTokens(command).tokens = checked[n + 1]
  BY <1>3, AcceptedIsTaken
<1>5. sent' = Append(sent, Tail(checked[n + 1])) /\ phase' = phase
  BY <1>4 DEF Send
<1>6. /\ Sequence(sent') /\ Len(sent') = n + 1 /\ DOMAIN sent' = 1 .. n + 1
      /\ \A i \in DOMAIN sent : sent'[i] = sent[i]
      /\ sent'[n + 1] = Tail(checked[n + 1])
  <2>1. Sequence(sent)
    BY DEF TextInv, SentInv
  <2> DEFINE x == Tail(checked[n + 1])
  <2> HIDE DEF x
  <2>2. sent' = Append(sent, x)
    BY <1>5 DEF x
  <2> QED BY <2>1, <2>2, AppendOne DEF x
<1>7. DOMAIN sent = 1 .. n
  BY SequenceFacts DEF TextInv, SentInv
<1> HIDE DEF n, command
<1>8. \A i \in DOMAIN sent' : sent'[i] = Tail(checked[i])
  <2> TAKE i \in DOMAIN sent'
  <2>1. CASE i = n + 1
    BY <1>6, <2>1
  <2>2. CASE i # n + 1
    <3>1. i \in DOMAIN sent
      BY <1>2, <1>6, <1>7, <2>2
    <3> QED BY <1>6, <3>1 DEF TextInv, SentInv
  <2> QED BY <2>1, <2>2
<1>9. SentInv'
  <2>1. Len(sent') <= Len(commands')
    <3>1. Len(commands) \in Nat
      BY SequenceFacts DEF TextInv, SentInv
    <3> QED BY <1>1, <1>2, <1>6, <3>1
  <2> QED BY <1>1, <1>5, <1>6, <1>8, <2>1 DEF TextInv, SentInv
<1>10. DescInv'
  BY <1>1, <1>5 DEF TextInv, DescInv
<1> QED BY <1>9, <1>10 DEF TextInv

\* No other step touches a command.
LEMMA TextStep == TextInv /\ [SessionNext]_<<vars, envVars>> => TextInv'
<1> SUFFICES ASSUME TextInv, [SessionNext]_<<vars, envVars>> PROVE TextInv'
  OBVIOUS
<1>1. CASE Next
  <2>1. CASE Give
    BY <2>1, GiveKeeps
  <2>2. CASE Render
    BY <2>2, RenderKeeps
  <2>3. CASE Parse
    BY <2>3, ParseKeeps
  <2>4. CASE Send
    BY <2>4, SendKeeps
  <2>5. CASE Done
    BY <2>5 DEF Done, vars, TextInv, SentInv, DescInv
  <2> QED BY <1>1, <2>1, <2>2, <2>3, <2>4, <2>5 DEF Next
<1>2. CASE Begin
  <2>1. /\ phase = "start" /\ phase' \in {"opened", "not_opened"}
        /\ UNCHANGED <<desc, text, commands, checked, sent>>
    BY <1>2 DEF Begin
  <2>2. SentInv'
    BY <2>1 DEF TextInv, SentInv
  <2>3. DescInv'
    BY <2>1 DEF TextInv, DescInv
  <2> QED BY <2>2, <2>3 DEF TextInv
<1>3. CASE UNCHANGED <<vars, envVars>>
  BY <1>3 DEF vars, TextInv, SentInv, DescInv
<1>4. CASE SessionDone
  BY <1>3, <1>4 DEF SessionDone
<1> QED BY <1>1, <1>2, <1>3, <1>4 DEF SessionNext

\* Whatever the text, the session has sent what the parser checked.
THEOREM TextInvariant == SessionSpec => []TextInv
BY TextInit, TextStep, PTL DEF SessionSpec

\* What the allowlist of parseCommands saw is what my_set is given: the second
\* tokenizer, in runner.go, refuses no command the first accepted and cuts none
\* of them otherwise.
THEOREM SentAsChecked == SessionSpec => []CheckedIsSent
<1>1. TextInv => CheckedIsSent
  BY DEF TextInv, SentInv, CheckedIsSent
<1> QED BY <1>1, TextInvariant, PTL

\* A description of any length, quoted by the bridge template, is one argument
\* of my_set, unchanged.
THEOREM DescriptionArrives == SessionSpec => []DescriptionSurvives
<1>1. TextInv => DescriptionSurvives
  <2> SUFFICES ASSUME TextInv, desc # NoDesc, sent # <<>> PROVE sent = << <<desc>> >>
    BY DEF DescriptionSurvives
  <2> DEFINE line == LineOf(desc)
             tokens == << <<"set">>, desc >>
  <2>1. Sequence(desc) /\ NoQuote(desc) /\ commands \in {<<>>, <<line>>}
    BY TextAssumption, SequenceOfAny DEF TextInv, DescInv
  <2>2. tokenizeCommand(line).tokens = tokens
    BY <2>1, RenderedTokens DEF Between
  <2>3. Tail(tokens) = <<desc>>
    OBVIOUS
  <2> HIDE DEF line, tokens
  <2>4. Sequence(sent) /\ Len(sent) <= Len(commands) /\ Len(sent) \in Nat /\ Len(sent) # 0
    <3>1. Sequence(sent) /\ Len(sent) <= Len(commands)
      BY DEF TextInv, SentInv
    <3> QED BY <3>1, SequenceFacts, EmptySeq DEF Sequence
  <2>5. commands = <<line>> /\ DOMAIN commands = {1} /\ commands[1] = line /\ Len(commands) = 1
    <3>1. Len(<<>>) = 0 /\ DOMAIN <<line>> = {1} /\ <<line>>[1] = line /\ Len(<<line>>) = 1
      OBVIOUS
    <3> QED BY <2>1, <2>4, <3>1
  <2>6. checked[1] = tokens
    BY <2>2, <2>5 DEF TextInv, SentInv
  <2>7. Len(sent) = 1 /\ DOMAIN sent = {1}
    <3>1. Len(sent) = 1
      BY <2>4, <2>5
    <3>2. DOMAIN sent = 1 .. Len(sent)
      BY <2>4, SequenceFacts
    <3> QED BY <3>1, <3>2
  <2>8. sent[1] = <<desc>>
    BY <2>3, <2>6, <2>7 DEF TextInv, SentInv
  <2> DEFINE x == <<desc>>
  <2> HIDE DEF x
  <2>9. sent = <<x>>
    <3>1. sent \in Seq(Range(sent)) /\ sent[1] = x
      BY <2>4, <2>8 DEF Sequence, x
    <3>2. sent = <<sent[1]>>
      BY <2>7, <3>1
    <3> QED BY <3>1, <3>2
  <2> QED BY <2>9 DEF x
<1> QED BY <1>1, TextInvariant, PTL

\* Of what the renderer accepts in a description, the apply engine refuses a
\* shell metacharacter and nothing else.
THEOREM RefusedForMeta == SessionSpec => []RefusedOnlyForMeta
<1>1. TextInv => RefusedOnlyForMeta
  BY DEF TextInv, DescInv, RefusedOnlyForMeta
<1> QED BY <1>1, TextInvariant, PTL

-----------------------------------------------------------------------------
\* shellWords, one character after the other.

ScanOf(f, q, s, n) == [k \in 0 .. n |-> IF k = 0 THEN q ELSE shellRune(f[k - 1], s[k])]

\* The recursive function of Scan exists.
LEMMA ScanningExists ==
  ASSUME NEW q, NEW s, NEW n \in Nat PROVE \E f : f = ScanOf(f, q, s, n)
<1> DEFINE Built(f, m) ==
             f = [k \in 0 .. m |-> IF k = 0 THEN q ELSE shellRune(f[k - 1], s[k])]
           Unbuilt == {m \in Nat : ~\E f : Built(f, m)}
<1> SUFFICES ASSUME Unbuilt # {} PROVE FALSE
  BY DEF ScanOf
<1>1. PICK m \in Unbuilt : \A k \in Unbuilt : m <= k
  <2>1. Unbuilt \subseteq Nat
    OBVIOUS
  <2> HIDE DEF Unbuilt
  <2> QED BY <2>1, LeastNumber
<1>2. m \in Nat /\ ~\E f : Built(f, m)
  OBVIOUS
<1>3. m # 0
  <2>1. Built([k \in 0 .. 0 |-> q], 0)
    <3>1. \A k \in 0 .. 0 : k = 0
      OBVIOUS
    <3> QED BY <3>1
  <2> QED BY <1>2, <2>1
<1>4. PICK f : Built(f, m - 1)
  <2>1. m - 1 \in Nat /\ ~(m <= m - 1)
    BY <1>2, <1>3
  <2>2. m - 1 \notin Unbuilt
    BY <1>1, <2>1
  <2> HIDE DEF Built
  <2> QED BY <2>1, <2>2
<1> DEFINE g == [k \in 0 .. m |-> IF k = m THEN shellRune(f[m - 1], s[m]) ELSE f[k]]
<1>5. ASSUME NEW k \in 0 .. m
      PROVE  g[k] = IF k = 0 THEN q ELSE shellRune(g[k - 1], s[k])
  <2>1. CASE k = m
    <3>1. m - 1 \in 0 .. m /\ m - 1 # m /\ g[m - 1] = f[m - 1]
      BY <1>2, <1>3
    <3>2. g[m] = shellRune(f[m - 1], s[m])
      BY <1>2
    <3> QED BY <1>3, <2>1, <3>1, <3>2
  <2>2. CASE k # m
    <3>1. k \in 0 .. m - 1 /\ g[k] = f[k]
      BY <1>2, <2>2
    <3>2. f[k] = IF k = 0 THEN q ELSE shellRune(f[k - 1], s[k])
      BY <1>4, <3>1
    <3>3. k # 0 => k - 1 \in 0 .. m /\ k - 1 # m /\ g[k - 1] = f[k - 1]
      BY <1>2, <2>2
    <3> QED BY <3>1, <3>2, <3>3
  <2> QED BY <2>1, <2>2
<1>6. Built(g, m)
  <2>1. g = [k \in 0 .. m |-> g[k]]
    OBVIOUS
  <2> HIDE DEF g
  <2> QED BY <1>5, <2>1
<1> QED BY <1>2, <1>6

\* Its value after each character of s.
ScannedAs(f, q, s) ==
  /\ f[0] = q
  /\ \A k \in 1 .. Len(s) : f[k] = shellRune(f[k - 1], s[k])
  /\ Scan(q, s) = f[Len(s)]

\* So there are such values.
LEMMA ScanRecord == ASSUME NEW start, NEW s, Sequence(s) PROVE \E f : ScannedAs(f, start, s)
<1> DEFINE n == Len(s)
           Holds(f) == f = ScanOf(f, start, s, n)
           f == CHOOSE f : Holds(f)
<1>1. n \in Nat
  BY SequenceFacts
<1>2. Scan(start, s) = f[n]
  BY DEF Scan, ScanOf
<1>3. \E g : Holds(g)
  <2> HIDE DEF n
  <2> QED BY <1>1, ScanningExists
<1>4. Holds(f)
  <2> HIDE DEF Holds
  <2> QED BY <1>3
<1> HIDE DEF f, n
<1>5. f[0] = start
  BY <1>1, <1>4 DEF ScanOf
<1>6. \A k \in 1 .. n : f[k] = shellRune(f[k - 1], s[k])
  BY <1>1, <1>4 DEF ScanOf
<1> QED BY <1>2, <1>5, <1>6 DEF n, ScannedAs

\* A character more is one step more.
LEMMA ScanMore ==
  ASSUME NEW q, NEW s, Sequence(s), NEW r
  PROVE  Scan(q, Append(s, r)) = shellRune(Scan(q, s), r)
<1> DEFINE t == Append(s, r)
           n == Len(s)
<1>1. n \in Nat /\ \A j \in 1 .. n : j \in DOMAIN s
  BY SequenceFacts
<1>2. Sequence(t) /\ Len(t) = n + 1 /\ t[n + 1] = r /\ \A j \in 1 .. n : t[j] = s[j]
  BY <1>1, AppendOne
<1>3. PICK f : ScannedAs(f, q, s)
  BY ScanRecord
<1>4. PICK g : ScannedAs(g, q, t)
  BY <1>2, ScanRecord
<1>5. /\ f[0] = q
      /\ \A k \in 1 .. n : f[k] = shellRune(f[k - 1], s[k])
      /\ Scan(q, s) = f[n]
  BY <1>3 DEF ScannedAs
<1>6. /\ g[0] = q
      /\ \A k \in 1 .. n + 1 : g[k] = shellRune(g[k - 1], t[k])
      /\ Scan(q, t) = g[n + 1]
  BY <1>2, <1>4 DEF ScannedAs
<1> HIDE DEF n, t
<1> DEFINE Apart == {k \in 0 .. n : f[k] # g[k]}
<1>7. Apart = {}
  <2> SUFFICES ASSUME Apart # {} PROVE FALSE
    OBVIOUS
  <2>1. PICK k \in Apart : \A j \in Apart : k <= j
    <3>1. Apart \subseteq Nat
      BY <1>1
    <3> HIDE DEF Apart
    <3> QED BY <3>1, LeastNumber
  <2>2. k \in 0 .. n /\ f[k] # g[k]
    OBVIOUS
  <2>3. k # 0
    BY <1>5, <1>6, <2>2
  <2>4. k - 1 \in 0 .. n /\ ~(k <= k - 1) /\ k \in 1 .. n /\ k \in 1 .. n + 1
    BY <1>1, <2>2, <2>3
  <2>5. f[k - 1] = g[k - 1]
    BY <2>1, <2>4
  <2> QED BY <1>2, <1>5, <1>6, <2>2, <2>4, <2>5
<1>8. f[n] = g[n]
  <2>1. n \in 0 .. n
    BY <1>1
  <2> QED BY <1>7, <2>1
<1>9. g[n + 1] = shellRune(g[n], r)
  <2>1. n + 1 \in 1 .. n + 1 /\ (n + 1) - 1 = n
    BY <1>1
  <2> QED BY <1>2, <1>6, <2>1
<1> QED BY <1>5, <1>6, <1>8, <1>9 DEF t

-----------------------------------------------------------------------------
\* parseSessionEnv, one word after the other.

\* The recursive function of ReadWords exists.
LEMMA WordsReadExists ==
  ASSUME NEW s, NEW n \in Nat
  PROVE  \E f : f = [k \in 0 .. n |-> IF k = 0 THEN NothingSet ELSE ReadWord(f[k - 1], s[k])]
<1> DEFINE Built(f, m) ==
             f = [k \in 0 .. m |-> IF k = 0 THEN NothingSet ELSE ReadWord(f[k - 1], s[k])]
           Unbuilt == {m \in Nat : ~\E f : Built(f, m)}
<1> SUFFICES ASSUME Unbuilt # {} PROVE FALSE
  OBVIOUS
<1>1. PICK m \in Unbuilt : \A k \in Unbuilt : m <= k
  <2>1. Unbuilt \subseteq Nat
    OBVIOUS
  <2> HIDE DEF Unbuilt
  <2> QED BY <2>1, LeastNumber
<1>2. m \in Nat /\ ~\E f : Built(f, m)
  OBVIOUS
<1>3. m # 0
  <2>1. Built([k \in 0 .. 0 |-> NothingSet], 0)
    <3>1. \A k \in 0 .. 0 : k = 0
      OBVIOUS
    <3> QED BY <3>1
  <2> QED BY <1>2, <2>1
<1>4. PICK f : Built(f, m - 1)
  <2>1. m - 1 \in Nat /\ ~(m <= m - 1)
    BY <1>2, <1>3
  <2>2. m - 1 \notin Unbuilt
    BY <1>1, <2>1
  <2> HIDE DEF Built
  <2> QED BY <2>1, <2>2
<1> DEFINE g == [k \in 0 .. m |-> IF k = m THEN ReadWord(f[m - 1], s[m]) ELSE f[k]]
<1>5. ASSUME NEW k \in 0 .. m
      PROVE  g[k] = IF k = 0 THEN NothingSet ELSE ReadWord(g[k - 1], s[k])
  <2>1. CASE k = m
    <3>1. m - 1 \in 0 .. m /\ m - 1 # m /\ g[m - 1] = f[m - 1]
      BY <1>2, <1>3
    <3>2. g[m] = ReadWord(f[m - 1], s[m])
      BY <1>2
    <3> QED BY <1>3, <2>1, <3>1, <3>2
  <2>2. CASE k # m
    <3>1. k \in 0 .. m - 1 /\ g[k] = f[k]
      BY <1>2, <2>2
    <3>2. f[k] = IF k = 0 THEN NothingSet ELSE ReadWord(f[k - 1], s[k])
      BY <1>4, <3>1
    <3>3. k # 0 => k - 1 \in 0 .. m /\ k - 1 # m /\ g[k - 1] = f[k - 1]
      BY <1>2, <2>2
    <3> QED BY <3>1, <3>2, <3>3
  <2> QED BY <2>1, <2>2
<1>6. Built(g, m)
  <2>1. g = [k \in 0 .. m |-> g[k]]
    OBVIOUS
  <2> HIDE DEF g
  <2> QED BY <1>5, <2>1
<1> QED BY <1>2, <1>6

\* Its value after each word of s.
WordsReadAs(f, s) ==
  /\ f[0] = NothingSet
  /\ \A k \in 1 .. Len(s) : f[k] = ReadWord(f[k - 1], s[k])
  /\ ReadWords(s) = f[Len(s)]

\* So there are such values.
LEMMA WordsRecord == ASSUME NEW s, Sequence(s) PROVE \E f : WordsReadAs(f, s)
<1> DEFINE n == Len(s)
           f == CHOOSE f : f = [k \in 0 .. n |-> IF k = 0 THEN NothingSet
                                                ELSE ReadWord(f[k - 1], s[k])]
<1>1. n \in Nat
  BY SequenceFacts
<1>2. ReadWords(s) = f[n]
  BY DEF ReadWords
<1> HIDE DEF n
<1>3. f = [k \in 0 .. n |-> IF k = 0 THEN NothingSet ELSE ReadWord(f[k - 1], s[k])]
  BY <1>1, WordsReadExists
<1> HIDE DEF f
<1>4. f[0] = NothingSet
  BY <1>1, <1>3
<1>5. \A k \in 1 .. n : f[k] = ReadWord(f[k - 1], s[k])
  BY <1>1, <1>3
<1> QED BY <1>2, <1>4, <1>5 DEF n, WordsReadAs

\* A word more is one step more.
LEMMA WordsMore ==
  ASSUME NEW s, Sequence(s), NEW r
  PROVE  ReadWords(Append(s, r)) = ReadWord(ReadWords(s), r)
<1> DEFINE t == Append(s, r)
           n == Len(s)
<1>1. n \in Nat /\ \A j \in 1 .. n : j \in DOMAIN s
  BY SequenceFacts
<1>2. Sequence(t) /\ Len(t) = n + 1 /\ t[n + 1] = r /\ \A j \in 1 .. n : t[j] = s[j]
  BY <1>1, AppendOne
<1>3. PICK f : WordsReadAs(f, s)
  BY WordsRecord
<1>4. PICK g : WordsReadAs(g, t)
  BY <1>2, WordsRecord
<1>5. /\ f[0] = NothingSet
      /\ \A k \in 1 .. n : f[k] = ReadWord(f[k - 1], s[k])
      /\ ReadWords(s) = f[n]
  BY <1>3 DEF WordsReadAs
<1>6. /\ g[0] = NothingSet
      /\ \A k \in 1 .. n + 1 : g[k] = ReadWord(g[k - 1], t[k])
      /\ ReadWords(t) = g[n + 1]
  BY <1>2, <1>4 DEF WordsReadAs
<1> HIDE DEF n, t
<1> DEFINE Apart == {k \in 0 .. n : f[k] # g[k]}
<1>7. Apart = {}
  <2> SUFFICES ASSUME Apart # {} PROVE FALSE
    OBVIOUS
  <2>1. PICK k \in Apart : \A j \in Apart : k <= j
    <3>1. Apart \subseteq Nat
      BY <1>1
    <3> HIDE DEF Apart
    <3> QED BY <3>1, LeastNumber
  <2>2. k \in 0 .. n /\ f[k] # g[k]
    OBVIOUS
  <2>3. k # 0
    BY <1>5, <1>6, <2>2
  <2>4. k - 1 \in 0 .. n /\ ~(k <= k - 1) /\ k \in 1 .. n /\ k \in 1 .. n + 1
    BY <1>1, <2>2, <2>3
  <2>5. f[k - 1] = g[k - 1]
    BY <2>1, <2>4
  <2> QED BY <1>2, <1>5, <1>6, <2>2, <2>4, <2>5
<1>8. f[n] = g[n]
  <2>1. n \in 0 .. n
    BY <1>1
  <2> QED BY <1>7, <2>1
<1>9. g[n + 1] = ReadWord(g[n], r)
  <2>1. n + 1 \in 1 .. n + 1 /\ (n + 1) - 1 = n
    BY <1>1
  <2> QED BY <1>2, <1>6, <2>1
<1> QED BY <1>5, <1>6, <1>8, <1>9 DEF t

-----------------------------------------------------------------------------
\* The states shellWords goes through in what the API prints.

\* Between two words, in a word with some quoting, after its backslash, and in
\* a head, where nothing is quoted.
Rest(tokens) == [tokens |-> tokens, current |-> <<>>, single |-> FALSE, double |-> FALSE,
                 started |-> FALSE, escaped |-> FALSE]
InWord(tokens, c, style) ==
  [tokens |-> tokens, current |-> c, single |-> style = "single", double |-> style = "double",
   started |-> TRUE, escaped |-> FALSE]
Escaping(tokens, c, style) ==
  [tokens |-> tokens, current |-> c, single |-> style = "single", double |-> style = "double",
   started |-> TRUE, escaped |-> TRUE]
Calm(tokens, c, started) ==
  [tokens |-> tokens, current |-> c, single |-> FALSE, double |-> FALSE,
   started |-> started, escaped |-> FALSE]

\* What stands for itself under a quoting.
Plain(style, r) ==
  \/ style = "single" /\ r # "sq"
  \/ style = "double" /\ r \notin {"bs", "dq"}
  \/ style \notin {"single", "double"} /\ r \notin Special \cup Blank

\* A character of a word is added to it, a backslash protects the next one.
LEMMA ShellMoves ==
  ASSUME NEW tokens, NEW c, NEW style
  PROVE  /\ \A r : Plain(style, r) =>
              shellRune(InWord(tokens, c, style), r) = InWord(tokens, Append(c, r), style)
         /\ style # "single" =>
              shellRune(InWord(tokens, c, style), "bs") = Escaping(tokens, c, style)
         /\ \A r : shellRune(Escaping(tokens, c, style), r)
                     = InWord(tokens, Append(c, r), style)
<1>1. ASSUME NEW r, Plain(style, r)
      PROVE  shellRune(InWord(tokens, c, style), r) = InWord(tokens, Append(c, r), style)
  <2>1. CASE style = "single" /\ r # "sq"
    BY <2>1 DEF shellRune, InWord
  <2>2. CASE style = "double" /\ r \notin {"bs", "dq"}
    BY <2>2 DEF shellRune, InWord
  <2>3. CASE style \notin {"single", "double"} /\ r \notin Special \cup Blank
    BY <2>3 DEF shellRune, InWord, Flush, Special
  <2> QED BY <1>1, <2>1, <2>2, <2>3 DEF Plain
<1>2. style # "single" =>
        shellRune(InWord(tokens, c, style), "bs") = Escaping(tokens, c, style)
  BY DEF shellRune, InWord, Escaping, Flush, Blank, Special
<1>3. ASSUME NEW r
      PROVE  shellRune(Escaping(tokens, c, style), r) = InWord(tokens, Append(c, r), style)
  BY DEF shellRune, InWord, Escaping, Flush
<1> QED BY <1>1, <1>2, <1>3

\* Quotes open and close, a word ends, a first character begins one.
LEMMA ShellTurns ==
  ASSUME NEW tokens, NEW c
  PROVE  /\ shellRune(InWord(tokens, c, "bare"), "sq") = InWord(tokens, c, "single")
         /\ shellRune(InWord(tokens, c, "bare"), "dq") = InWord(tokens, c, "double")
         /\ shellRune(InWord(tokens, c, "single"), "sq") = InWord(tokens, c, "bare")
         /\ shellRune(InWord(tokens, c, "double"), "dq") = InWord(tokens, c, "bare")
         /\ shellRune(InWord(tokens, c, "bare"), "semi") = Rest(Append(tokens, c))
         /\ shellRune(Rest(tokens), "sp") = Rest(tokens)
         /\ \A r : r \notin Special \cup Blank =>
              shellRune(Rest(tokens), r) = InWord(tokens, Append(<<>>, r), "bare")
<1>1. /\ shellRune(InWord(tokens, c, "bare"), "sq") = InWord(tokens, c, "single")
      /\ shellRune(InWord(tokens, c, "bare"), "dq") = InWord(tokens, c, "double")
  BY DEF shellRune, InWord, Flush, Blank, Special
<1>2. /\ shellRune(InWord(tokens, c, "single"), "sq") = InWord(tokens, c, "bare")
      /\ shellRune(InWord(tokens, c, "double"), "dq") = InWord(tokens, c, "bare")
  BY DEF shellRune, InWord, Flush
<1>3. shellRune(InWord(tokens, c, "bare"), "semi") = Rest(Append(tokens, c))
  BY DEF shellRune, InWord, Flush, Rest
<1>4. shellRune(Rest(tokens), "sp") = Rest(tokens)
  BY DEF shellRune, Flush, Rest, Blank
<1>5. ASSUME NEW r, r \notin Special \cup Blank
      PROVE  shellRune(Rest(tokens), r) = InWord(tokens, Append(<<>>, r), "bare")
  BY <1>5 DEF shellRune, Flush, Rest, InWord, Special
<1> QED BY <1>1, <1>2, <1>3, <1>4, <1>5

\* In a head a character ends the word or is one more of it.
LEMMA CalmMoves ==
  ASSUME NEW tokens, NEW c, NEW started \in BOOLEAN, NEW r, r \notin {"bs", "sq", "dq"}
  PROVE  /\ r \in Blank \cup {"semi", "brace"} /\ started =>
              shellRune(Calm(tokens, c, started), r) = Rest(Append(tokens, c))
         /\ r \in Blank \cup {"semi", "brace"} /\ ~started =>
              shellRune(Calm(tokens, c, started), r) = Calm(tokens, c, FALSE)
         /\ r \notin Blank \cup {"semi", "brace"} =>
              shellRune(Calm(tokens, c, started), r) = Calm(tokens, Append(c, r), TRUE)
<1>1. CASE r \in Blank \cup {"semi", "brace"} /\ started
  BY <1>1 DEF shellRune, Flush, Calm, Rest
<1>2. CASE r \in Blank \cup {"semi", "brace"} /\ ~started
  BY <1>2 DEF shellRune, Flush, Calm
<1>3. CASE r \notin Blank \cup {"semi", "brace"}
  BY <1>3 DEF shellRune, Flush, Calm
<1> QED BY <1>1, <1>2, <1>3

\* Scanning nothing, one character, one more.
LEMMA ScanFew ==
  ASSUME NEW q, NEW a, NEW b
  PROVE  /\ Scan(q, <<>>) = q
         /\ Scan(q, <<a>>) = shellRune(q, a)
         /\ Scan(q, Append(<<a>>, b)) = shellRune(shellRune(q, a), b)
<1>1. Sequence(<<>>) /\ Len(<<>>) = 0 /\ Sequence(<<a>>)
  BY DEF Sequence, Range
<1>2. Scan(q, <<>>) = q
  <2>1. PICK f : ScannedAs(f, q, <<>>)
    BY <1>1, ScanRecord
  <2> QED BY <1>1, <2>1 DEF ScannedAs
<1>3. Scan(q, Append(<<>>, a)) = shellRune(q, a)
  <2> DEFINE e == <<>>
  <2>1. Sequence(e) /\ Scan(q, e) = q
    BY <1>1, <1>2
  <2> HIDE DEF e
  <2>2. Scan(q, Append(e, a)) = shellRune(Scan(q, e), a)
    BY <2>1, ScanMore
  <2> QED BY <2>1, <2>2 DEF e
<1>4. Append(<<>>, a) = <<a>>
  OBVIOUS
<1>5. Scan(q, Append(<<a>>, b)) = shellRune(Scan(q, <<a>>), b)
  BY <1>1, ScanMore
<1> QED BY <1>2, <1>3, <1>4, <1>5

\* Scanning two.
LEMMA ScanTwo ==
  ASSUME NEW q, NEW a, NEW b
  PROVE  Scan(q, <<a, b>>) = shellRune(shellRune(q, a), b)
<1>1. Scan(q, Append(<<a>>, b)) = shellRune(shellRune(q, a), b)
  BY ScanFew
<1>2. Append(<<a>>, b) = <<a, b>>
  BY Paired
<1> QED BY <1>1, <1>2

\* Scanning goes on where it stopped.
LEMMA ScanConcat ==
  ASSUME NEW q, NEW s, Sequence(s), NEW t, Sequence(t)
  PROVE  Scan(q, s \o t) = Scan(Scan(q, s), t)
<1> DEFINE n == Len(s)
           m == Len(t)
           c == s \o t
           p == Scan(q, s)
<1>1. n \in Nat /\ m \in Nat
  BY SequenceFacts
<1>2. /\ Sequence(c) /\ Len(c) = n + m
      /\ \A j \in 1 .. n : c[j] = s[j]
      /\ \A j \in 1 .. m : c[n + j] = t[j]
  BY Concatenated
<1>3. PICK f : ScannedAs(f, q, s)
  BY ScanRecord
<1>4. PICK h : ScannedAs(h, p, t)
  BY ScanRecord
<1>5. PICK g : ScannedAs(g, q, c)
  BY <1>2, ScanRecord
<1>6. f[0] = q /\ (\A k \in 1 .. n : f[k] = shellRune(f[k - 1], s[k])) /\ p = f[n]
  BY <1>3 DEF ScannedAs
<1>7. h[0] = p /\ (\A k \in 1 .. m : h[k] = shellRune(h[k - 1], t[k])) /\ Scan(p, t) = h[m]
  BY <1>4 DEF ScannedAs
<1>8. /\ g[0] = q
      /\ \A k \in 1 .. n + m : g[k] = shellRune(g[k - 1], c[k])
      /\ Scan(q, c) = g[n + m]
  BY <1>2, <1>5 DEF ScannedAs
<1> HIDE DEF n, m, c, p
<1> DEFINE Apart == {k \in 0 .. n : f[k] # g[k]}
           Later == {k \in 0 .. m : h[k] # g[n + k]}
<1>9. Apart = {}
  <2> SUFFICES ASSUME Apart # {} PROVE FALSE
    OBVIOUS
  <2>1. PICK k \in Apart : \A j \in Apart : k <= j
    <3>1. Apart \subseteq Nat
      BY <1>1
    <3> HIDE DEF Apart
    <3> QED BY <3>1, LeastNumber
  <2>2. k \in 0 .. n /\ f[k] # g[k]
    OBVIOUS
  <2>3. k # 0
    BY <1>6, <1>8, <2>2
  <2>4. k - 1 \in 0 .. n /\ ~(k <= k - 1) /\ k \in 1 .. n /\ k \in 1 .. n + m
    BY <1>1, <2>2, <2>3
  <2>5. f[k - 1] = g[k - 1]
    BY <2>1, <2>4
  <2> QED BY <1>2, <1>6, <1>8, <2>2, <2>4, <2>5
<1>10. g[n] = p
  <2>1. n \in 0 .. n
    BY <1>1
  <2> QED BY <1>6, <1>9, <2>1
<1>11. Later = {}
  <2> SUFFICES ASSUME Later # {} PROVE FALSE
    OBVIOUS
  <2>1. PICK k \in Later : \A j \in Later : k <= j
    <3>1. Later \subseteq Nat
      BY <1>1
    <3> HIDE DEF Later
    <3> QED BY <3>1, LeastNumber
  <2>2. k \in 0 .. m /\ h[k] # g[n + k]
    OBVIOUS
  <2>3. k # 0
    BY <1>1, <1>7, <1>10, <2>2
  <2>4. /\ k - 1 \in 0 .. m /\ ~(k <= k - 1) /\ k \in 1 .. m /\ n + k \in 1 .. n + m
        /\ (n + k) - 1 = n + (k - 1)
    BY <1>1, <2>2, <2>3
  <2>5. h[k - 1] = g[n + (k - 1)]
    BY <2>1, <2>4
  <2>6. g[n + k] = shellRune(g[n + (k - 1)], c[n + k])
    BY <1>8, <2>4
  <2>7. c[n + k] = t[k] /\ h[k] = shellRune(h[k - 1], t[k])
    BY <1>2, <1>7, <2>4
  <2> QED BY <2>2, <2>5, <2>6, <2>7
<1>12. m \in 0 .. m
  BY <1>1
<1> QED BY <1>7, <1>8, <1>11, <1>12 DEF c, p

\* So it is scanned part by part.
ScannedByParts(g, q, ss) ==
  /\ g[0] = q
  /\ \A k \in 1 .. Len(ss) : g[k] = Scan(g[k - 1], ss[k])
  /\ Scan(q, FlattenSeq(ss)) = g[Len(ss)]

\* So there are such values.
LEMMA ScanParts ==
  ASSUME NEW q, NEW ss, Sequence(ss), \A k \in DOMAIN ss : Sequence(ss[k])
  PROVE  \E g : ScannedByParts(g, q, ss)
<1> DEFINE n == Len(ss)
<1>1. n \in Nat /\ DOMAIN ss = 1 .. n
  BY SequenceFacts
<1>2. PICK F : FlattenedAs(F, ss)
  BY FlattenParts
<1>3. /\ F[0] = <<>>
      /\ \A k \in 0 .. n : Sequence(F[k])
      /\ \A k \in 1 .. n : F[k] = F[k - 1] \o ss[k]
      /\ FlattenSeq(ss) = F[n]
  BY <1>2 DEF FlattenedAs
<1> HIDE DEF n
<1> DEFINE g == [k \in 0 .. n |-> Scan(q, F[k])]
<1>4. g[0] = q
  <2>1. Scan(q, <<>>) = q
    BY ScanFew
  <2> QED BY <1>1, <1>3, <2>1
<1>5. \A k \in 1 .. n : g[k] = Scan(g[k - 1], ss[k])
  <2> TAKE k \in 1 .. n
  <2>1. k - 1 \in 0 .. n /\ k \in 0 .. n /\ k \in DOMAIN ss
    BY <1>1
  <2>2. Scan(q, F[k - 1] \o ss[k]) = Scan(Scan(q, F[k - 1]), ss[k])
    BY <1>3, <2>1, ScanConcat
  <2> QED BY <1>3, <2>1, <2>2
<1>6. Scan(q, FlattenSeq(ss)) = g[n]
  BY <1>1, <1>3
<1> HIDE DEF g
<1> QED BY <1>4, <1>5, <1>6 DEF ScannedByParts, n

\* A value as the API writes it, character by character.
Written(style, r) == r \in Escapes(style) \/ Plain(style, r)
Piece(style, r) == IF r \in Escapes(style) THEN <<"bs", r>> ELSE <<r>>

\* Each character written is one character of the word.
LEMMA PieceScanned ==
  ASSUME NEW tokens, NEW c, NEW style, NEW r, Written(style, r)
  PROVE  /\ Scan(InWord(tokens, c, style), Piece(style, r)) = InWord(tokens, Append(c, r), style)
         /\ Sequence(Piece(style, r))
<1> DEFINE q == InWord(tokens, c, style)
<1>1. CASE r \in Escapes(style)
  <2>1. style # "single"
    BY <1>1 DEF Escapes
  <2>2. shellRune(q, "bs") = Escaping(tokens, c, style)
    BY <2>1, ShellMoves
  <2>3. shellRune(Escaping(tokens, c, style), r) = InWord(tokens, Append(c, r), style)
    BY ShellMoves
  <2>4. Scan(q, <<"bs", r>>) = shellRune(shellRune(q, "bs"), r)
    BY ScanTwo
  <2>5. Sequence(<<"bs", r>>)
    <3>1. <<"bs", r>> \in Seq({"bs", r})
      OBVIOUS
    <3> QED BY <3>1, SequenceOfAny
  <2> QED BY <1>1, <2>2, <2>3, <2>4, <2>5 DEF Piece
<1>2. CASE r \notin Escapes(style)
  <2>1. shellRune(q, r) = InWord(tokens, Append(c, r), style)
    BY <1>2, ShellMoves DEF Written
  <2>2. Scan(q, <<r>>) = shellRune(q, r)
    BY ScanFew
  <2>3. Sequence(<<r>>)
    <3>1. <<r>> \in Seq({r})
      OBVIOUS
    <3> QED BY <3>1, SequenceOfAny
  <2> QED BY <1>2, <2>1, <2>2, <2>3 DEF Piece
<1> QED BY <1>1, <1>2

\* A longer beginning, after something else.
LEMMA PrefixAfter ==
  ASSUME NEW c, Sequence(c), NEW s, Sequence(s), NEW k \in 1 .. Len(s)
  PROVE  Append(c \o SubSeq(s, 1, k - 1), s[k]) = c \o SubSeq(s, 1, k)
<1> DEFINE S == Range(c) \cup Range(s)
           p == SubSeq(s, 1, k - 1)
<1>1. Len(s) \in Nat /\ s \in Seq(S) /\ c \in Seq(S) /\ s[k] \in S
  <2>1. Len(s) \in Nat /\ DOMAIN s = 1 .. Len(s)
    BY SequenceFacts
  <2>2. s \in Seq(Range(s)) /\ c \in Seq(Range(c))
    BY DEF Sequence
  <2>3. Seq(Range(s)) \subseteq Seq(S) /\ Seq(Range(c)) \subseteq Seq(S)
    OBVIOUS
  <2>4. s[k] \in S
    BY <2>1 DEF Range
  <2> QED BY <2>1, <2>2, <2>3, <2>4
<1>2. p \in Seq(S)
  <2>1. \A i \in 1 .. k - 1 : s[i] \in S
    BY <1>1
  <2> QED BY <1>1, <2>1, SubSeqProperties
<1>3. Append(p, s[k]) = SubSeq(s, 1, k)
  BY Prefix
<1> HIDE DEF p, S
<1>4. Append(c \o p, s[k]) = (c \o p) \o <<s[k]>>
  <2>1. c \o p \in Seq(S)
    BY <1>1, <1>2, ConcatProperties
  <2> QED BY <1>1, <2>1, AppendIsConcat
<1>5. Append(p, s[k]) = p \o <<s[k]>>
  BY <1>1, <1>2, AppendIsConcat
<1>6. (c \o p) \o <<s[k]>> = c \o (p \o <<s[k]>>)
  <2> DEFINE one == <<s[k]>>
  <2>1. one \in Seq(S)
    BY <1>1
  <2> HIDE DEF one
  <2>2. (c \o p) \o one = c \o (p \o one)
    BY <1>1, <1>2, <2>1, ConcatAssociative, SMTT(30)
  <2> QED BY <2>2 DEF one
<1> QED BY <1>3, <1>4, <1>5, <1>6 DEF p

\* So is each character of a value, in its order.
LEMMA ValueScanned ==
  ASSUME NEW tokens, NEW c, Sequence(c), NEW style,
         NEW value, Sequence(value), \A i \in DOMAIN value : Written(style, value[i])
  PROVE  /\ Scan(InWord(tokens, c, style), Backslashed(value, Escapes(style)))
              = InWord(tokens, c \o value, style)
         /\ Sequence(Backslashed(value, Escapes(style)))
<1> DEFINE n == Len(value)
           parts == [i \in DOMAIN value |-> Piece(style, value[i])]
           q == InWord(tokens, c, style)
<1>1. n \in Nat /\ DOMAIN value = 1 .. n
  BY SequenceFacts
<1>2. Backslashed(value, Escapes(style)) = FlattenSeq(parts)
  BY DEF Backslashed, Piece
<1>3. Sequence(parts) /\ Len(parts) = n /\ DOMAIN parts = 1 .. n
  <2>1. DOMAIN parts = 1 .. n /\ parts = [k \in 1 .. n |-> parts[k]]
    BY <1>1
  <2> HIDE DEF parts, n
  <2> QED BY <1>1, <2>1, Listed
<1>4. \A k \in 1 .. n : parts[k] = Piece(style, value[k]) /\ Written(style, value[k])
  BY <1>1
<1> HIDE DEF parts, n, q
<1>5. \A k \in DOMAIN parts : Sequence(parts[k])
  BY <1>3, <1>4, PieceScanned
<1>6. Sequence(FlattenSeq(parts))
  BY <1>3, <1>5, Flattened
<1>7. PICK g : ScannedByParts(g, q, parts)
  BY <1>3, <1>5, ScanParts
<1>8. /\ g[0] = q
      /\ \A k \in 1 .. n : g[k] = Scan(g[k - 1], parts[k])
      /\ Scan(q, FlattenSeq(parts)) = g[n]
  BY <1>3, <1>7 DEF ScannedByParts
<1> DEFINE Got(k) == InWord(tokens, c \o SubSeq(value, 1, k), style)
           Bad == {k \in 0 .. n : g[k] # Got(k)}
<1>9. Bad = {}
  <2> SUFFICES ASSUME Bad # {} PROVE FALSE
    OBVIOUS
  <2>1. PICK k \in Bad : \A j \in Bad : k <= j
    <3>1. Bad \subseteq Nat
      BY <1>1
    <3> HIDE DEF Bad
    <3> QED BY <3>1, LeastNumber
  <2>2. k \in 0 .. n /\ g[k] # Got(k)
    OBVIOUS
  <2>3. k # 0
    <3>1. SubSeq(value, 1, 0) = <<>>
      OBVIOUS
    <3>2. c \o <<>> = c
      BY ConcatEmptySeq DEF Sequence
    <3> QED BY <1>8, <2>2, <3>1, <3>2 DEF q
  <2>4. k - 1 \in 0 .. n /\ ~(k <= k - 1) /\ k \in 1 .. n
    BY <1>1, <2>2, <2>3
  <2>5. g[k - 1] = Got(k - 1)
    BY <2>1, <2>4
  <2>6. g[k] = Scan(g[k - 1], Piece(style, value[k]))
    BY <1>4, <1>8, <2>4
  <2>7. Scan(Got(k - 1), Piece(style, value[k]))
          = InWord(tokens, Append(c \o SubSeq(value, 1, k - 1), value[k]), style)
    BY <1>4, <2>4, PieceScanned
  <2>8. Append(c \o SubSeq(value, 1, k - 1), value[k]) = c \o SubSeq(value, 1, k)
    BY <2>4, PrefixAfter DEF n
  <2> QED BY <2>2, <2>5, <2>6, <2>7, <2>8
<1>10. g[n] = Got(n)
  <2>1. n \in 0 .. n
    BY <1>1
  <2> HIDE DEF Got
  <2> QED BY <1>9, <2>1
<1>11. SubSeq(value, 1, n) = value
  BY SubSeqFull DEF Sequence, n
<1> QED BY <1>2, <1>6, <1>8, <1>10, <1>11 DEF q

\* A key, from between two words.
LEMMA KeyScanned ==
  ASSUME NEW tokens, NEW s, Sequence(s), s # <<>>,
         \A i \in DOMAIN s : s[i] \notin Special \cup Blank
  PROVE  Scan(Rest(tokens), s) = InWord(tokens, s, "bare")
<1> DEFINE n == Len(s)
<1>1. n \in Nat /\ DOMAIN s = 1 .. n /\ n # 0
  <2>1. s \in Seq(Range(s))
    BY DEF Sequence
  <2> QED BY <2>1, EmptySeq, SequenceFacts
<1>2. PICK f : ScannedAs(f, Rest(tokens), s)
  BY ScanRecord
<1>3. /\ f[0] = Rest(tokens)
      /\ \A k \in 1 .. n : f[k] = shellRune(f[k - 1], s[k])
      /\ Scan(Rest(tokens), s) = f[n]
  BY <1>2 DEF ScannedAs
<1>4. \A k \in 1 .. n : Append(SubSeq(s, 1, k - 1), s[k]) = SubSeq(s, 1, k)
  BY Prefix
<1> HIDE DEF n
<1> DEFINE Got(k) == InWord(tokens, SubSeq(s, 1, k), "bare")
           Bad == {k \in 1 .. n : f[k] # Got(k)}
<1>5. Bad = {}
  <2> SUFFICES ASSUME Bad # {} PROVE FALSE
    OBVIOUS
  <2>1. PICK k \in Bad : \A j \in Bad : k <= j
    <3>1. Bad \subseteq Nat
      BY <1>1
    <3> HIDE DEF Bad
    <3> QED BY <3>1, LeastNumber
  <2>2. k \in 1 .. n /\ f[k] # Got(k)
    OBVIOUS
  <2>3. s[k] \notin Special \cup Blank
    BY <1>1, <2>2
  <2>4. CASE k = 1
    <3>1. SubSeq(s, 1, 0) = <<>>
      OBVIOUS
    <3>2. f[1] = shellRune(Rest(tokens), s[1])
      BY <1>3, <2>2, <2>4
    <3>3. shellRune(Rest(tokens), s[1]) = InWord(tokens, Append(<<>>, s[1]), "bare")
      BY <2>3, <2>4, ShellTurns
    <3>4. Append(SubSeq(s, 1, 1 - 1), s[1]) = SubSeq(s, 1, 1)
      BY <1>4, <2>2, <2>4
    <3>5. Append(<<>>, s[1]) = SubSeq(s, 1, 1)
      BY <3>1, <3>4
    <3> QED BY <2>2, <2>4, <3>2, <3>3, <3>5
  <2>5. CASE k # 1
    <3>1. k - 1 \in 1 .. n /\ ~(k <= k - 1)
      BY <1>1, <2>2, <2>5
    <3>2. f[k - 1] = Got(k - 1)
      BY <2>1, <3>1
    <3>3. f[k] = shellRune(f[k - 1], s[k])
      BY <1>3, <2>2
    <3>4. Plain("bare", s[k])
      BY <2>3 DEF Plain
    <3>5. shellRune(Got(k - 1), s[k]) = InWord(tokens, Append(SubSeq(s, 1, k - 1), s[k]), "bare")
      BY <3>4, ShellMoves
    <3> QED BY <1>4, <2>2, <3>2, <3>3, <3>5
  <2> QED BY <2>4, <2>5
<1>6. f[n] = Got(n)
  <2>1. n \in 1 .. n
    BY <1>1
  <2> HIDE DEF Got
  <2> QED BY <1>5, <2>1
<1>7. SubSeq(s, 1, n) = s
  BY SubSeqFull DEF Sequence, n
<1> QED BY <1>3, <1>6, <1>7

\* A value in its quotes, and one without, continues the word it stands in.
LEMMA QuotedScanned ==
  ASSUME NEW tokens, NEW c, Sequence(c), NEW d, Sequence(d.value), Printable(d)
  PROVE  /\ Scan(InWord(tokens, c, "bare"), Quoted(d)) = InWord(tokens, c \o d.value, "bare")
         /\ Sequence(Quoted(d))
<1> DEFINE style == d.style
           value == d.value
           mark == Quote(style)
           body == Backslashed(value, Escapes(style))
           q == InWord(tokens, c, "bare")
<1>1. \A i \in DOMAIN value : Written(style, value[i])
  <2> TAKE i \in DOMAIN value
  <2>1. CASE style = "bare" /\ \A j \in DOMAIN value : value[j] \notin Special \cup Blank
    BY <2>1 DEF Written, Plain
  <2>2. CASE style = "single" /\ \A j \in DOMAIN value : value[j] # "sq"
    BY <2>2 DEF Written, Plain
  <2>3. CASE style = "double"
    BY <2>3 DEF Written, Plain, Escapes
  <2>4. CASE style = "escaped" /\ \A j \in DOMAIN value : value[j] \notin {"nl", "cr"}
    BY <2>4 DEF Written, Plain, Escapes, Special, Blank
  <2> QED BY <2>1, <2>2, <2>3, <2>4 DEF Printable
<1>2. Sequence(mark)
  <2>1. Sequence(<<>>) /\ Sequence(<<"sq">>) /\ Sequence(<<"dq">>)
    BY DEF Sequence, Range
  <2> QED BY <2>1 DEF Quote
<1>3. Sequence(body) /\ Scan(InWord(tokens, c, style), body) = InWord(tokens, c \o value, style)
  BY <1>1, ValueScanned
<1>4. Scan(q, mark) = InWord(tokens, c, style)
  <2>1. CASE style = "single"
    <3>1. Scan(q, <<"sq">>) = shellRune(q, "sq")
      BY ScanFew
    <3> QED BY <2>1, <3>1, ShellTurns DEF Quote
  <2>2. CASE style = "double"
    <3>1. Scan(q, <<"dq">>) = shellRune(q, "dq")
      BY ScanFew
    <3> QED BY <2>2, <3>1, ShellTurns DEF Quote
  <2>3. CASE style \notin {"single", "double"}
    <3>1. Scan(q, <<>>) = q
      BY ScanFew
    <3>2. InWord(tokens, c, style) = q
      BY <2>3 DEF InWord
    <3> QED BY <2>3, <3>1, <3>2 DEF Quote
  <2> QED BY <2>1, <2>2, <2>3
<1>5. Scan(InWord(tokens, c \o value, style), mark) = InWord(tokens, c \o value, "bare")
  <2> DEFINE whole == c \o value
             p == InWord(tokens, whole, style)
  <2>1. CASE style = "single"
    <3>1. Scan(p, <<"sq">>) = shellRune(p, "sq")
      BY ScanFew
    <3> QED BY <2>1, <3>1, ShellTurns DEF Quote
  <2>2. CASE style = "double"
    <3>1. Scan(p, <<"dq">>) = shellRune(p, "dq")
      BY ScanFew
    <3> QED BY <2>2, <3>1, ShellTurns DEF Quote
  <2>3. CASE style \notin {"single", "double"}
    <3>1. Scan(p, <<>>) = p
      BY ScanFew
    <3>2. p = InWord(tokens, whole, "bare")
      BY <2>3 DEF InWord
    <3> QED BY <2>3, <3>1, <3>2 DEF Quote
  <2> QED BY <2>1, <2>2, <2>3
<1>6. Quoted(d) = (mark \o body) \o mark
  BY DEF Quoted
<1> HIDE DEF mark, body, q, value, style
<1>7. Sequence(mark \o body) /\ Sequence((mark \o body) \o mark)
  <2>1. Sequence(mark \o body)
    BY <1>2, <1>3, Concatenated
  <2> QED BY <1>2, <2>1, Concatenated
<1>8. Scan(q, mark \o body) = Scan(Scan(q, mark), body)
  BY <1>2, <1>3, ScanConcat
<1>9. Scan(q, (mark \o body) \o mark) = Scan(Scan(q, mark \o body), mark)
  BY <1>2, <1>7, ScanConcat
<1> QED BY <1>3, <1>4, <1>5, <1>6, <1>7, <1>8, <1>9 DEF q, value

\* What readers of the words make of a head: nothing is set.
SameSet(tokens, before) ==
  /\ ReadWords(tokens).env = ReadWords(before).env
  /\ ReadWords(tokens).failed = ReadWords(before).failed

\* A word without "=" sets nothing.
LEMMA IdleWord ==
  ASSUME NEW tokens, Sequence(tokens), NEW word, EqualsAt(word) = {}
  PROVE  SameSet(Append(tokens, word), tokens)
<1> DEFINE st == ReadWords(tokens)
<1>1. ReadWords(Append(tokens, word)) = ReadWord(st, word)
  BY WordsMore
<1> HIDE DEF st
<1>2. addEnvAssignment(st, word) = st
  BY DEF addEnvAssignment
<1>3. ReadWord(st, word).env = st.env /\ ReadWord(st, word).failed = st.failed
  BY <1>2 DEF ReadWord
<1> QED BY <1>1, <1>3 DEF SameSet, st

\* Where a head leaves off.
InHead(q, tokens) ==
  /\ q = Calm(q.tokens, q.current, q.started)
  /\ q.started \in BOOLEAN
  /\ Sequence(q.tokens) /\ Sequence(q.current)
  /\ EqualsAt(q.current) = {}
  /\ ~q.started => q.current = <<>>
  /\ SameSet(q.tokens, tokens)

\* No character of a head leaves it, and one that ends a word ends it for good.
LEMMA HeadMoves ==
  ASSUME NEW q, NEW tokens, InHead(q, tokens), NEW r, r \notin {"eq", "bs", "sq", "dq"}
  PROVE  /\ InHead(shellRune(q, r), tokens)
         /\ r \in Blank \cup {"semi", "brace"} =>
              shellRune(q, r) = Rest(shellRune(q, r).tokens)
<1> DEFINE t == q.tokens
           c == q.current
           p == shellRune(q, r)
<1>1. /\ q = Calm(t, c, q.started) /\ q.started \in BOOLEAN
      /\ Sequence(t) /\ Sequence(c) /\ EqualsAt(c) = {} /\ SameSet(t, tokens)
      /\ ~q.started => c = <<>>
  BY DEF InHead
<1>2. Sequence(<<>>) /\ EqualsAt(<<>>) = {}
  BY DEF Sequence, Range, EqualsAt
<1>3. \A u : /\ Rest(u) = Calm(u, <<>>, FALSE)
             /\ Rest(u).tokens = u /\ Rest(u).current = <<>> /\ Rest(u).started = FALSE
  BY DEF Rest, Calm
<1>4. \A u, w : /\ Calm(u, w, TRUE).tokens = u /\ Calm(u, w, TRUE).current = w
                /\ Calm(u, w, TRUE).started = TRUE
  BY DEF Calm
<1> HIDE DEF t, c, p
<1>5. CASE r \in Blank \cup {"semi", "brace"} /\ q.started
  <2>1. shellRune(Calm(t, c, TRUE), r) = Rest(Append(t, c))
    BY <1>5, CalmMoves
  <2>2. p = Rest(Append(t, c))
    <3>1. q = Calm(t, c, TRUE)
      BY <1>1, <1>5
    <3> QED BY <2>1, <3>1 DEF p
  <2>3. Sequence(Append(t, c)) /\ SameSet(Append(t, c), t)
    BY <1>1, AppendOne, IdleWord
  <2>4. SameSet(Append(t, c), tokens)
    BY <1>1, <2>3 DEF SameSet
  <2> QED BY <1>2, <1>3, <2>2, <2>3, <2>4 DEF InHead, p
<1>6. CASE r \in Blank \cup {"semi", "brace"} /\ ~q.started
  <2>1. shellRune(Calm(t, c, q.started), r) = Calm(t, c, FALSE)
    BY <1>1, <1>6, CalmMoves
  <2>2. p = Rest(t)
    BY <1>1, <1>3, <1>6, <2>1 DEF p
  <2> QED BY <1>1, <1>2, <1>3, <2>2 DEF InHead, p
<1>7. CASE r \notin Blank \cup {"semi", "brace"}
  <2>1. shellRune(Calm(t, c, q.started), r) = Calm(t, Append(c, r), TRUE)
    BY <1>1, <1>7, CalmMoves
  <2>2. p = Calm(t, Append(c, r), TRUE)
    BY <1>1, <2>1 DEF p
  <2>3. /\ Sequence(Append(c, r)) /\ DOMAIN Append(c, r) = 1 .. Len(c) + 1
        /\ DOMAIN c = 1 .. Len(c) /\ Len(c) \in Nat
        /\ \A j \in DOMAIN c : Append(c, r)[j] = c[j]
        /\ Append(c, r)[Len(c) + 1] = r
    BY <1>1, AppendOne, SequenceFacts
  <2>4. EqualsAt(Append(c, r)) = {}
    BY <1>1, <2>3 DEF EqualsAt
  <2>5. p.tokens = t /\ p.current = Append(c, r) /\ p.started = TRUE
    BY <1>4, <2>2
  <2>6. InHead(p, tokens)
    BY <1>1, <2>2, <2>3, <2>4, <2>5 DEF InHead
  <2> QED BY <1>7, <2>6 DEF p
<1> QED BY <1>5, <1>6, <1>7

\* A head leaves nothing behind that the words after it could be read with.
LEMMA HeadScanned ==
  ASSUME NEW tokens, Sequence(tokens), NEW before, Sequence(before), HeadOK(before)
  PROVE  \E t : /\ Sequence(t) /\ SameSet(t, tokens)
                /\ Scan(Rest(tokens), before) = Rest(t)
<1> DEFINE n == Len(before)
<1>1. n \in Nat /\ DOMAIN before = 1 .. n
  BY SequenceFacts
<1>2. PICK f : ScannedAs(f, Rest(tokens), before)
  BY ScanRecord
<1>3. /\ f[0] = Rest(tokens)
      /\ \A k \in 1 .. n : f[k] = shellRune(f[k - 1], before[k])
      /\ Scan(Rest(tokens), before) = f[n]
  BY <1>2 DEF ScannedAs
<1>4. n # 0 => before # <<>>
  <2>1. Len(<<>>) = 0
    OBVIOUS
  <2> QED BY <2>1
<1>5. /\ \A k \in 1 .. n : before[k] \notin {"eq", "bs", "sq", "dq"}
      /\ n # 0 => before[n] \in Blank \cup {"semi", "brace"}
  BY <1>1, <1>4 DEF HeadOK
<1> HIDE DEF n
<1>6. InHead(f[0], tokens)
  <2> DEFINE q == Rest(tokens)
  <2>1. /\ q = Calm(tokens, <<>>, FALSE)
        /\ q.tokens = tokens /\ q.current = <<>> /\ q.started = FALSE
    BY DEF Rest, Calm
  <2>2. Sequence(<<>>) /\ EqualsAt(<<>>) = {} /\ SameSet(tokens, tokens)
    BY DEF Sequence, Range, EqualsAt, SameSet
  <2> HIDE DEF q
  <2>3. InHead(q, tokens)
    BY <2>1, <2>2 DEF InHead
  <2> QED BY <1>3, <2>3 DEF q
<1> DEFINE Bad == {k \in 0 .. n : ~InHead(f[k], tokens)}
<1>7. Bad = {}
  <2> SUFFICES ASSUME Bad # {} PROVE FALSE
    OBVIOUS
  <2>1. PICK k \in Bad : \A j \in Bad : k <= j
    <3>1. Bad \subseteq Nat
      BY <1>1
    <3> HIDE DEF Bad
    <3> QED BY <3>1, LeastNumber
  <2>2. k \in 0 .. n /\ ~InHead(f[k], tokens)
    OBVIOUS
  <2>3. k # 0
    BY <1>6, <2>2
  <2>4. k - 1 \in 0 .. n /\ ~(k <= k - 1) /\ k \in 1 .. n
    BY <1>1, <2>2, <2>3
  <2>5. InHead(f[k - 1], tokens)
    BY <2>1, <2>4
  <2>6. InHead(shellRune(f[k - 1], before[k]), tokens)
    BY <1>5, <2>4, <2>5, HeadMoves
  <2> QED BY <1>3, <2>2, <2>4, <2>6
<1>8. InHead(f[n], tokens)
  <2>1. n \in 0 .. n
    BY <1>1
  <2> QED BY <1>7, <2>1
<1>9. f[n] = Rest(f[n].tokens)
  <2>1. CASE n = 0
    <3>1. Rest(tokens).tokens = tokens
      BY DEF Rest
    <3> QED BY <1>3, <2>1, <3>1
  <2>2. CASE n # 0
    <3>1. n \in 1 .. n /\ n - 1 \in 0 .. n
      BY <1>1, <2>2
    <3>2. InHead(f[n - 1], tokens)
      BY <1>7, <3>1
    <3>3. f[n] = shellRune(f[n - 1], before[n])
      BY <1>3, <3>1
    <3>4. shellRune(f[n - 1], before[n]) = Rest(shellRune(f[n - 1], before[n]).tokens)
      BY <1>5, <2>2, <3>1, <3>2, HeadMoves
    <3> QED BY <3>3, <3>4
  <2> QED BY <2>1, <2>2
<1> QED BY <1>3, <1>8, <1>9 DEF InHead

-----------------------------------------------------------------------------
\* strings.Cut of an assignment.

\* It gives back the key and the value, whatever "=" the value holds.
LEMMA AssignedCut ==
  ASSUME NEW key, Sequence(key), \A i \in DOMAIN key : key[i] # "eq",
         NEW value, Sequence(value)
  PROVE  LET word == Assigned(key, value) IN
           /\ Sequence(word) /\ EqualsAt(word) # {}
           /\ CutKey(word) = key /\ CutValue(word) = value
           /\ \A j \in DOMAIN key : word[j] = key[j]
<1> DEFINE n == Len(key)
           m == Len(value)
           sign == <<"eq">>
           left == key \o sign
           word == left \o value
<1>1. n \in Nat /\ m \in Nat /\ DOMAIN key = 1 .. n
  BY SequenceFacts
<1>2. Sequence(sign) /\ Len(sign) = 1 /\ sign[1] = "eq"
  BY DEF Sequence, Range
<1>3. word = Assigned(key, value)
  BY DEF Assigned
<1> HIDE DEF sign
<1>4. /\ Sequence(left) /\ Len(left) = Len(key) + Len(sign)
      /\ \A j \in 1 .. Len(key) : left[j] = key[j]
      /\ \A j \in 1 .. Len(sign) : left[Len(key) + j] = sign[j]
      /\ Range(left) = Range(key) \cup Range(sign)
  BY <1>2, Concatenated
<1> HIDE DEF left
<1>5. Len(left) = n + 1 /\ left[n + 1] = "eq"
  BY <1>2, <1>4
<1>6. /\ Sequence(word) /\ Len(word) = Len(left) + Len(value)
      /\ \A j \in 1 .. Len(left) : word[j] = left[j]
      /\ \A j \in 1 .. Len(value) : word[Len(left) + j] = value[j]
      /\ Range(word) = Range(left) \cup Range(value)
  BY <1>4, Concatenated
<1>7. DOMAIN word = 1 .. Len(word)
  BY <1>6, SequenceFacts
<1> HIDE DEF word, n, m
<1>14. /\ \A j \in 1 .. n : left[j] = key[j]
       /\ Len(word) = Len(left) + m
       /\ \A j \in 1 .. m : word[Len(left) + j] = value[j]
  BY <1>4, <1>6 DEF n, m
<1>8. /\ \A j \in 1 .. n : word[j] = key[j] /\ key[j] # "eq"
      /\ word[n + 1] = "eq" /\ Len(word) = n + 1 + m
      /\ \A j \in 1 .. m : word[n + 1 + j] = value[j]
  <2>1. \A j \in 1 .. n : j \in 1 .. n + 1 /\ j \in DOMAIN key
    BY <1>1
  <2>2. n + 1 \in 1 .. n + 1
    BY <1>1
  <2> QED BY <1>1, <1>14, <1>5, <1>6, <2>1, <2>2
<1>9. n + 1 \in EqualsAt(word) /\ EqualsAt(word) \subseteq Nat
  BY <1>1, <1>7, <1>8 DEF EqualsAt
<1>10. \A j \in EqualsAt(word) : n + 1 <= j
  <2> SUFFICES ASSUME NEW j \in EqualsAt(word), ~(n + 1 <= j) PROVE FALSE
    OBVIOUS
  <2>1. j \in 1 .. n
    BY <1>1, <1>7 DEF EqualsAt
  <2> QED BY <1>8, <2>1 DEF EqualsAt
<1>11. Min(EqualsAt(word)) = n + 1
  <2> DEFINE first == Min(EqualsAt(word))
  <2>1. first \in EqualsAt(word) /\ first <= n + 1
    BY <1>9, MinIsLeast
  <2> HIDE DEF first
  <2>2. first \in Nat /\ n + 1 <= first
    BY <1>9, <1>10, <2>1
  <2>3. first = n + 1
    BY <1>1, <2>1, <2>2
  <2> QED BY <2>3 DEF first
<1>12. CutKey(word) = key
  <2>1. (n + 1) - 1 = n /\ n <= Len(word) /\ n - 1 + 1 = n /\ \A i : i \in 1 .. n => 1 + i - 1 = i
    BY <1>1, <1>8
  <2>2. SubSeq(word, 1, n) = key
    <3>1. Len(key) = n - 1 + 1 /\ \A i \in 1 .. Len(key) : key[i] = word[1 + i - 1]
      BY <1>1, <1>8, <2>1 DEF n
    <3>2. Stretches(word, 1, n, key)
      BY <1>1, <1>6, <2>1, <3>1 DEF Stretches
    <3> QED BY <3>2, Stretch
  <2> QED BY <1>11, <2>1, <2>2 DEF CutKey
<1>13. CutValue(word) = value
  <2> DEFINE a == (n + 1) + 1
             b == Len(word)
  <2>1. /\ a \in Nat /\ a # 0 /\ b \in Nat /\ b <= b /\ b - a + 1 = m
        /\ \A i \in 1 .. m : a + i - 1 = n + 1 + i
    BY <1>1, <1>8
  <2> HIDE DEF a
  <2>2. SubSeq(word, a, b) = value
    <3>1. Len(value) = b - a + 1 /\ \A i \in 1 .. Len(value) : value[i] = word[a + i - 1]
      BY <1>1, <1>8, <2>1 DEF m
    <3>2. Stretches(word, a, b, value)
      BY <1>6, <2>1, <3>1 DEF Stretches
    <3> HIDE DEF b
    <3> QED BY <3>2, Stretch
  <2> QED BY <1>11, <2>2 DEF CutValue, a
<1> QED BY <1>1, <1>3, <1>6, <1>8, <1>9, <1>12, <1>13

-----------------------------------------------------------------------------
\* A declaration as the session reads it.

DeclarationText(d) == d.before \o d.key \o <<"eq">> \o Quoted(d) \o <<"semi", "sp">>

WellFormed(d) ==
  /\ Sequence(d.before) /\ HeadOK(d.before)
  /\ Sequence(d.key) /\ envKeyOK(d.key)
  /\ Sequence(d.value) /\ Printable(d)

\* A key is ink that no shell treats apart.
LEMMA KeyChars ==
  ASSUME NEW key, Sequence(key), envKeyOK(key)
  PROVE  /\ key # <<>> /\ key[1] \in Letter
         /\ \A i \in DOMAIN key : key[i] \notin Special \cup Blank /\ key[i] # "eq"
         /\ TrimSpace(key) = key
<1>1. /\ key # <<>> /\ key[1] \in Letter
      /\ \A i \in DOMAIN key : key[i] \in Letter \cup {"9"}
  BY DEF envKeyOK
<1>2. \A i \in DOMAIN key : key[i] \notin Special \cup Blank /\ key[i] # "eq"
  BY <1>1 DEF Letter, Special, Blank
<1>3. Len(key) \in DOMAIN key /\ 1 \in DOMAIN key
  <2>1. key \in Seq(Range(key))
    BY DEF Sequence
  <2>2. Len(key) \in Nat \ {0} /\ DOMAIN key = 1 .. Len(key)
    BY <1>1, <2>1, EmptySeq, SequenceFacts
  <2> QED BY <2>2
<1>4. TrimSpace(key) = key
  BY <1>1, <1>2, <1>3, NothingToTrim
<1> QED BY <1>1, <1>2, <1>4

\* A declaration is one word of the session, what it declares, after its head.
LEMMA DeclarationScanned ==
  ASSUME NEW tokens, Sequence(tokens), NEW d, WellFormed(d)
  PROVE  /\ Sequence(DeclarationText(d))
         /\ \E t : /\ Sequence(t) /\ SameSet(t, tokens)
                   /\ Scan(Rest(tokens), DeclarationText(d))
                        = Rest(Append(t, Assigned(d.key, d.value)))
<1> DEFINE before == d.before
           key == d.key
           value == d.value
           sign == <<"eq">>
           end == <<"semi", "sp">>
           one == before \o key
           two == one \o sign
           three == two \o Quoted(d)
           four == three \o end
           q == Rest(tokens)
<1>1. /\ Sequence(before) /\ HeadOK(before) /\ Sequence(key) /\ envKeyOK(key)
      /\ Sequence(value) /\ Printable(d)
  BY DEF WellFormed
<1>2. Sequence(sign) /\ Sequence(end)
  <2>1. sign \in Seq({"eq"}) /\ end \in Seq({"semi", "sp"})
    OBVIOUS
  <2> QED BY <2>1, SequenceOfAny
<1>3. PICK t : Sequence(t) /\ SameSet(t, tokens) /\ Scan(q, before) = Rest(t)
  BY <1>1, HeadScanned
<1>4. Scan(Rest(t), key) = InWord(t, key, "bare")
  BY <1>1, KeyChars, KeyScanned
<1>5. Scan(InWord(t, key, "bare"), sign) = InWord(t, key \o sign, "bare")
  <2>1. Scan(InWord(t, key, "bare"), <<"eq">>) = shellRune(InWord(t, key, "bare"), "eq")
    BY ScanFew
  <2>2. Plain("bare", "eq")
    BY DEF Plain, Special, Blank
  <2>3. shellRune(InWord(t, key, "bare"), "eq") = InWord(t, Append(key, "eq"), "bare")
    BY <2>2, ShellMoves
  <2>4. Append(key, "eq") = key \o sign
    <3> DEFINE S == Range(key) \cup {"eq"}
    <3>1. key \in Seq(S) /\ "eq" \in S
      <4>1. key \in Seq(Range(key)) /\ Seq(Range(key)) \subseteq Seq(S)
        BY <1>1 DEF Sequence
      <4> QED BY <4>1
    <3> HIDE DEF S
    <3> QED BY <3>1, AppendIsConcat
  <2> QED BY <2>1, <2>3, <2>4
<1>6. Sequence(key \o sign)
  BY <1>1, <1>2, Concatenated
<1>7. /\ Scan(InWord(t, key \o sign, "bare"), Quoted(d)) = InWord(t, (key \o sign) \o value, "bare")
      /\ Sequence(Quoted(d))
  BY <1>1, <1>6, QuotedScanned
<1>8. (key \o sign) \o value = Assigned(key, value)
  BY DEF Assigned
<1> DEFINE word == Assigned(key, value)
<1>9. Scan(InWord(t, word, "bare"), end) = Rest(Append(t, word))
  <2>1. shellRune(InWord(t, word, "bare"), "semi") = Rest(Append(t, word))
    BY ShellTurns
  <2>2. shellRune(Rest(Append(t, word)), "sp") = Rest(Append(t, word))
    BY ShellTurns
  <2> QED BY <2>1, <2>2, ScanTwo
<1>10. four = DeclarationText(d)
  BY DEF DeclarationText
<1> HIDE DEF before, key, value, sign, end, one, two, three, four, q, word
<1>11. Sequence(one) /\ Scan(q, one) = Scan(Scan(q, before), key)
  BY <1>1, Concatenated, ScanConcat DEF one
<1>12. Sequence(two) /\ Scan(q, two) = Scan(Scan(q, one), sign)
  BY <1>2, <1>11, Concatenated, ScanConcat DEF two
<1>13. Sequence(three) /\ Scan(q, three) = Scan(Scan(q, two), Quoted(d))
  BY <1>7, <1>12, Concatenated, ScanConcat DEF three
<1>14. Sequence(four) /\ Scan(q, four) = Scan(Scan(q, three), end)
  BY <1>2, <1>13, Concatenated, ScanConcat DEF four
<1>15. Scan(q, four) = Rest(Append(t, word))
  BY <1>3, <1>4, <1>5, <1>7, <1>8, <1>9, <1>11, <1>12, <1>13, <1>14 DEF word
<1> QED BY <1>3, <1>10, <1>14, <1>15 DEF q, word, key, value

-----------------------------------------------------------------------------
\* What the words set.

ReadState(st) ==
  /\ st = [env |-> st.env, failed |-> st.failed, option |-> st.option]
  /\ st.failed \in BOOLEAN /\ st.option \in BOOLEAN

\* What has been read is of one shape.
LEMMA ReadTyped == ASSUME NEW s, Sequence(s) PROVE ReadState(ReadWords(s))
<1> DEFINE n == Len(s)
<1>1. n \in Nat
  BY SequenceFacts
<1>2. PICK f : WordsReadAs(f, s)
  BY WordsRecord
<1>3. /\ f[0] = NothingSet
      /\ \A k \in 1 .. n : f[k] = ReadWord(f[k - 1], s[k])
      /\ ReadWords(s) = f[n]
  BY <1>2 DEF WordsReadAs
<1> HIDE DEF n
<1>4. ReadState(NothingSet)
  BY DEF ReadState, NothingSet
<1>5. ASSUME NEW st, ReadState(st), NEW word PROVE ReadState(ReadWord(st, word))
  <2>1. st = [env |-> st.env, failed |-> st.failed, option |-> st.option]
        /\ st.failed \in BOOLEAN /\ st.option \in BOOLEAN
    BY <1>5 DEF ReadState
  <2>2. ReadState(addEnvAssignment(st, word))
    <3>1. CASE addEnvAssignment(st, word) = st
      BY <1>5, <3>1
    <3>2. CASE addEnvAssignment(st, word) = [st EXCEPT !.failed = TRUE]
      BY <2>1, <3>2 DEF ReadState
    <3>3. CASE \E x, y : addEnvAssignment(st, word) = [st EXCEPT !.env = WithValue(@, x, y)]
      BY <2>1, <3>3 DEF ReadState
    <3> QED BY <3>1, <3>2, <3>3, Zenon DEF addEnvAssignment
  <2> DEFINE p == addEnvAssignment(st, word)
  <2> HIDE DEF p
  <2>3. /\ p = [env |-> p.env, failed |-> p.failed, option |-> p.option]
        /\ p.failed \in BOOLEAN /\ p.option \in BOOLEAN
    BY <2>2 DEF ReadState, p
  <2>4. ReadWord(st, word) \in {st, [st EXCEPT !.option = TRUE], [p EXCEPT !.option = FALSE]}
    BY DEF ReadWord, p
  <2>5. CASE ReadWord(st, word) = [st EXCEPT !.option = TRUE]
    BY <2>1, <2>5 DEF ReadState
  <2>6. CASE ReadWord(st, word) = [p EXCEPT !.option = FALSE]
    BY <2>3, <2>6 DEF ReadState
  <2> QED BY <1>5, <2>4, <2>5, <2>6
<1> DEFINE Bad == {k \in 0 .. n : ~ReadState(f[k])}
<1>6. Bad = {}
  <2> SUFFICES ASSUME Bad # {} PROVE FALSE
    OBVIOUS
  <2>1. PICK k \in Bad : \A j \in Bad : k <= j
    <3>1. Bad \subseteq Nat
      BY <1>1
    <3> HIDE DEF Bad
    <3> QED BY <3>1, LeastNumber
  <2>2. k \in 0 .. n /\ ~ReadState(f[k])
    OBVIOUS
  <2>3. k # 0
    BY <1>3, <1>4, <2>2
  <2>4. k - 1 \in 0 .. n /\ ~(k <= k - 1) /\ k \in 1 .. n
    BY <1>1, <2>2, <2>3
  <2>5. ReadState(f[k - 1])
    BY <2>1, <2>4
  <2> QED BY <1>3, <1>5, <2>2, <2>4, <2>5
<1>7. n \in 0 .. n
  BY <1>1
<1> QED BY <1>3, <1>6, <1>7

\* A declaration sets its key, unless its value has a line break.
LEMMA DeclarationSet ==
  ASSUME NEW t, Sequence(t), NEW d, WellFormed(d)
  PROVE  LET st == ReadWords(t)
             after == ReadWords(Append(t, Assigned(d.key, d.value)))
         IN /\ after.failed <=> st.failed \/ LineBreak(d.value)
            /\ ~LineBreak(d.value) => after.env = WithValue(st.env, d.key, d.value)
<1> DEFINE st == ReadWords(t)
           key == d.key
           value == d.value
           word == Assigned(key, value)
           p == addEnvAssignment(st, word)
<1>1. Sequence(key) /\ envKeyOK(key) /\ Sequence(value)
  BY DEF WellFormed
<1>2. ReadState(st)
  BY ReadTyped
<1>3. /\ key # <<>> /\ key[1] \in Letter /\ TrimSpace(key) = key
      /\ \A i \in DOMAIN key : key[i] # "eq"
  BY <1>1, KeyChars
<1>4. /\ EqualsAt(word) # {} /\ CutKey(word) = key /\ CutValue(word) = value
      /\ \A j \in DOMAIN key : word[j] = key[j]
  BY <1>1, <1>3, AssignedCut
<1>5. ReadWords(Append(t, word)) = ReadWord(st, word)
  BY WordsMore
<1>6. LineBreak(value) <=> \E i \in DOMAIN CutValue(word) : CutValue(word)[i] \in {"nl", "cr"}
  BY <1>4 DEF LineBreak
<1> HIDE DEF st, key, value, word
<1>7. /\ LineBreak(value) => p = [st EXCEPT !.failed = TRUE]
      /\ ~LineBreak(value) => p = [st EXCEPT !.env = WithValue(@, key, value)]
  BY <1>1, <1>3, <1>4, <1>6 DEF addEnvAssignment
<1> HIDE DEF p
<1>8. ReadWord(st, word) = [p EXCEPT !.option = FALSE]
  <2>1. word[1] # "dash"
    <3>1. 1 \in DOMAIN key
      <4>1. key \in Seq(Range(key))
        BY <1>1 DEF Sequence
      <4>2. Len(key) \in Nat \ {0} /\ DOMAIN key = 1 .. Len(key)
        BY <1>1, <1>3, <4>1, EmptySeq, SequenceFacts
      <4> QED BY <4>2
    <3> QED BY <1>3, <1>4, <3>1 DEF Letter
  <2>2. word \notin DeclareWord
    <3>1. EqualsAt(<<"declare">>) = {} /\ EqualsAt(<<"export">>) = {}
      BY DEF EqualsAt
    <3> QED BY <1>4, <3>1 DEF DeclareWord
  <2> QED BY <2>1, <2>2 DEF ReadWord, p
<1>9. /\ st = [env |-> st.env, failed |-> st.failed, option |-> st.option]
      /\ st.failed \in BOOLEAN
  BY <1>2 DEF ReadState
<1>10. CASE LineBreak(value)
  <2>1. ReadWord(st, word).failed = TRUE
    BY <1>7, <1>8, <1>9, <1>10
  <2> QED BY <1>5, <1>10, <2>1 DEF st, key, value, word
<1>11. CASE ~LineBreak(value)
  <2>1. /\ ReadWord(st, word).failed = st.failed
        /\ ReadWord(st, word).env = WithValue(st.env, key, value)
    BY <1>7, <1>8, <1>9, <1>11
  <2> QED BY <1>5, <1>11, <2>1 DEF st, key, value, word
<1> QED BY <1>10, <1>11

\* What the words of the first k declarations set.
SetBy(st, ds, k) ==
  /\ st.failed <=> \E i \in 1 .. k : LineBreak(ds[i].value)
  /\ ~st.failed =>
       /\ DOMAIN st.env = {ds[i].key : i \in 1 .. k}
       /\ \A i \in 1 .. k : (\A j \in i + 1 .. k : ds[j].key # ds[i].key) =>
            st.env[ds[i].key] = ds[i].value

\* One declaration more sets its own key and no other.
LEMMA OneMoreSet ==
  ASSUME NEW ds, NEW k \in Nat \ {0}, NEW st, NEW after, SetBy(st, ds, k - 1),
         after.failed <=> st.failed \/ LineBreak(ds[k].value),
         ~LineBreak(ds[k].value) => after.env = WithValue(st.env, ds[k].key, ds[k].value)
  PROVE  SetBy(after, ds, k)
<1>1. \A i : i \in 1 .. k <=> i \in 1 .. k - 1 \/ i = k
  OBVIOUS
<1>2. after.failed <=> \E i \in 1 .. k : LineBreak(ds[i].value)
  BY <1>1 DEF SetBy
<1>3. ASSUME ~after.failed
      PROVE  /\ DOMAIN after.env = {ds[i].key : i \in 1 .. k}
             /\ \A i \in 1 .. k : (\A j \in i + 1 .. k : ds[j].key # ds[i].key) =>
                  after.env[ds[i].key] = ds[i].value
  <2>1. ~st.failed /\ after.env = WithValue(st.env, ds[k].key, ds[k].value)
    BY <1>3
  <2>2. /\ DOMAIN after.env = DOMAIN st.env \cup {ds[k].key}
        /\ after.env[ds[k].key] = ds[k].value
        /\ \A x \in DOMAIN st.env : x # ds[k].key => after.env[x] = st.env[x]
    BY <2>1 DEF WithValue
  <2>3. /\ DOMAIN st.env = {ds[i].key : i \in 1 .. k - 1}
        /\ \A i \in 1 .. k - 1 : (\A j \in i + 1 .. k - 1 : ds[j].key # ds[i].key) =>
             st.env[ds[i].key] = ds[i].value
    BY <2>1 DEF SetBy
  <2>4. DOMAIN after.env = {ds[i].key : i \in 1 .. k}
    BY <1>1, <2>2, <2>3
  <2>5. ASSUME NEW i \in 1 .. k, \A j \in i + 1 .. k : ds[j].key # ds[i].key
        PROVE  after.env[ds[i].key] = ds[i].value
    <3>1. CASE i = k
      BY <2>2, <3>1
    <3>2. CASE i # k
      <4>1. i \in 1 .. k - 1 /\ k \in i + 1 .. k
        BY <3>2
      <4>2. ds[i].key # ds[k].key
        BY <2>5, <4>1
      <4>3. \A j \in i + 1 .. k - 1 : j \in i + 1 .. k
        BY <4>1
      <4>4. st.env[ds[i].key] = ds[i].value /\ ds[i].key \in DOMAIN st.env
        BY <2>3, <2>5, <4>1, <4>3
      <4> QED BY <2>2, <4>2, <4>4
    <3> QED BY <3>1, <3>2
  <2> QED BY <2>4, <2>5
<1> QED BY <1>2, <1>3 DEF SetBy

\* Every declaration is read.
LEMMA AllSet ==
  ASSUME NEW ds, Sequence(ds), \A i \in DOMAIN ds : WellFormed(ds[i])
  PROVE  \E t : /\ Sequence(t) /\ Scan(NoWord, Printed(ds)) = Rest(t)
                /\ SetBy(ReadWords(t), ds, Len(ds))
<1> DEFINE n == Len(ds)
           parts == [i \in DOMAIN ds |-> DeclarationText(ds[i])]
<1>1. n \in Nat /\ DOMAIN ds = 1 .. n
  BY SequenceFacts
<1>2. Printed(ds) = FlattenSeq(parts)
  BY DEF Printed, DeclarationText
<1>3. Sequence(parts) /\ Len(parts) = n /\ DOMAIN parts = 1 .. n
  <2>1. DOMAIN parts = 1 .. n /\ parts = [k \in 1 .. n |-> parts[k]]
    BY <1>1
  <2> HIDE DEF parts, n
  <2> QED BY <1>1, <2>1, Listed
<1>4. \A k \in 1 .. n : parts[k] = DeclarationText(ds[k]) /\ WellFormed(ds[k])
  BY <1>1
<1>5. Sequence(<<>>)
  BY DEF Sequence, Range
<1> HIDE DEF parts, n
<1>6. \A k \in DOMAIN parts : Sequence(parts[k])
  BY <1>3, <1>4, <1>5, DeclarationScanned
<1>7. PICK g : ScannedByParts(g, NoWord, parts)
  BY <1>3, <1>6, ScanParts
<1>8. /\ g[0] = NoWord
      /\ \A k \in 1 .. n : g[k] = Scan(g[k - 1], parts[k])
      /\ Scan(NoWord, FlattenSeq(parts)) = g[n]
  BY <1>3, <1>7 DEF ScannedByParts
<1> DEFINE Good(k) == \E t : Sequence(t) /\ g[k] = Rest(t) /\ SetBy(ReadWords(t), ds, k)
           Bad == {k \in 0 .. n : ~Good(k)}
<1>9. Good(0)
  <2>1. NoWord = Rest(<<>>)
    BY DEF NoWord, Rest
  <2>2. ReadWords(<<>>) = NothingSet
    <3>1. PICK f : WordsReadAs(f, <<>>)
      BY <1>5, WordsRecord
    <3>2. Len(<<>>) = 0
      OBVIOUS
    <3> QED BY <3>1, <3>2 DEF WordsReadAs
  <2>3. SetBy(NothingSet, ds, 0)
    BY DEF SetBy, NothingSet
  <2> QED BY <1>5, <1>8, <2>1, <2>2, <2>3
<1>10. Bad = {}
  <2> SUFFICES ASSUME Bad # {} PROVE FALSE
    OBVIOUS
  <2>1. PICK k \in Bad : \A j \in Bad : k <= j
    <3>1. Bad \subseteq Nat
      BY <1>1
    <3> HIDE DEF Bad
    <3> QED BY <3>1, LeastNumber
  <2>2. k \in 0 .. n /\ ~Good(k)
    OBVIOUS
  <2> HIDE DEF Good
  <2>3. k # 0
    BY <1>9, <2>2
  <2>4. k - 1 \in 0 .. n /\ ~(k <= k - 1) /\ k \in 1 .. n /\ k \in Nat \ {0}
    BY <1>1, <2>2, <2>3
  <2>5. Good(k - 1)
    BY <2>1, <2>4
  <2>6. PICK t : Sequence(t) /\ g[k - 1] = Rest(t) /\ SetBy(ReadWords(t), ds, k - 1)
    BY <2>5 DEF Good
  <2>7. WellFormed(ds[k]) /\ parts[k] = DeclarationText(ds[k])
    BY <1>4, <2>4
  <2>8. PICK u : /\ Sequence(u) /\ SameSet(u, t)
                 /\ Scan(Rest(t), DeclarationText(ds[k]))
                      = Rest(Append(u, Assigned(ds[k].key, ds[k].value)))
    BY <2>6, <2>7, DeclarationScanned
  <2> DEFINE v == Append(u, Assigned(ds[k].key, ds[k].value))
             after == ReadWords(v)
             st == ReadWords(u)
  <2>9. g[k] = Rest(v)
    BY <1>8, <2>4, <2>6, <2>7, <2>8
  <2>10. Sequence(v)
    BY <2>8, AppendOne
  <2>11. /\ after.failed <=> st.failed \/ LineBreak(ds[k].value)
         /\ ~LineBreak(ds[k].value) => after.env = WithValue(st.env, ds[k].key, ds[k].value)
    BY <2>7, <2>8, DeclarationSet
  <2> HIDE DEF after, st, v
  <2>12. SetBy(st, ds, k - 1)
    BY <2>6, <2>8 DEF SameSet, SetBy, st
  <2>13. SetBy(after, ds, k)
    BY <2>4, <2>11, <2>12, OneMoreSet
  <2>14. Good(k)
    BY <2>9, <2>10, <2>13 DEF Good, after
  <2> QED BY <2>2, <2>14
<1>11. Good(n)
  <2>1. n \in 0 .. n
    BY <1>1
  <2> HIDE DEF Good
  <2> QED BY <1>10, <2>1
<1> QED BY <1>2, <1>8, <1>11 DEF n

\* So parseSessionEnv returns the last values declared, or fails for a line
\* break or for want of a declaration.
LEMMA Parsed ==
  ASSUME NEW ds, Sequence(ds), \A i \in DOMAIN ds : WellFormed(ds[i])
  PROVE  LET got == parseSessionEnv(Printed(ds)) IN
           /\ got.failed => ds = <<>> \/ \E i \in DOMAIN ds : LineBreak(ds[i].value)
           /\ ~got.failed =>
                /\ DOMAIN got.env = DeclaredKeys(ds)
                /\ \A key \in DeclaredKeys(ds) : got.env[key] = LastValue(ds, key)
<1> DEFINE n == Len(ds)
           got == parseSessionEnv(Printed(ds))
<1>1. n \in Nat /\ DOMAIN ds = 1 .. n
  BY SequenceFacts
<1>2. PICK t : /\ Sequence(t) /\ Scan(NoWord, Printed(ds)) = Rest(t)
               /\ SetBy(ReadWords(t), ds, n)
  BY AllSet
<1> DEFINE st == ReadWords(t)
<1>3. shellWords(Printed(ds)) = Rest(t)
  <2>1. Rest(t).escaped = FALSE /\ Flush(Rest(t)) = Rest(t)
    BY DEF Rest, Flush
  <2> QED BY <1>2, <2>1 DEF shellWords
<1>4. Rest(t).tokens = t /\ Rest(t).single = FALSE /\ Rest(t).double = FALSE
  BY DEF Rest
<1>5. got = [st EXCEPT !.failed = @ \/ DOMAIN st.env = {}]
  BY <1>3, <1>4 DEF parseSessionEnv
<1>6. /\ st = [env |-> st.env, failed |-> st.failed, option |-> st.option]
      /\ st.failed \in BOOLEAN
  BY <1>2, ReadTyped DEF ReadState
<1>7. /\ st.failed <=> \E i \in 1 .. n : LineBreak(ds[i].value)
      /\ ~st.failed =>
           /\ DOMAIN st.env = {ds[i].key : i \in 1 .. n}
           /\ \A i \in 1 .. n : (\A j \in i + 1 .. n : ds[j].key # ds[i].key) =>
                st.env[ds[i].key] = ds[i].value
  BY <1>2 DEF SetBy
<1> HIDE DEF n, st, got
<1>8. (got.failed <=> st.failed \/ DOMAIN st.env = {}) /\ got.env = st.env
  BY <1>5, <1>6
<1>9. ASSUME got.failed PROVE ds = <<>> \/ \E i \in DOMAIN ds : LineBreak(ds[i].value)
  <2>1. CASE st.failed
    BY <1>1, <1>7, <2>1
  <2>2. CASE ~st.failed
    <3>1. {ds[i].key : i \in 1 .. n} = {}
      BY <1>7, <1>8, <1>9, <2>2
    <3>2. n = 0
      <4>1. n # 0 => 1 \in 1 .. n
        BY <1>1
      <4>2. ds[1].key \notin {ds[i].key : i \in 1 .. n}
        BY <3>1
      <4> QED BY <4>1, <4>2
    <3>3. ds \in Seq(Range(ds))
      BY DEF Sequence
    <3> QED BY <3>2, <3>3, EmptySeq DEF n
  <2> QED BY <2>1, <2>2
<1>10. ASSUME ~got.failed
       PROVE  /\ DOMAIN got.env = DeclaredKeys(ds)
              /\ \A key \in DeclaredKeys(ds) : got.env[key] = LastValue(ds, key)
  <2>1. DOMAIN got.env = DeclaredKeys(ds)
    BY <1>1, <1>7, <1>8, <1>10 DEF DeclaredKeys
  <2>2. ASSUME NEW key \in DeclaredKeys(ds) PROVE got.env[key] = LastValue(ds, key)
    <3> DEFINE T == {i \in DOMAIN ds : ds[i].key = key}
               last == Max(T)
    <3>1. T \subseteq 1 .. n /\ T # {}
      BY <1>1, <2>2 DEF DeclaredKeys
    <3>2. last \in T /\ \A z \in T : z <= last
      <4> HIDE DEF T
      <4> QED BY <1>1, <3>1, MaxIsGreatest
    <3> HIDE DEF last
    <3>3. last \in 1 .. n /\ ds[last].key = key
      BY <1>1, <3>2
    <3>4. \A j \in last + 1 .. n : ds[j].key # ds[last].key
      <4> SUFFICES ASSUME NEW j \in last + 1 .. n, ds[j].key = key PROVE FALSE
        BY <3>3
      <4>1. j \in 1 .. n /\ ~(j <= last)
        BY <1>1, <3>3
      <4> QED BY <1>1, <3>2, <4>1
    <3>5. st.env[key] = ds[last].value
      BY <1>7, <1>8, <1>10, <3>3, <3>4
    <3> QED BY <1>8, <3>5 DEF LastValue, last
  <2> QED BY <2>1, <2>2
<1> QED BY <1>9, <1>10 DEF got

-----------------------------------------------------------------------------
\* mergeEnv, one entry after the other.

KeptOf(f, s, overrides, n) ==
  [k \in 0 .. n |-> IF k = 0 THEN <<>> ELSE KeepEntry(f[k - 1], s[k], overrides)]

\* The recursive function of Kept exists.
LEMMA KeepingExists ==
  ASSUME NEW s, NEW overrides, NEW n \in Nat PROVE \E f : f = KeptOf(f, s, overrides, n)
<1> DEFINE Built(f, m) ==
             f = [k \in 0 .. m |-> IF k = 0 THEN <<>> ELSE KeepEntry(f[k - 1], s[k], overrides)]
           Unbuilt == {m \in Nat : ~\E f : Built(f, m)}
<1> SUFFICES ASSUME Unbuilt # {} PROVE FALSE
  BY DEF KeptOf
<1>1. PICK m \in Unbuilt : \A k \in Unbuilt : m <= k
  <2>1. Unbuilt \subseteq Nat
    OBVIOUS
  <2> HIDE DEF Unbuilt
  <2> QED BY <2>1, LeastNumber
<1>2. m \in Nat /\ ~\E f : Built(f, m)
  OBVIOUS
<1>3. m # 0
  <2>1. Built([k \in 0 .. 0 |-> <<>>], 0)
    <3>1. \A k \in 0 .. 0 : k = 0
      OBVIOUS
    <3> QED BY <3>1
  <2> QED BY <1>2, <2>1
<1>4. PICK f : Built(f, m - 1)
  <2>1. m - 1 \in Nat /\ ~(m <= m - 1)
    BY <1>2, <1>3
  <2>2. m - 1 \notin Unbuilt
    BY <1>1, <2>1
  <2> HIDE DEF Built
  <2> QED BY <2>1, <2>2
<1> DEFINE g == [k \in 0 .. m |-> IF k = m THEN KeepEntry(f[m - 1], s[m], overrides) ELSE f[k]]
<1>5. ASSUME NEW k \in 0 .. m
      PROVE  g[k] = IF k = 0 THEN <<>> ELSE KeepEntry(g[k - 1], s[k], overrides)
  <2>1. CASE k = m
    <3>1. m - 1 \in 0 .. m /\ m - 1 # m /\ g[m - 1] = f[m - 1]
      BY <1>2, <1>3
    <3>2. g[m] = KeepEntry(f[m - 1], s[m], overrides)
      BY <1>2
    <3> QED BY <1>3, <2>1, <3>1, <3>2
  <2>2. CASE k # m
    <3>1. k \in 0 .. m - 1 /\ g[k] = f[k]
      BY <1>2, <2>2
    <3>2. f[k] = IF k = 0 THEN <<>> ELSE KeepEntry(f[k - 1], s[k], overrides)
      BY <1>4, <3>1
    <3>3. k # 0 => k - 1 \in 0 .. m /\ k - 1 # m /\ g[k - 1] = f[k - 1]
      BY <1>2, <2>2
    <3> QED BY <3>1, <3>2, <3>3
  <2> QED BY <2>1, <2>2
<1>6. Built(g, m)
  <2>1. g = [k \in 0 .. m |-> g[k]]
    OBVIOUS
  <2> HIDE DEF g
  <2> QED BY <1>5, <2>1
<1> QED BY <1>2, <1>6

\* Its value after each entry of s.
KeptAs(f, s, overrides) ==
  /\ f[0] = <<>>
  /\ \A k \in 1 .. Len(s) : f[k] = KeepEntry(f[k - 1], s[k], overrides)
  /\ Kept(s, overrides) = f[Len(s)]

\* So there are such values.
LEMMA KeptRecord ==
  ASSUME NEW s, Sequence(s), NEW overrides PROVE \E f : KeptAs(f, s, overrides)
<1> DEFINE n == Len(s)
           Holds(f) == f = KeptOf(f, s, overrides, n)
           f == CHOOSE f : Holds(f)
<1>1. n \in Nat
  BY SequenceFacts
<1>2. Kept(s, overrides) = f[n]
  BY DEF Kept, KeptOf
<1>3. \E g : Holds(g)
  <2> HIDE DEF n
  <2> QED BY <1>1, KeepingExists
<1>4. Holds(f)
  <2> HIDE DEF Holds
  <2> QED BY <1>3
<1> HIDE DEF f, n
<1>5. f[0] = <<>>
  BY <1>1, <1>4 DEF KeptOf
<1>6. \A k \in 1 .. n : f[k] = KeepEntry(f[k - 1], s[k], overrides)
  BY <1>1, <1>4 DEF KeptOf
<1> QED BY <1>2, <1>5, <1>6 DEF n, KeptAs

\* Where the entries kept come from.
Placed(out, at, environ, overrides, k) ==
  /\ Sequence(out)
  /\ {at[j] : j \in 1 .. Len(out)} = {i \in 1 .. k : EqualsAt(environ[i]) # {}}
  /\ \A i, j \in 1 .. Len(out) : i < j => at[i] < at[j]
  /\ \A j \in 1 .. Len(out) : out[j] = Replaced(environ[at[j]], overrides)

\* An entry more is kept after the others, or dropped.
LEMMA OneMoreKept ==
  ASSUME NEW environ, NEW overrides, NEW k \in Nat \ {0}, NEW out, NEW at,
         Placed(out, at, environ, overrides, k - 1)
  PROVE  \E to : Placed(KeepEntry(out, environ[k], overrides), to, environ, overrides, k)
<1> DEFINE m == Len(out)
           item == environ[k]
           From(l) == {i \in 1 .. l : EqualsAt(environ[i]) # {}}
<1>1. /\ Sequence(out)
      /\ {at[j] : j \in 1 .. m} = From(k - 1)
      /\ \A i, j \in 1 .. m : i < j => at[i] < at[j]
      /\ \A j \in 1 .. m : out[j] = Replaced(environ[at[j]], overrides)
  BY DEF Placed
<1>2. m \in Nat
  BY <1>1, SequenceFacts
<1>3. \A i : i \in 1 .. k <=> i \in 1 .. k - 1 \/ i = k
  OBVIOUS
<1>4. CASE EqualsAt(item) = {}
  <2>1. KeepEntry(out, item, overrides) = out
    BY <1>4 DEF KeepEntry
  <2>2. From(k) = From(k - 1)
    BY <1>3, <1>4
  <2>3. Placed(out, at, environ, overrides, k)
    BY <1>1, <2>2 DEF Placed
  <2> QED BY <2>1, <2>3
<1>5. CASE EqualsAt(item) # {}
  <2> DEFINE new == Replaced(item, overrides)
             more == Append(out, new)
             to == [j \in 1 .. m + 1 |-> IF j = m + 1 THEN k ELSE at[j]]
  <2>1. KeepEntry(out, item, overrides) = more
    BY <1>5 DEF KeepEntry
  <2> HIDE DEF new
  <2>2. /\ Sequence(more) /\ Len(more) = m + 1
        /\ \A j \in DOMAIN out : more[j] = out[j]
        /\ more[m + 1] = new /\ DOMAIN out = 1 .. m
    BY <1>1, AppendOne, SequenceFacts
  <2> HIDE DEF more, m
  <2>3. \A j : j \in 1 .. m + 1 <=> j \in 1 .. m \/ j = m + 1
    BY <1>2
  <2>4. to[m + 1] = k /\ \A j \in 1 .. m : to[j] = at[j]
    BY <1>2
  <2> HIDE DEF to
  <2>5. From(k) = From(k - 1) \cup {k}
    BY <1>3, <1>5
  <2>6. {to[j] : j \in 1 .. m + 1} = {at[j] : j \in 1 .. m} \cup {k}
    BY <2>3, <2>4
  <2>7. {to[j] : j \in 1 .. m + 1} = From(k)
    BY <1>1, <2>5, <2>6
  <2>8. ASSUME NEW i \in 1 .. m + 1, NEW j \in 1 .. m + 1, i < j PROVE to[i] < to[j]
    <3>1. i \in 1 .. m
      BY <1>2, <2>8
    <3>2. CASE j \in 1 .. m
      BY <1>1, <2>4, <2>8, <3>1, <3>2
    <3>3. CASE j = m + 1
      <4>1. at[i] \in 1 .. k - 1
        <5>1. at[i] \in From(k - 1)
          BY <1>1, <3>1
        <5> QED BY <5>1
      <4> QED BY <2>4, <3>1, <3>3, <4>1
    <3> QED BY <2>3, <3>2, <3>3
  <2>9. ASSUME NEW j \in 1 .. m + 1 PROVE more[j] = Replaced(environ[to[j]], overrides)
    <3>1. CASE j \in 1 .. m
      BY <1>1, <2>2, <2>4, <3>1
    <3>2. CASE j = m + 1
      BY <2>2, <2>4, <3>2 DEF new
    <3> QED BY <2>3, <3>1, <3>2
  <2>10. Placed(more, to, environ, overrides, k)
    BY <2>2, <2>7, <2>8, <2>9 DEF Placed
  <2> QED BY <2>1, <2>10
<1> QED BY <1>4, <1>5

\* Every entry has its place.
LEMMA KeptPlaced ==
  ASSUME NEW environ, Sequence(environ), NEW overrides
  PROVE  \E at : Placed(Kept(environ, overrides), at, environ, overrides, Len(environ))
<1> DEFINE n == Len(environ)
<1>1. n \in Nat
  BY SequenceFacts
<1>2. PICK f : KeptAs(f, environ, overrides)
  BY KeptRecord
<1>3. /\ f[0] = <<>>
      /\ \A k \in 1 .. n : f[k] = KeepEntry(f[k - 1], environ[k], overrides)
      /\ Kept(environ, overrides) = f[n]
  BY <1>2 DEF KeptAs
<1> HIDE DEF n
<1> DEFINE Good(k) == \E at : Placed(f[k], at, environ, overrides, k)
           Bad == {k \in 0 .. n : ~Good(k)}
<1>4. Good(0)
  <2>1. Sequence(<<>>) /\ Len(<<>>) = 0
    BY DEF Sequence, Range
  <2>2. Placed(<<>>, <<>>, environ, overrides, 0)
    BY <2>1 DEF Placed
  <2> QED BY <1>3, <2>2
<1>5. Bad = {}
  <2> SUFFICES ASSUME Bad # {} PROVE FALSE
    OBVIOUS
  <2>1. PICK k \in Bad : \A j \in Bad : k <= j
    <3>1. Bad \subseteq Nat
      BY <1>1
    <3> HIDE DEF Bad
    <3> QED BY <3>1, LeastNumber
  <2>2. k \in 0 .. n /\ ~Good(k)
    OBVIOUS
  <2> HIDE DEF Good
  <2>3. k # 0
    BY <1>4, <2>2
  <2>4. k - 1 \in 0 .. n /\ ~(k <= k - 1) /\ k \in 1 .. n /\ k \in Nat \ {0}
    BY <1>1, <2>2, <2>3
  <2>5. Good(k - 1)
    BY <2>1, <2>4
  <2>6. PICK at : Placed(f[k - 1], at, environ, overrides, k - 1)
    BY <2>5 DEF Good
  <2>7. \E to : Placed(KeepEntry(f[k - 1], environ[k], overrides), to, environ, overrides, k)
    BY <2>4, <2>6, OneMoreKept
  <2>8. Good(k)
    BY <1>3, <2>4, <2>7 DEF Good
  <2> QED BY <2>2, <2>8
<1>6. Good(n)
  <2>1. n \in 0 .. n
    BY <1>1
  <2> HIDE DEF Good
  <2> QED BY <1>5, <2>1
<1> QED BY <1>3, <1>6 DEF n

\* Values to set: keys a Cut leaves whole.
Settable(overrides) ==
  /\ IsFiniteSet(DOMAIN overrides)
  /\ \A key \in DOMAIN overrides :
       /\ Sequence(key) /\ \A i \in DOMAIN key : key[i] # "eq"
       /\ Sequence(overrides[key])

\* An entry written for a key is read as that key's.
LEMMA SetEntry ==
  ASSUME NEW overrides, Settable(overrides), NEW key \in DOMAIN overrides
  PROVE  LET item == Assigned(key, overrides[key]) IN
           EqualsAt(item) # {} /\ CutKey(item) = key /\ CutValue(item) = overrides[key]
BY AssignedCut DEF Settable

\* The entries mergeEnv appends.
LEMMA AppendedEntries ==
  ASSUME NEW overrides, Settable(overrides), NEW keys, keys \subseteq DOMAIN overrides
  PROVE  LET extra == Appended(overrides, keys) IN
           /\ Sequence(extra)
           /\ \A j \in 1 .. Len(extra) :
                \E key \in keys : extra[j] = Assigned(key, overrides[key])
           /\ \A key \in keys :
                \E j \in 1 .. Len(extra) : extra[j] = Assigned(key, overrides[key])
<1> DEFINE s == SetToSeq(keys)
           n == Cardinality(keys)
           extra == Appended(overrides, keys)
<1>1. IsFiniteSet(keys)
  BY FS_Subset DEF Settable
<1>2. Sequence(s) /\ Range(s) = keys /\ Len(s) = n
  BY <1>1, SequenceOfSet
<1>3. n \in Nat /\ DOMAIN s = 1 .. n
  BY <1>2, SequenceFacts
<1>4. extra = [i \in 1 .. n |-> Assigned(s[i], overrides[s[i]])]
  BY DEF Appended
<1> HIDE DEF n, s, extra
<1>5. \A i \in 1 .. n : extra[i] = Assigned(s[i], overrides[s[i]]) /\ s[i] \in keys
  BY <1>2, <1>3, <1>4 DEF Range
<1>6. DOMAIN extra = 1 .. n /\ extra = [k \in 1 .. n |-> extra[k]]
  BY <1>4
<1>7. Sequence(extra) /\ Len(extra) = n
  BY <1>3, <1>6, Listed
<1>8. \A key \in keys : \E j \in 1 .. n : s[j] = key
  BY <1>2, <1>3 DEF Range
<1> QED BY <1>5, <1>7, <1>8 DEF extra

\* An entry of the process that mergeEnv keeps, under the values it sets.
LEMMA KeptEntry ==
  ASSUME NEW overrides, Settable(overrides), NEW item, EqualsAt(item) # {}
  PROVE  LET new == Replaced(item, overrides) IN
           /\ EqualsAt(new) # {} /\ CutKey(new) = CutKey(item)
           /\ CutKey(item) \in DOMAIN overrides => CutValue(new) = overrides[CutKey(item)]
           /\ CutKey(item) \notin DOMAIN overrides => new = item
<1>1. CASE CutKey(item) \in DOMAIN overrides
  <2>1. Replaced(item, overrides) = Assigned(CutKey(item), overrides[CutKey(item)])
    BY <1>1 DEF Replaced
  <2> QED BY <1>1, <2>1, SetEntry
<1>2. CASE CutKey(item) \notin DOMAIN overrides
  BY <1>2 DEF Replaced
<1> QED BY <1>1, <1>2

\* What the environment of a session is.
Merged(child, environ, overrides) ==
  LET keys == DOMAIN overrides others == Others(child, keys)
  IN /\ \A j \in EntriesOf(child, keys) : CutValue(child[j]) = overrides[CutKey(child[j])]
     /\ \A key \in keys : EntriesOf(child, {key}) # {}
     /\ \E at \in [others -> Others(environ, keys)] :
          /\ {at[j] : j \in others} = Others(environ, keys)
          /\ \A j, k \in others : j < k => at[j] < at[k]
          /\ \A j \in others : child[j] = environ[at[j]]

\* mergeEnv makes one.
LEMMA MergeMerges ==
  ASSUME NEW environ, Sequence(environ), NEW overrides, Settable(overrides)
  PROVE  /\ Sequence(mergeEnv(environ, overrides))
         /\ Merged(mergeEnv(environ, overrides), environ, overrides)
<1> DEFINE keys == DOMAIN overrides
           kept == Kept(environ, overrides)
           added == keys \ Seen(environ)
           extra == Appended(overrides, added)
           child == kept \o extra
           n == Len(environ)
           l == Len(kept)
           m == Len(extra)
<1>1. n \in Nat /\ DOMAIN environ = 1 .. n
  BY SequenceFacts
<1>2. PICK at : Placed(kept, at, environ, overrides, n)
  BY KeptPlaced
<1>3. /\ Sequence(kept)
      /\ {at[j] : j \in 1 .. l} = {i \in 1 .. n : EqualsAt(environ[i]) # {}}
      /\ \A i, j \in 1 .. l : i < j => at[i] < at[j]
      /\ \A j \in 1 .. l : kept[j] = Replaced(environ[at[j]], overrides)
  BY <1>2 DEF Placed
<1>4. /\ Sequence(extra)
      /\ \A j \in 1 .. m : \E key \in added : extra[j] = Assigned(key, overrides[key])
      /\ \A key \in added : \E j \in 1 .. m : extra[j] = Assigned(key, overrides[key])
  <2>1. added \subseteq DOMAIN overrides
    OBVIOUS
  <2> HIDE DEF added, keys
  <2> QED BY <2>1, AppendedEntries
<1>5. child = mergeEnv(environ, overrides)
  BY DEF mergeEnv
<1>6. \A key \in added : key \in keys /\ key \notin Seen(environ)
  OBVIOUS
<1>7. \A key \in keys : key \in added \/ key \in Seen(environ)
  OBVIOUS
<1> HIDE DEF kept, extra, added, keys
<1>8. /\ Sequence(child) /\ Len(child) = Len(kept) + Len(extra)
      /\ \A j \in 1 .. Len(kept) : child[j] = kept[j]
      /\ \A j \in 1 .. Len(extra) : child[Len(kept) + j] = extra[j]
      /\ Range(child) = Range(kept) \cup Range(extra)
  BY <1>3, <1>4, Concatenated
<1>9. l \in Nat /\ m \in Nat /\ DOMAIN child = 1 .. Len(child)
  BY <1>3, <1>4, <1>8, SequenceFacts
<1> HIDE DEF child, l, m, n
<1>10. /\ DOMAIN child = 1 .. l + m
       /\ \A j \in 1 .. l : child[j] = kept[j]
       /\ \A j \in 1 .. m : child[l + j] = extra[j]
  BY <1>8, <1>9 DEF l, m
<1>11. \A j \in 1 .. l + m : j \in 1 .. l \/ \E i \in 1 .. m : j = l + i
  <2> TAKE j \in 1 .. l + m
  <2> SUFFICES ASSUME j \notin 1 .. l PROVE \E i \in 1 .. m : j = l + i
    OBVIOUS
  <2>1. j - l \in 1 .. m /\ j = l + (j - l)
    BY <1>9
  <2> QED BY <2>1
<1>12. \A j \in 1 .. l : /\ at[j] \in DOMAIN environ /\ EqualsAt(environ[at[j]]) # {}
                         /\ j \in DOMAIN child
  <2> TAKE j \in 1 .. l
  <2>1. at[j] \in {i \in 1 .. n : EqualsAt(environ[i]) # {}}
    BY <1>3
  <2>2. j \in 1 .. l + m
    BY <1>9
  <2> QED BY <1>1, <1>10, <2>1, <2>2
<1>13. ASSUME NEW j \in 1 .. l
       PROVE  /\ EqualsAt(child[j]) # {} /\ CutKey(child[j]) = CutKey(environ[at[j]])
              /\ CutKey(child[j]) \in keys => CutValue(child[j]) = overrides[CutKey(child[j])]
              /\ CutKey(child[j]) \notin keys => child[j] = environ[at[j]]
  <2> DEFINE item == environ[at[j]]
  <2>1. child[j] = Replaced(item, overrides) /\ EqualsAt(item) # {}
    BY <1>3, <1>10, <1>12
  <2> HIDE DEF item
  <2>2. /\ EqualsAt(child[j]) # {} /\ CutKey(child[j]) = CutKey(item)
        /\ CutKey(item) \in keys => CutValue(child[j]) = overrides[CutKey(item)]
        /\ CutKey(item) \notin keys => child[j] = item
    BY <2>1, KeptEntry DEF keys
  <2> QED BY <2>2 DEF item
<1>14. ASSUME NEW j \in 1 .. m
       PROVE  /\ EqualsAt(child[l + j]) # {} /\ CutKey(child[l + j]) \in keys
              /\ CutValue(child[l + j]) = overrides[CutKey(child[l + j])]
  <2>1. PICK key \in added : extra[j] = Assigned(key, overrides[key])
    BY <1>4 DEF m
  <2>2. child[l + j] = Assigned(key, overrides[key])
    BY <1>10, <2>1
  <2> QED BY <1>6, <2>1, <2>2, SetEntry DEF keys
<1>15. \A j \in EntriesOf(child, keys) : CutValue(child[j]) = overrides[CutKey(child[j])]
  <2> TAKE j \in EntriesOf(child, keys)
  <2>1. j \in 1 .. l + m /\ CutKey(child[j]) \in keys
    BY <1>10 DEF EntriesOf, Entries
  <2> QED BY <1>11, <1>13, <1>14, <2>1
<1>16. ASSUME NEW key \in keys PROVE EntriesOf(child, {key}) # {}
  <2>1. CASE key \in Seen(environ)
    <3>1. PICK i \in DOMAIN environ : EqualsAt(environ[i]) # {} /\ CutKey(environ[i]) = key
      BY <2>1 DEF Seen, Entries
    <3>2. PICK j \in 1 .. l : at[j] = i
      BY <1>1, <1>3, <3>1
    <3>3. j \in EntriesOf(child, {key})
      BY <1>12, <1>13, <3>1, <3>2 DEF EntriesOf, Entries
    <3> QED BY <3>3
  <2>2. CASE key \in added
    <3>1. PICK j \in 1 .. m : extra[j] = Assigned(key, overrides[key])
      BY <1>4, <2>2 DEF m
    <3>2. child[l + j] = Assigned(key, overrides[key]) /\ l + j \in DOMAIN child
      BY <1>9, <1>10, <3>1
    <3>3. EqualsAt(child[l + j]) # {} /\ CutKey(child[l + j]) = key
      BY <3>2, SetEntry DEF keys
    <3>4. l + j \in EntriesOf(child, {key})
      BY <3>2, <3>3 DEF EntriesOf, Entries
    <3> QED BY <3>4
  <2> QED BY <1>7, <2>1, <2>2
<1>17. \A j : j \in Others(child, keys) <=> j \in 1 .. l /\ CutKey(child[j]) \notin keys
  <2> TAKE j
  <2>1. ASSUME j \in Others(child, keys) PROVE j \in 1 .. l /\ CutKey(child[j]) \notin keys
    <3>1. j \in 1 .. l + m /\ CutKey(child[j]) \notin keys
      BY <1>10, <2>1 DEF Others, Entries, EntriesOf
    <3> QED BY <1>11, <1>14, <3>1
  <2>2. ASSUME j \in 1 .. l, CutKey(child[j]) \notin keys PROVE j \in Others(child, keys)
    BY <1>12, <1>13, <2>2 DEF Others, Entries, EntriesOf
  <2> QED BY <2>1, <2>2
<1>18. \A i : i \in Others(environ, keys) <=>
                i \in DOMAIN environ /\ EqualsAt(environ[i]) # {} /\ CutKey(environ[i]) \notin keys
  BY DEF Others, Entries, EntriesOf
<1> DEFINE O == Others(child, keys)
           P == Others(environ, keys)
           from == [j \in O |-> at[j]]
<1>19. \A j \in O : at[j] \in P /\ child[j] = environ[at[j]]
  BY <1>12, <1>13, <1>17, <1>18
<1>20. \A i \in P : \E j \in O : at[j] = i
  <2> TAKE i \in P
  <2>1. PICK j \in 1 .. l : at[j] = i
    BY <1>1, <1>3, <1>18
  <2>2. j \in O
    BY <1>13, <1>17, <1>18, <2>1
  <2> QED BY <2>1, <2>2
<1>21. \A j, k \in O : j < k => at[j] < at[k]
  BY <1>3, <1>17
<1> HIDE DEF O, P
<1>22. /\ from \in [O -> P]
       /\ {from[j] : j \in O} = P
       /\ \A j, k \in O : j < k => from[j] < from[k]
       /\ \A j \in O : child[j] = environ[from[j]]
  BY <1>19, <1>20, <1>21
<1> HIDE DEF from
<1>23. Merged(child, environ, overrides)
  BY <1>15, <1>16, <1>22 DEF Merged, O, P, keys
<1> QED BY <1>5, <1>8, <1>23

\* The environment a session is opened with.
Opened(ds, environ, child) ==
  LET keys == DeclaredKeys(ds) others == Others(child, keys)
  IN /\ \A key \in keys :
          LET found == EntriesOf(child, {key})
          IN found # {} /\ CutValue(child[Max(found)]) = LastValue(ds, key)
     /\ \A j \in EntriesOf(child, keys) :
          CutValue(child[j]) = LastValue(ds, CutKey(child[j]))
     /\ \E at \in [others -> Others(environ, keys)] :
          /\ {at[j] : j \in others} = Others(environ, keys)
          /\ \A j, k \in others : j < k => at[j] < at[k]
          /\ \A j \in others : child[j] = environ[at[j]]

\* mergeEnv of what parseSessionEnv returns is one.
LEMMA SessionOpened ==
  ASSUME NEW ds, Sequence(ds), \A i \in DOMAIN ds : WellFormed(ds[i]),
         NEW environ, Sequence(environ), ~parseSessionEnv(Printed(ds)).failed
  PROVE  Opened(ds, environ, mergeEnv(environ, parseSessionEnv(Printed(ds)).env))
<1> DEFINE env == parseSessionEnv(Printed(ds)).env
           child == mergeEnv(environ, env)
           keys == DeclaredKeys(ds)
           n == Len(ds)
<1>1. DOMAIN env = keys /\ \A key \in keys : env[key] = LastValue(ds, key)
  BY Parsed
<1>2. n \in Nat /\ DOMAIN ds = 1 .. n
  BY SequenceFacts
<1> HIDE DEF env, keys, n
<1>3. Settable(env)
  <2>1. IsFiniteSet(keys)
    <3>1. keys = {ds[i].key : i \in 1 .. n}
      BY <1>2 DEF keys, DeclaredKeys
    <3>2. IsFiniteSet(1 .. n)
      BY <1>2, FS_Interval
    <3> DEFINE KeyOf == [i \in 1 .. n |-> ds[i].key]
    <3>3. KeyOf \in Surjection(1 .. n, keys)
      BY <3>1 DEF Surjection
    <3> HIDE DEF KeyOf
    <3> QED BY <3>2, <3>3, FS_Surjection
  <2>2. ASSUME NEW key \in keys
        PROVE  /\ Sequence(key) /\ \A i \in DOMAIN key : key[i] # "eq"
               /\ Sequence(env[key])
    <3> DEFINE T == {i \in DOMAIN ds : ds[i].key = key}
               last == Max(T)
    <3>1. T \subseteq 1 .. n /\ T # {}
      BY <1>2, <2>2 DEF keys, DeclaredKeys
    <3>2. last \in T
      <4> HIDE DEF T
      <4> QED BY <1>2, <3>1, MaxIsGreatest
    <3> HIDE DEF last
    <3>3. WellFormed(ds[last]) /\ ds[last].key = key
      BY <3>2
    <3>4. env[key] = ds[last].value
      BY <1>1, <2>2 DEF LastValue, last
    <3> QED BY <3>3, <3>4, KeyChars DEF WellFormed
  <2> QED BY <1>1, <2>1, <2>2 DEF Settable
<1>4. Sequence(child) /\ Merged(child, environ, env)
  BY <1>3, MergeMerges
<1> HIDE DEF child
<1>5. /\ \A j \in EntriesOf(child, keys) : CutValue(child[j]) = env[CutKey(child[j])]
      /\ \A key \in keys : EntriesOf(child, {key}) # {}
      /\ \E at \in [Others(child, keys) -> Others(environ, keys)] :
           /\ {at[j] : j \in Others(child, keys)} = Others(environ, keys)
           /\ \A j, k \in Others(child, keys) : j < k => at[j] < at[k]
           /\ \A j \in Others(child, keys) : child[j] = environ[at[j]]
  BY <1>1, <1>4 DEF Merged
<1>6. \A j \in EntriesOf(child, keys) : CutValue(child[j]) = LastValue(ds, CutKey(child[j]))
  <2> TAKE j \in EntriesOf(child, keys)
  <2>1. CutKey(child[j]) \in keys
    BY DEF EntriesOf, Entries
  <2> QED BY <1>1, <1>5, <2>1
<1>7. ASSUME NEW key \in keys
      PROVE  CutValue(child[Max(EntriesOf(child, {key}))]) = LastValue(ds, key)
  <2> DEFINE T == EntriesOf(child, {key})
             last == Max(T)
  <2>1. Len(child) \in Nat /\ T \subseteq 1 .. Len(child) /\ T # {}
    BY <1>4, <1>5, SequenceFacts DEF EntriesOf, Entries
  <2>2. last \in T
    <3> HIDE DEF T
    <3> QED BY <2>1, MaxIsGreatest
  <2> HIDE DEF last
  <2>3. last \in EntriesOf(child, keys) /\ CutKey(child[last]) = key
    BY <2>2 DEF EntriesOf, Entries
  <2> QED BY <1>6, <2>3 DEF last
<1> QED BY <1>5, <1>6, <1>7 DEF child, keys, env, Opened

-----------------------------------------------------------------------------

\* Begin alone establishes the two properties.
EnvInv == EnvAsDeclared /\ OuterEnvHidden

\* Begin opens a session with it, or fails for one of the reasons given.
LEMMA BeginEnv == Begin => EnvInv'
<1> SUFFICES ASSUME Begin PROVE EnvInv'
  OBVIOUS
<1>1. PICK ds \in Declarations, environ \in BaseEnvs :
        LET got == parseSessionEnv(Printed(ds)) IN
        /\ \A i \in DOMAIN ds : Printable(ds[i])
        /\ declared' = ds /\ base' = environ
        /\ IF got.failed
           THEN phase' = "not_opened" /\ UNCHANGED childEnv
           ELSE phase' = "opened" /\ childEnv' = mergeEnv(environ, got.env)
  BY DEF Begin
<1>2. Sequence(ds) /\ Sequence(environ)
  <2>1. /\ ds \in Seq([before : Seq(EnvChar), key : Seq(EnvChar), value : Seq(EnvChar),
                       style : {"bare", "single", "double", "escaped"}])
        /\ environ \in Seq(Seq(EnvChar))
    BY EnvAssumption
  <2> QED BY <2>1, SequenceOfAny
<1>3. ASSUME NEW i \in DOMAIN ds PROVE WellFormed(ds[i])
  <2> DEFINE R == [before : Seq(EnvChar), key : Seq(EnvChar), value : Seq(EnvChar),
                   style : {"bare", "single", "double", "escaped"}]
  <2>1. HeadOK(ds[i].before) /\ envKeyOK(ds[i].key) /\ Printable(ds[i])
    BY <1>1, EnvAssumption
  <2>3. ds[i] \in R
    <3>1. ds \in Seq(R)
      BY EnvAssumption
    <3> HIDE DEF R
    <3> QED BY <3>1
  <2>2. Sequence(ds[i].before) /\ Sequence(ds[i].key) /\ Sequence(ds[i].value)
    BY <2>3, SequenceOfAny
  <2> QED BY <2>1, <2>2 DEF WellFormed
<1> DEFINE got == parseSessionEnv(Printed(ds))
<1>4. CASE got.failed
  <2>1. phase' = "not_opened" /\ declared' = ds
    BY <1>1, <1>4
  <2>2. ds = <<>> \/ \E i \in DOMAIN ds : LineBreak(ds[i].value)
    BY <1>2, <1>3, <1>4, Parsed
  <2> QED BY <2>1, <2>2 DEF EnvInv, EnvAsDeclared, OuterEnvHidden
<1>5. CASE ~got.failed
  <2> DEFINE child == mergeEnv(environ, got.env)
  <2>1. phase' = "opened" /\ declared' = ds /\ base' = environ /\ childEnv' = child
    BY <1>1, <1>5
  <2>2. Opened(ds, environ, child)
    BY <1>2, <1>3, <1>5, SessionOpened
  <2> HIDE DEF child
  <2>3. EnvAsDeclared'
    BY <2>1, <2>2 DEF EnvAsDeclared, Opened
  <2>4. OuterEnvHidden'
    BY <2>1, <2>2 DEF OuterEnvHidden, Opened
  <2> QED BY <2>3, <2>4 DEF EnvInv
<1> QED BY <1>4, <1>5

\* No other step opens one or touches its environment.
LEMMA EnvStep == EnvInv /\ [SessionNext]_<<vars, envVars>> => EnvInv'
<1> SUFFICES ASSUME EnvInv, [SessionNext]_<<vars, envVars>> PROVE EnvInv'
  OBVIOUS
<1>1. CASE UNCHANGED <<vars, envVars>>
  <2>1. phase' = phase /\ declared' = declared /\ base' = base /\ childEnv' = childEnv
    BY <1>1 DEF vars, envVars
  <2>2. EnvAsDeclared'
    BY <2>1 DEF EnvInv, EnvAsDeclared
  <2>3. OuterEnvHidden'
    BY <2>1 DEF EnvInv, OuterEnvHidden
  <2> QED BY <2>2, <2>3 DEF EnvInv
<1>2. CASE Next /\ UNCHANGED envVars
  <2>1. UNCHANGED vars \/ phase' \notin {"opened", "not_opened"}
    BY <1>2 DEF Next, Give, Render, Parse, Send, Done, vars
  <2>2. CASE UNCHANGED vars
    BY <1>1, <1>2, <2>2
  <2>3. CASE phase' \notin {"opened", "not_opened"}
    BY <2>3 DEF EnvInv, EnvAsDeclared, OuterEnvHidden
  <2> QED BY <2>1, <2>2, <2>3
<1>3. CASE Begin
  BY <1>3, BeginEnv
<1>4. CASE SessionDone
  BY <1>1, <1>4 DEF SessionDone
<1> QED BY <1>1, <1>2, <1>3, <1>4 DEF SessionNext

\* So it holds in every state.
LEMMA EnvAlways == SessionSpec => []EnvInv
<1>1. SessionInit => EnvInv
  BY DEF SessionInit, Init, EnvInv, EnvAsDeclared, OuterEnvHidden
<1> QED BY <1>1, EnvStep, PTL DEF SessionSpec

\* However the API quotes the values of the session, whatever their length and
\* whatever words come before them, the commands of the session are given the
\* last value declared of each variable.
THEOREM DeclaredReachesCommands == SessionSpec => []EnvAsDeclared
<1>1. EnvInv => EnvAsDeclared
  BY DEF EnvInv
<1> QED BY <1>1, EnvAlways, PTL

\* Whatever the environment of the process, a variable of an outer session does
\* not show through, and no other entry is lost, changed or moved.
THEOREM OuterSessionHidden == SessionSpec => []OuterEnvHidden
<1>1. EnvInv => OuterEnvHidden
  BY DEF EnvInv
<1> QED BY <1>1, EnvAlways, PTL
=============================================================================
