---------------------------- MODULE CommandProofs ----------------------------
(***************************************************************************)
(* For any documents: a command cmdlint passes is one a shell finds whole.    *)
(* cmdlint's walk keeps a quote and a depth where a shell keeps a stack of    *)
(* what is open; on an ordinary command the two stand for one another after   *)
(* every character, and so at its end.                                        *)
(***************************************************************************)
EXTENDS GatesProofs

-----------------------------------------------------------------------------
(* cmdlint                                                                   *)

\* Where the walk over a command may be, and where the shell may be.
Walks(B) == [quote : {"none", "'", "\""}, depth : Nat, escaped : BOOLEAN, ended : BOOLEAN, code : Seq(B)]
Openings == {"'", "\"", "$("}
Shells(B) == [open : Seq(Openings), escaped : BOOLEAN, comment : BOOLEAN,
              last : B \cup {"blank", "escaped"}, run : Seq(B)]

\* The walk takes a character with it unless a comment begins, and what it is.
Escapes(text, i) == text[i] = "\\" /\ i < Len(text)
BeginsRemark(text, i, s) == s.quote = "none" /\ text[i] = "#" /\ Cmd!startsWord(text, i)
WalksOn(B, text, i, s, t) ==
    /\ t \in Walks(B)
    /\ s.ended => t = s
    /\ ~s.ended /\ ~s.escaped /\ BeginsRemark(text, i, s) =>
          t.quote = s.quote /\ t.depth = s.depth /\ ~t.escaped /\ t.ended /\ t.code = s.code
    /\ ~s.ended /\ (s.escaped \/ ~BeginsRemark(text, i, s)) => ~t.ended /\ t.code = Append(s.code, text[i])
    /\ ~s.ended /\ s.escaped => t.quote = s.quote /\ t.depth = s.depth /\ ~t.escaped
    /\ ~s.ended /\ ~s.escaped /\ ~BeginsRemark(text, i, s) =>
          /\ s.quote # "'" /\ Escapes(text, i) => t.escaped
          /\ s.quote = "'" \/ ~Escapes(text, i) => ~t.escaped
          /\ t.quote = IF s.quote = "none" /\ text[i] \in {"'", "\""} THEN text[i]
                       ELSE IF s.quote \in {"'", "\""} /\ text[i] = s.quote THEN "none" ELSE s.quote
          /\ t.depth = IF s.quote # "'" /\ text[i] = "$(" THEN s.depth + 1
                       ELSE IF s.quote # "'" /\ text[i] = ")" THEN (IF s.depth > 0 THEN s.depth - 1 ELSE 0)
                       ELSE s.depth

\* One character of the walk is one of WalksOn.
LEMMA WalkSteps ==
    ASSUME NEW B, NEW text, NEW i, text[i] \in B, NEW s \in Walks(B)
    PROVE  WalksOn(B, text, i, s, Cmd!Step(text, s, i))
<1> DEFINE t == Cmd!Step(text, s, i)
           escapes == Escapes(text, i)
           begins == BeginsRemark(text, i, s)
<1>a. SUFFICES /\ t \in Walks(B)
               /\ s.ended => t = s
               /\ ~s.ended /\ ~s.escaped /\ begins =>
                     t.quote = s.quote /\ t.depth = s.depth /\ ~t.escaped /\ t.ended /\ t.code = s.code
               /\ ~s.ended /\ (s.escaped \/ ~begins) => ~t.ended /\ t.code = Append(s.code, text[i])
               /\ ~s.ended /\ s.escaped => t.quote = s.quote /\ t.depth = s.depth /\ ~t.escaped
               /\ ~s.ended /\ ~s.escaped /\ ~begins =>
                     /\ s.quote # "'" /\ escapes => t.escaped
                     /\ s.quote = "'" \/ ~escapes => ~t.escaped
                     /\ t.quote = IF s.quote = "none" /\ text[i] \in {"'", "\""} THEN text[i]
                                  ELSE IF s.quote \in {"'", "\""} /\ text[i] = s.quote THEN "none" ELSE s.quote
                     /\ t.depth = IF s.quote # "'" /\ text[i] = "$(" THEN s.depth + 1
                                  ELSE IF s.quote # "'" /\ text[i] = ")" THEN (IF s.depth > 0 THEN s.depth - 1 ELSE 0)
                                  ELSE s.depth
    BY Zenon DEF WalksOn
<1>b. /\ t = Cmd!Step(text, s, i) /\ escapes = (text[i] = "\\" /\ i < Len(text))
      /\ begins = (s.quote = "none" /\ text[i] = "#" /\ Cmd!startsWord(text, i))
    BY Zenon DEF Escapes, BeginsRemark
<1> HIDE DEF t, escapes, begins
<1> USE <1>b
<1> DEFINE ch == text[i]
           u == [s EXCEPT !.code = Append(@, ch)]
           word == Cmd!startsWord(text, i)
<1>1. Cmd!Step(text, s, i) =
          IF s.ended THEN s ELSE IF s.escaped THEN [u EXCEPT !.escaped = FALSE] ELSE
          CASE s.quote = "'" -> IF ch = "'" THEN [u EXCEPT !.quote = "none"] ELSE u
            [] s.quote # "'" /\ (ch = "\\" /\ i < Len(text)) -> [u EXCEPT !.escaped = TRUE]
            [] s.quote # "'" /\ ch = "$(" -> Cmd!Opens(u)
            [] s.quote # "'" /\ ch = ")" -> Cmd!Closes(u)
            [] s.quote = "\"" /\ ch = "\"" -> [u EXCEPT !.quote = "none"]
            [] s.quote = "none" /\ ch \in {"'", "\""} -> [u EXCEPT !.quote = ch]
            [] s.quote = "none" /\ ch = "#" /\ word -> [s EXCEPT !.ended = TRUE]
            [] OTHER -> u
    BY DEF Cmd!Step
<1> DEFINE app == Append(s.code, ch)
<1>2. app \in Seq(B)
    <2>1. s.code \in Seq(B) /\ ch \in B
        BY DEF Walks
    <2> DEFINE code == s.code
    <2> HIDE DEF ch, code
    <2>2. Append(code, ch) \in Seq(B)
        BY <2>1 DEF code
    <2>3. QED
        BY <2>2 DEF code
<1> HIDE DEF app
<1>3. u = [s EXCEPT !.code = app]
    BY DEF app, Walks
<1>4. /\ u \in Walks(B) /\ u.quote = s.quote /\ u.depth = s.depth /\ u.escaped = s.escaped /\ u.ended = s.ended
      /\ u.code = app
    BY <1>2, <1>3 DEF Walks
<1> HIDE DEF u, ch, word
<1>5. CASE s.ended
    BY <1>1, <1>5
<1>6. CASE ~s.ended /\ s.escaped
    <2>1. t = [u EXCEPT !.escaped = FALSE]
        BY <1>1, <1>6
    <2>2. t \in Walks(B) /\ t.quote = s.quote /\ t.depth = s.depth /\ ~t.escaped /\ ~t.ended /\ t.code = app
        BY <1>4, <1>6, <2>1 DEF Walks
    <2>3. QED
        BY <1>6, <2>2 DEF app, ch
<1>7. CASE ~s.ended /\ ~s.escaped /\ s.quote = "'"
    <2>1. t = IF ch = "'" THEN [u EXCEPT !.quote = "none"] ELSE u
        BY <1>1, <1>7
    <2>2. /\ t \in Walks(B) /\ t.quote = (IF ch = "'" THEN "none" ELSE s.quote) /\ t.depth = s.depth
          /\ ~t.escaped /\ ~t.ended /\ t.code = app
        BY <1>4, <1>7, <2>1 DEF Walks
    <2>3. ~begins
        BY <1>7
    <2>4. QED
        BY <1>7, <2>2, <2>3 DEF app, ch
<1>8. CASE ~s.ended /\ ~s.escaped /\ s.quote # "'" /\ ch = "\\" /\ i < Len(text)
    <2>1. t = [u EXCEPT !.escaped = TRUE]
        BY <1>1, <1>8
    <2>2. t \in Walks(B) /\ t.quote = s.quote /\ t.depth = s.depth /\ t.escaped = TRUE /\ ~t.ended /\ t.code = app
        BY <1>4, <1>8, <2>1 DEF Walks
    <2>3. ~begins /\ escapes
        BY <1>8 DEF ch
    <2>4. QED
        BY <1>8, <2>2, <2>3 DEF app, ch
<1>9. CASE ~s.ended /\ ~s.escaped /\ s.quote # "'" /\ ch = "$("
    <2>1. t = [u EXCEPT !.depth = u.depth + 1]
        BY <1>1, <1>9 DEF Cmd!Opens
    <2>2. t \in Walks(B) /\ t.quote = s.quote /\ t.depth = s.depth + 1 /\ ~t.escaped /\ ~t.ended /\ t.code = app
        <3> DEFINE d == u.depth + 1
        <3>1. d \in Nat /\ d = s.depth + 1
            <4>1. s.depth \in Nat /\ u.depth = s.depth
                BY <1>4 DEF Walks
            <4>2. QED
                BY <4>1
        <3>0. t = [u EXCEPT !.depth = d]
            BY <2>1
        <3> HIDE DEF d
        <3>2. QED
            BY <1>4, <1>9, <3>0, <3>1 DEF Walks
    <2>3. ~begins /\ ~escapes
        BY <1>9 DEF ch
    <2>4. QED
        BY <1>9, <2>2, <2>3 DEF app, ch, Walks
<1>10. CASE ~s.ended /\ ~s.escaped /\ s.quote # "'" /\ ch = ")"
    <2>1. t = [u EXCEPT !.depth = IF u.depth > 0 THEN u.depth - 1 ELSE 0]
        BY <1>1, <1>10 DEF Cmd!Closes
    <2>2. /\ t \in Walks(B) /\ t.quote = s.quote /\ t.depth = (IF s.depth > 0 THEN s.depth - 1 ELSE 0)
          /\ ~t.escaped /\ ~t.ended /\ t.code = app
        <3> DEFINE d == IF u.depth > 0 THEN u.depth - 1 ELSE 0
        <3>1. d \in Nat /\ d = (IF s.depth > 0 THEN s.depth - 1 ELSE 0)
            <4>1. s.depth \in Nat /\ u.depth = s.depth
                BY <1>4 DEF Walks
            <4>2. QED
                BY <4>1
        <3>0. t = [u EXCEPT !.depth = d]
            BY <2>1
        <3> HIDE DEF d
        <3>2. QED
            BY <1>4, <1>10, <3>0, <3>1 DEF Walks
    <2>3. ~begins /\ ~escapes
        BY <1>10 DEF ch
    <2>4. QED
        BY <1>10, <2>2, <2>3 DEF app, ch, Walks
<1>11. CASE ~s.ended /\ ~s.escaped /\ s.quote = "\"" /\ ch = "\""
    <2>1. t = [u EXCEPT !.quote = "none"]
        BY <1>1, <1>11
    <2>2. t \in Walks(B) /\ t.quote = "none" /\ t.depth = s.depth /\ ~t.escaped /\ ~t.ended /\ t.code = app
        BY <1>4, <1>11, <2>1 DEF Walks
    <2>3. ~begins /\ ~escapes
        BY <1>11 DEF ch
    <2>4. QED
        BY <1>11, <2>2, <2>3 DEF app, ch
<1>12. CASE ~s.ended /\ ~s.escaped /\ s.quote = "none" /\ ch \in {"'", "\""}
    <2>1. t = [u EXCEPT !.quote = ch]
        BY <1>1, <1>12
    <2>2. t \in Walks(B) /\ t.quote = ch /\ t.depth = s.depth /\ ~t.escaped /\ ~t.ended /\ t.code = app
        BY <1>4, <1>12, <2>1 DEF Walks
    <2>3. ~begins /\ ~escapes
        BY <1>12 DEF ch
    <2>4. QED
        BY <1>12, <2>2, <2>3 DEF app, ch
<1>13. CASE ~s.ended /\ ~s.escaped /\ begins
    <2>1. t = [s EXCEPT !.ended = TRUE]
        BY <1>1, <1>13 DEF ch, word
    <2>2. t \in Walks(B) /\ t.quote = s.quote /\ t.depth = s.depth /\ ~t.escaped /\ t.ended = TRUE /\ t.code = s.code
        BY <1>13, <2>1 DEF Walks
    <2>3. QED
        BY <1>13, <2>2
<1>14. CASE /\ ~s.ended /\ ~s.escaped /\ s.quote # "'" /\ ~(ch = "\\" /\ i < Len(text))
            /\ ch \notin {"$(", ")"} /\ ~(s.quote = "\"" /\ ch = "\"") /\ ~(s.quote = "none" /\ ch \in {"'", "\""})
            /\ ~begins
    <2>1. t = u
        BY <1>1, <1>14 DEF ch, word
    <2>2. ~escapes
        BY <1>14 DEF ch
    <2>3. t \in Walks(B) /\ t.quote = s.quote /\ t.depth = s.depth /\ ~t.escaped /\ ~t.ended /\ t.code = app
        BY <1>4, <1>14, <2>1
    <2>4. s.quote \in {"none", "\""}
        BY <1>14 DEF Walks
    <2>5. QED
        BY <1>14, <2>2, <2>3, <2>4 DEF app, ch
<1> QED
    BY <1>5, <1>6, <1>7, <1>8, <1>9, <1>10, <1>11, <1>12, <1>13, <1>14

\* The two quotes, by names of their own.
SingleQuote == "'"
DoubleQuote == "\""

\* The quotes are two, and neither is what else is read.
LEMMA QuotesDiffer ==
    /\ SingleQuote # DoubleQuote /\ SingleQuote # "none" /\ DoubleQuote # "none"
    /\ SingleQuote # "$(" /\ DoubleQuote # "$(" /\ SingleQuote # ")" /\ DoubleQuote # ")"
BY Zenon DEF SingleQuote, DoubleQuote

\* What the shell takes a character for, by what it stands in.
Pushes(ch, top) == (ch \in {SingleQuote, DoubleQuote} /\ top \in {"none", "$("}) \/ (ch = "$(" /\ top # SingleQuote)
Pops(ch, top) == (ch \in {SingleQuote, DoubleQuote} /\ ch = top) \/ (ch = ")" /\ top = "$(")
Inmost(o) == IF o = <<>> THEN "none" ELSE Last(o)
Opened(ch, o) == IF Pushes(ch, Inmost(o)) THEN Append(o, ch) ELSE IF Pops(ch, Inmost(o)) THEN Front(o) ELSE o

\* What is open, by the names it has here.
LEMMA NestsOpens ==
    ASSUME NEW h, NEW ch
    PROVE  Cmd!Nests(h, ch) = Opened(ch, h.open)
<1> DEFINE o == h.open
           top == Inmost(o)
<1>1. Cmd!Top(h) = top /\ (Cmd!InWords(h) <=> top \in {"none", "$("})
    BY Zenon DEF Cmd!Top, Cmd!InWords, Cmd!Last, Last, Inmost
<1>2. Cmd!Nests(h, ch) =
          CASE ch \in {"'", "\""} /\ top \in {"none", "$("} -> Append(o, ch)
            [] ch = "$(" /\ top # "'" -> Append(o, ch)
            [] ch \in {"'", "\""} /\ ch = top -> Front(o)
            [] ch = ")" /\ top = "$(" -> Front(o)
            [] OTHER -> o
    BY <1>1 DEF Cmd!Nests, Cmd!Front, Front
<1> HIDE DEF o, top
<1> DEFINE p == Pushes(ch, top)
           r == Pops(ch, top)
<1>3. CASE p
    BY <1>2, <1>3 DEF SingleQuote, DoubleQuote, Pushes, Opened, top, o
<1>4. CASE ~p /\ r
    BY <1>2, <1>4 DEF SingleQuote, DoubleQuote, Pushes, Pops, Opened, top, o
<1>5. CASE ~p /\ ~r
    BY <1>2, <1>5 DEF SingleQuote, DoubleQuote, Pushes, Pops, Opened, top, o
<1> QED
    BY <1>3, <1>4, <1>5

\* The shell opens, closes, escapes or begins a comment, and which it is.
Remarks(text, i, h) == Inmost(h.open) \in {"none", "$("} /\ text[i] = "#" /\ Cmd!AtWord(h)
ReadsOn(B, text, i, h, g) ==
    /\ g \in Shells(B)
    /\ h.comment => g = h
    /\ ~h.comment /\ h.escaped =>
          g.open = h.open /\ ~g.escaped /\ ~g.comment /\ g.last = "escaped" /\ g.run = <<>>
    /\ ~h.comment /\ ~h.escaped /\ Remarks(text, i, h) =>
          g.open = h.open /\ ~g.escaped /\ g.comment /\ g.run = h.run
    /\ ~h.comment /\ ~h.escaped /\ ~Remarks(text, i, h) =>
          /\ ~g.comment /\ g.open = Opened(text[i], h.open)
          /\ Inmost(h.open) # SingleQuote /\ Escapes(text, i) => g.escaped
          /\ Inmost(h.open) = SingleQuote \/ ~Escapes(text, i) => ~g.escaped
          /\ g.last = text[i] /\ g.run = Cmd!Standing(h, text[i])

\* One character of the shell is one of ReadsOn.
LEMMA ShellSteps ==
    ASSUME NEW B, NEW text, NEW i, text[i] \in B, text[i] # "joined", NEW h \in Shells(B)
    PROVE  ReadsOn(B, text, i, h, Cmd!Reads(text, h, i))
<1> DEFINE g == Cmd!Reads(text, h, i)
           ch == text[i]
           o == Opened(ch, h.open)
           e == ch = "\\" /\ Inmost(h.open) # "'" /\ i < Len(text)
           r == Cmd!Standing(h, ch)
           begins == Remarks(text, i, h)
<1>1. g = IF h.comment THEN h
          ELSE IF h.escaped THEN [h EXCEPT !.escaped = FALSE, !.last = "escaped", !.run = <<>>]
          ELSE IF begins THEN [h EXCEPT !.comment = TRUE]
          ELSE [h EXCEPT !.open = o, !.last = ch, !.run = r, !.escaped = e]
    <2>1. Cmd!Top(h) = Inmost(h.open) /\ (Cmd!InWords(h) <=> Inmost(h.open) \in {"none", "$("})
        BY Zenon DEF Cmd!Top, Cmd!InWords, Cmd!Last, Last, Inmost
    <2>2. Cmd!Nests(h, ch) = o
        BY NestsOpens
    <2>3. (ch = "#" /\ Cmd!InWords(h) /\ Cmd!AtWord(h)) = begins
        BY <2>1, Zenon DEF Remarks
    <2> HIDE DEF o, r, begins
    <2>4. QED
        BY <2>1, <2>2, <2>3 DEF Cmd!Reads, r
<1>2. o \in Seq(Openings)
    <2> DEFINE p == h.open
    <2>1. p \in Seq(Openings)
        BY DEF Shells
    <2> HIDE DEF p, ch
    <2>2. Pushes(ch, Inmost(p)) => ch \in Openings
        BY DEF SingleQuote, DoubleQuote, Pushes, Openings
    <2>3. ch \in Openings => Append(p, ch) \in Seq(Openings)
        BY <2>1
    <2>4. Pops(ch, Inmost(p)) => p # <<>>
        BY DEF SingleQuote, DoubleQuote, Pops, Inmost
    <2>5. p # <<>> => Front(p) \in Seq(Openings)
        BY <2>1, Ends
    <2>6. Opened(ch, p) \in Seq(Openings)
        BY <2>1, <2>2, <2>3, <2>4, <2>5, Zenon DEF Opened
    <2>7. QED
        BY <2>6 DEF p
<1>3. r \in Seq(B)
    <2> DEFINE v == h.run
    <2>1. v \in Seq(B) /\ ch \in B
        BY DEF Shells
    <2> HIDE DEF v, ch
    <2>2. v \in Seq(B) /\ <<>> \in Seq(B) /\ <<ch>> \in Seq(B) /\ Append(v, ch) \in Seq(B)
        BY <2>1
    <2>3. r = CASE ch = "blank" -> v
                [] ch \in Cmd!Operators -> IF h.last = "blank" THEN <<ch>> ELSE Append(v, ch)
                [] OTHER -> <<>>
        BY Zenon DEF r, Cmd!Standing, v
    <2> HIDE DEF r
    <2>4. QED
        BY <2>2, <2>3
<1>4. e \in BOOLEAN /\ <<>> \in Seq(B) /\ ch \in B
    OBVIOUS
<1>5. (Inmost(h.open) # SingleQuote /\ Escapes(text, i) => e) /\ (Inmost(h.open) = SingleQuote \/ ~Escapes(text, i) => ~e)
    BY Zenon DEF SingleQuote, Escapes
<1> HIDE DEF g, ch, o, e, r, begins
<1>6. CASE h.comment
    BY <1>1, <1>6, Zenon DEF ReadsOn, g
<1>7. CASE ~h.comment /\ h.escaped
    <2>1. /\ g \in Shells(B)
          /\ g.open = h.open /\ ~g.escaped /\ ~g.comment /\ g.last = "escaped" /\ g.run = <<>>
        BY <1>1, <1>4, <1>7 DEF Shells
    <2>2. QED
        BY <1>7, <2>1, Zenon DEF ReadsOn, g
<1>8. CASE ~h.comment /\ ~h.escaped /\ begins
    <2>1. g \in Shells(B) /\ g.open = h.open /\ ~g.escaped /\ g.comment /\ g.run = h.run
        BY <1>1, <1>8 DEF Shells
    <2>2. QED
        BY <1>8, <2>1, Zenon DEF ReadsOn, g, begins
<1>9. CASE ~h.comment /\ ~h.escaped /\ ~begins
    <2>1. /\ g \in Shells(B)
          /\ g.open = o /\ g.escaped = e /\ ~g.comment /\ g.last = ch /\ g.run = r
        BY <1>1, <1>2, <1>3, <1>4, <1>9 DEF Shells
    <2>2. QED
        BY <1>5, <1>9, <2>1, Zenon DEF ReadsOn, g, begins, ch, o, r
<1> QED
    BY <1>6, <1>7, <1>8, <1>9

\* What the walk takes the same character for.
Quoted(ch, q) == IF q = "none" /\ ch \in {SingleQuote, DoubleQuote} THEN ch
                 ELSE IF q \in {SingleQuote, DoubleQuote} /\ ch = q THEN "none" ELSE q
Nested(ch, q, d) == IF q # SingleQuote /\ ch = "$(" THEN d + 1
                    ELSE IF q # SingleQuote /\ ch = ")" THEN (IF d > 0 THEN d - 1 ELSE 0)
                    ELSE d

\* The one quote and the one depth stand for a stack of substitutions, with the
\* quote on top or, when it is double, below the one on top.
Outside(q, d, o) == q = "none" /\ d = Len(o) /\ \A k \in 1..Len(o) : o[k] = "$("
OnTop(q, d, o) ==
    /\ q \in {SingleQuote, DoubleQuote} /\ Len(o) >= 1 /\ o[Len(o)] = q /\ d = Len(o) - 1
    /\ \A k \in 1..(Len(o) - 1) : o[k] = "$("
Below(q, d, o) ==
    /\ q = DoubleQuote /\ Len(o) >= 2 /\ o[Len(o) - 1] = DoubleQuote /\ o[Len(o)] = "$(" /\ d = Len(o) - 1
    /\ \A k \in 1..(Len(o) - 2) : o[k] = "$("
Stands(q, d, o) == Outside(q, d, o) \/ OnTop(q, d, o) \/ Below(q, d, o)

\* What Ordinary keeps out.
Buried(o) == \E j, k \in 1..Len(o) : j < k /\ o[j] = DoubleQuote /\ o[k] = "$(" /\ k < Len(o)

\* Push and pop, by their places.
LEMMA StackPlaces ==
    ASSUME NEW o \in Seq(Openings)
    PROVE  /\ Len(o) \in Nat
           /\ o = <<>> <=> Len(o) = 0
           /\ Inmost(o) = IF Len(o) = 0 THEN "none" ELSE o[Len(o)]
           /\ \A ch \in Openings : /\ Len(Append(o, ch)) = Len(o) + 1 /\ Append(o, ch)[Len(o) + 1] = ch
                                   /\ \A k \in 1..Len(o) : Append(o, ch)[k] = o[k]
           /\ Len(o) # 0 => Len(Front(o)) = Len(o) - 1 /\ \A k \in 1..(Len(o) - 1) : Front(o)[k] = o[k]
           /\ \A k \in 1..Len(o) : o[k] \in Openings
<1>1. Len(o) \in Nat /\ (o = <<>> <=> Len(o) = 0) /\ \A k \in 1..Len(o) : o[k] \in Openings
    BY ElementOfSeq
<1>2. Inmost(o) = IF Len(o) = 0 THEN "none" ELSE o[Len(o)]
    BY <1>1 DEF Inmost, Last
<1>3. ASSUME NEW ch \in Openings
      PROVE  /\ Len(Append(o, ch)) = Len(o) + 1 /\ Append(o, ch)[Len(o) + 1] = ch
             /\ \A k \in 1..Len(o) : Append(o, ch)[k] = o[k]
    BY Ends
<1>4. Len(o) # 0 => Len(Front(o)) = Len(o) - 1 /\ \A k \in 1..(Len(o) - 1) : Front(o)[k] = o[k]
    <2>1. o # <<>> => /\ Len(Doc!Front(o)) = Len(o) - 1 /\ Front(o) = Doc!Front(o)
                      /\ \A k \in 1..(Len(o) - 1) : Doc!Front(o)[k] = o[k]
        BY Ends, Zenon
    <2>2. QED
        BY <1>1, <2>1, Zenon
<1> QED
    BY <1>1, <1>2, <1>3, <1>4

\* Outside quotes, both go on alike.
LEMMA OutsideStep ==
    ASSUME NEW o \in Seq(Openings), NEW d, NEW q, NEW ch, Outside(q, d, o)
    PROVE  Stands(Quoted(ch, q), Nested(ch, q, d), Opened(ch, o))
<1> DEFINE n == Len(o)
           a == Append(o, ch)
           f == Front(o)
<1>0. /\ n \in Nat
      /\ Inmost(o) = IF n = 0 THEN "none" ELSE o[n]
      /\ ch \in Openings => Len(a) = n + 1 /\ a[n + 1] = ch /\ \A k \in 1..n : a[k] = o[k]
      /\ n # 0 => Len(f) = n - 1 /\ \A k \in 1..(n - 1) : f[k] = o[k]
    BY StackPlaces, Zenon
<1>1. n \in Nat /\ q = "none" /\ d = n /\ (\A k \in 1..n : o[k] = "$(")
    BY <1>0 DEF Outside
<1> HIDE DEF n, a, f
<1>2. Inmost(o) \in {"none", "$("} /\ (Inmost(o) = "none" <=> n = 0)
    <2>1. n # 0 => n \in 1..n
        BY <1>1
    <2>2. QED
        BY <1>1, <1>0, <2>1
<1>3. CASE ch \in {SingleQuote, DoubleQuote, "$("}
    <2>1. Opened(ch, o) = a
        BY <1>2, <1>3, QuotesDiffer DEF Opened, Pushes, a
    <2>2. Len(a) = n + 1 /\ a[n + 1] = ch /\ \A k \in 1..n : a[k] = o[k]
        BY <1>3, <1>0 DEF Openings, SingleQuote, DoubleQuote
    <2>3. CASE ch = "$("
        <3>1. Quoted(ch, q) = "none" /\ Nested(ch, q, d) = n + 1
            BY <1>1, <2>3, QuotesDiffer DEF Quoted, Nested
        <3>2. \A k \in 1..(n + 1) : a[k] = "$("
            BY <1>1, <2>2, <2>3
        <3>3. Outside("none", n + 1, a)
            BY <2>2, <3>2 DEF Outside, n
        <3>4. QED
            BY <2>1, <3>1, <3>3 DEF Stands
    <2>4. CASE ch \in {SingleQuote, DoubleQuote}
        <3>1. Quoted(ch, q) = ch /\ Nested(ch, q, d) = n
            BY <1>1, <2>4, QuotesDiffer DEF Quoted, Nested
        <3>2. \A k \in 1..n : a[k] = "$("
            BY <1>1, <2>2
        <3>3. (n + 1) - 1 = n /\ n + 1 >= 1
            BY <1>1
        <3>4. OnTop(ch, n, a)
            BY <2>2, <2>4, <3>2, <3>3 DEF OnTop, n
        <3>5. QED
            BY <2>1, <3>1, <3>4 DEF Stands
    <2>5. QED
        BY <1>3, <2>3, <2>4
<1>4. CASE ch = ")" /\ n # 0
    <2>1. Opened(ch, o) = f
        BY <1>2, <1>4, QuotesDiffer DEF Opened, Pushes, Pops, f, a
    <2>2. Len(f) = n - 1 /\ \A k \in 1..(n - 1) : f[k] = o[k]
        BY <1>0, <1>4
    <2>3. Quoted(ch, q) = "none" /\ Nested(ch, q, d) = n - 1
        BY <1>1, <1>4, QuotesDiffer DEF Quoted, Nested
    <2>4. \A k \in 1..(n - 1) : f[k] = "$("
        BY <1>1, <2>2
    <2>5. Outside("none", n - 1, f)
        BY <2>2, <2>4 DEF Outside, n
    <2>6. QED
        BY <2>1, <2>3, <2>5 DEF Stands
<1>5. CASE ch \notin {SingleQuote, DoubleQuote, "$("} /\ (ch = ")" => n = 0)
    <2>1. Opened(ch, o) = o
        BY <1>2, <1>5, QuotesDiffer DEF Opened, Pushes, Pops, f, a
    <2>2. Quoted(ch, q) = "none" /\ Nested(ch, q, d) = n
        BY <1>1, <1>5, QuotesDiffer DEF Quoted, Nested
    <2>3. Outside("none", n, o)
        BY <1>1 DEF Outside, n
    <2>4. QED
        BY <2>1, <2>2, <2>3 DEF Stands
<1> QED
    BY <1>3, <1>4, <1>5

\* In a quote, both close it, or a double one opens a substitution.
LEMMA OnTopStep ==
    ASSUME NEW o \in Seq(Openings), NEW d, NEW q, NEW ch, OnTop(q, d, o),
           ch = ")" => ("$(" \in ToSet(o) => Last(o) # DoubleQuote)
    PROVE  Stands(Quoted(ch, q), Nested(ch, q, d), Opened(ch, o))
<1> DEFINE n == Len(o)
           a == Append(o, ch)
           f == Front(o)
<1>0. /\ n \in Nat
      /\ Inmost(o) = IF n = 0 THEN "none" ELSE o[n]
      /\ ch \in Openings => Len(a) = n + 1 /\ a[n + 1] = ch /\ \A k \in 1..n : a[k] = o[k]
      /\ n # 0 => Len(f) = n - 1 /\ \A k \in 1..(n - 1) : f[k] = o[k]
    BY StackPlaces, Zenon
<1>1. n \in Nat /\ n >= 1 /\ q \in {SingleQuote, DoubleQuote} /\ o[n] = q /\ d = n - 1 /\ (\A k \in 1..(n - 1) : o[k] = "$(")
    BY <1>0 DEF OnTop
<1> HIDE DEF n, a, f
<1>2. Inmost(o) = q
    BY <1>0, <1>1
<1>3. CASE ch = q
    <2>1. Opened(ch, o) = f
        BY <1>1, <1>2, <1>3, QuotesDiffer DEF Opened, Pushes, Pops, f, a
    <2>2. Len(f) = n - 1 /\ \A k \in 1..(n - 1) : f[k] = o[k]
        BY <1>0, <1>1
    <2>3. Quoted(ch, q) = "none" /\ Nested(ch, q, d) = n - 1
        BY <1>1, <1>3, QuotesDiffer DEF Quoted, Nested
    <2>4. \A k \in 1..(n - 1) : f[k] = "$("
        BY <1>1, <2>2
    <2>5. Outside("none", n - 1, f)
        BY <2>2, <2>4 DEF Outside, n
    <2>6. QED
        BY <2>1, <2>3, <2>5 DEF Stands
<1>4. CASE q = DoubleQuote /\ ch = "$("
    <2>1. Opened(ch, o) = a
        BY <1>2, <1>4, QuotesDiffer DEF Opened, Pushes, a
    <2>2. Len(a) = n + 1 /\ a[n + 1] = ch /\ \A k \in 1..n : a[k] = o[k]
        BY <1>4, <1>0 DEF Openings, SingleQuote, DoubleQuote
    <2>3. Quoted(ch, q) = DoubleQuote /\ Nested(ch, q, d) = n
        BY <1>1, <1>4, QuotesDiffer DEF Quoted, Nested
    <2>4. (n + 1) - 1 = n /\ (n + 1) - 2 = n - 1 /\ n + 1 >= 2 /\ n \in 1..n /\ (\A k \in 1..(n - 1) : k \in 1..n)
        BY <1>1
    <2>5. a[n] = DoubleQuote /\ \A k \in 1..(n - 1) : a[k] = "$("
        BY <1>1, <1>4, <2>2, <2>4
    <2>6. Below(DoubleQuote, n, a)
        BY <1>4, <2>2, <2>4, <2>5 DEF Below, n
    <2>7. QED
        BY <2>1, <2>3, <2>6 DEF Stands
<1>5. CASE ch # q /\ ~(q = DoubleQuote /\ ch = "$(")
    <2>1. Opened(ch, o) = o
        BY <1>1, <1>2, <1>5, QuotesDiffer DEF Opened, Pushes, Pops, f, a
    <2>2. Quoted(ch, q) = q
        BY <1>1, <1>5, QuotesDiffer DEF Quoted
    <2>3. Nested(ch, q, d) = d
        <3>1. CASE q # SingleQuote /\ ch = ")"
            <4>1. n = 1
                <5> SUFFICES ASSUME n # 1
                             PROVE  FALSE
                    OBVIOUS
                <5>1. 1 \in 1..(n - 1) /\ 1 \in DOMAIN o
                    BY <1>1 DEF n
                <5>2. "$(" \in ToSet(o)
                    BY <1>1, <5>1 DEF ToSet, n
                <5>3. Last(o) = DoubleQuote
                    BY <1>1, <3>1 DEF Last, n
                <5>4. QED
                    BY <3>1, <5>2, <5>3
            <4>2. d = 0
                BY <1>1, <4>1
            <4>3. QED
                BY <3>1, <4>2, QuotesDiffer DEF Nested
        <3>2. CASE ~(q # SingleQuote /\ ch = ")")
            BY <1>1, <1>5, <3>2, QuotesDiffer DEF Nested
        <3>3. QED
            BY <3>1, <3>2
    <2>4. QED
        BY <2>1, <2>2, <2>3 DEF Stands
<1> QED
    BY <1>3, <1>4, <1>5

\* In a substitution inside double quotes, nothing but its end changes anything.
LEMMA BelowStep ==
    ASSUME NEW o \in Seq(Openings), NEW d, NEW q, NEW ch, Below(q, d, o), ~Buried(Opened(ch, o))
    PROVE  Stands(Quoted(ch, q), Nested(ch, q, d), Opened(ch, o))
<1> DEFINE n == Len(o)
           a == Append(o, ch)
           f == Front(o)
<1>0. /\ n \in Nat
      /\ Inmost(o) = IF n = 0 THEN "none" ELSE o[n]
      /\ ch \in Openings => Len(a) = n + 1 /\ a[n + 1] = ch /\ \A k \in 1..n : a[k] = o[k]
      /\ n # 0 => Len(f) = n - 1 /\ \A k \in 1..(n - 1) : f[k] = o[k]
    BY StackPlaces, Zenon
<1>1. /\ n \in Nat /\ n >= 2 /\ q = DoubleQuote /\ o[n - 1] = DoubleQuote /\ o[n] = "$(" /\ d = n - 1
      /\ \A k \in 1..(n - 2) : o[k] = "$("
    BY <1>0 DEF Below
<1> HIDE DEF n, a, f
<1>2. Inmost(o) = "$("
    BY <1>0, <1>1
<1>3. ch \notin {SingleQuote, DoubleQuote, "$("}
    <2> SUFFICES ASSUME ch \in {SingleQuote, DoubleQuote, "$("}
                 PROVE  FALSE
        OBVIOUS
    <2>1. Opened(ch, o) = a
        BY <1>2, QuotesDiffer DEF Opened, Pushes, a
    <2>2. Len(a) = n + 1 /\ \A k \in 1..n : a[k] = o[k]
        BY <1>0, <1>1, QuotesDiffer DEF Openings, SingleQuote, DoubleQuote
    <2>3. n - 1 \in 1..n /\ n \in 1..n /\ n - 1 \in 1..(n + 1) /\ n \in 1..(n + 1) /\ n - 1 < n /\ n < n + 1
        BY <1>1
    <2>4. Buried(a)
        BY <1>1, <2>2, <2>3 DEF Buried
    <2>5. QED
        BY <2>1, <2>4
<1>4. CASE ch = ")"
    <2>1. Opened(ch, o) = f
        BY <1>2, <1>4, QuotesDiffer DEF Opened, Pushes, Pops, f, a
    <2>2. Len(f) = n - 1 /\ \A k \in 1..(n - 1) : f[k] = o[k]
        BY <1>0, <1>1
    <2>3. Quoted(ch, q) = DoubleQuote /\ Nested(ch, q, d) = n - 2
        BY <1>1, <1>4, QuotesDiffer DEF Quoted, Nested
    <2>4. n - 1 \in 1..(n - 1) /\ n - 1 >= 1 /\ (n - 1) - 1 = n - 2 /\ \A k \in 1..(n - 2) : k \in 1..(n - 1)
        BY <1>1
    <2>5. OnTop(DoubleQuote, n - 2, f)
        BY <1>1, <2>2, <2>4 DEF OnTop, n
    <2>6. QED
        BY <2>1, <2>3, <2>5 DEF Stands
<1>5. CASE ch # ")"
    <2>1. Opened(ch, o) = o
        BY <1>2, <1>3, <1>5, QuotesDiffer DEF Opened, Pushes, Pops, f, a
    <2>2. Quoted(ch, q) = q /\ Nested(ch, q, d) = d
        BY <1>1, <1>3, <1>5, QuotesDiffer DEF Quoted, Nested
    <2>3. QED
        BY <2>1, <2>2 DEF Stands
<1> QED
    BY <1>4, <1>5

\* Where the walk is, and where the shell is, after the same characters.
Alike(s, h) ==
    /\ s.escaped => h.escaped
    /\ h.escaped => s.escaped
    /\ s.ended => h.comment
    /\ h.comment => s.ended
    /\ Stands(s.quote, s.depth, h.open)

\* What the quote says of what is inmost.
LEMMA StandsOn ==
    ASSUME NEW o \in Seq(Openings), NEW q, NEW d, Stands(q, d, o)
    PROVE  /\ q = "none" => Inmost(o) \in {"none", "$("}
           /\ q = SingleQuote => Inmost(o) = SingleQuote
           /\ Inmost(o) = SingleQuote => q = SingleQuote
           /\ Inmost(o) \in {"none", "$("} => q = "none" \/ DoubleQuote \in ToSet(o)
<1> DEFINE n == Len(o)
<1>1. n \in Nat /\ DOMAIN o = 1..n /\ Inmost(o) = IF n = 0 THEN "none" ELSE o[n]
    <2>1. n \in Nat /\ Inmost(o) = IF n = 0 THEN "none" ELSE o[n]
        BY StackPlaces, Zenon
    <2>2. QED
        BY <2>1
<1>2. Stands(q, d, o)
    OBVIOUS
<1>3. CASE Outside(q, d, o)
    <2>1. q = "none" /\ \A k \in 1..n : o[k] = "$("
        BY <1>3 DEF Outside
    <2> HIDE DEF n
    <2>2. n # 0 => n \in 1..n
        BY <1>1
    <2>3. QED
        BY <1>1, <2>1, <2>2, QuotesDiffer
<1>4. CASE OnTop(q, d, o)
    <2>1. q \in {SingleQuote, DoubleQuote} /\ n >= 1 /\ o[n] = q
        BY <1>4 DEF OnTop
    <2> HIDE DEF n
    <2>2. Inmost(o) = q
        BY <1>1, <2>1
    <2>3. QED
        BY <2>1, <2>2, QuotesDiffer
<1>5. CASE Below(q, d, o)
    <2>1. q = DoubleQuote /\ n >= 2 /\ o[n - 1] = DoubleQuote /\ o[n] = "$("
        BY <1>5 DEF Below
    <2> HIDE DEF n
    <2>2. Inmost(o) = "$(" /\ n - 1 \in DOMAIN o
        BY <1>1, <2>1
    <2>3. DoubleQuote \in ToSet(o)
        BY <2>1, <2>2 DEF ToSet
    <2>4. QED
        BY <2>1, <2>2, <2>3, QuotesDiffer
<1> QED
    BY <1>2, <1>3, <1>4, <1>5 DEF Stands

\* A character leaves them alike, if it is none of those Ordinary keeps out.
StepsAlike(B, text, i, s, t, g) ==
    /\ t \in Walks(B) /\ Alike(t, g)
    /\ s.ended => t = s
    /\ ~s.ended /\ t.ended => t.code = s.code
    /\ ~s.ended /\ ~t.ended => t.code = Append(s.code, text[i])
Admitted(text, i, h, g) ==
    /\ ~Buried(g.open)
    /\ g.comment => DoubleQuote \notin ToSet(g.open)
    /\ text[i] = ")" => ("$(" \in ToSet(h.open) => Last(h.open) # DoubleQuote)

\* Where the walk and the shell are alike, they are so after a character
\* admitted, if one of the words begins for the other, and the walk has taken it
\* if no comment began.
LEMMA AlikeStep ==
    ASSUME NEW B, NEW text, NEW spaced, NEW i, text[i] \in B, text[i] # "joined", spaced[i] = text[i],
           Len(spaced) = Len(text), NEW s \in Walks(B), NEW h \in Shells(B), Alike(s, h),
           ~h.comment /\ text[i] = "#" => (Cmd!startsWord(spaced, i) <=> Cmd!AtWord(h)),
           Admitted(text, i, h, Cmd!Reads(text, h, i))
    PROVE  StepsAlike(B, text, i, s, Cmd!Step(spaced, s, i), Cmd!Reads(text, h, i))
<1> DEFINE t == Cmd!Step(spaced, s, i)
           g == Cmd!Reads(text, h, i)
<1>a. SUFFICES /\ t \in Walks(B) /\ g \in Shells(B) /\ Alike(t, g)
               /\ s.ended => t = s
               /\ ~s.ended /\ t.ended => t.code = s.code
               /\ ~s.ended /\ ~t.ended => t.code = Append(s.code, text[i])
    BY Zenon DEF StepsAlike
<1>b. t = Cmd!Step(spaced, s, i) /\ g = Cmd!Reads(text, h, i) /\ Admitted(text, i, h, g)
    OBVIOUS
<1> HIDE DEF t, g
<1>c. /\ ~Buried(g.open)
      /\ g.comment => DoubleQuote \notin ToSet(g.open)
      /\ text[i] = ")" => ("$(" \in ToSet(h.open) => Last(h.open) # DoubleQuote)
    BY <1>b, Zenon DEF Admitted
<1> USE <1>b, <1>c
<1> DEFINE ch == text[i]
           escapes == Escapes(text, i)
           starts == BeginsRemark(spaced, i, s)
           begins == Remarks(text, i, h)
           W == /\ t \in Walks(B)
                /\ s.ended => t = s
                /\ ~s.ended /\ ~s.escaped /\ starts => t.quote = s.quote /\ t.depth = s.depth /\ ~t.escaped /\ t.ended /\ t.code = s.code
                /\ ~s.ended /\ (s.escaped \/ ~starts) => ~t.ended /\ t.code = Append(s.code, ch)
                /\ ~s.ended /\ s.escaped => t.quote = s.quote /\ t.depth = s.depth /\ ~t.escaped
                /\ ~s.ended /\ ~s.escaped /\ ~starts =>
                      /\ s.quote # "'" /\ escapes => t.escaped
                      /\ s.quote = "'" \/ ~escapes => ~t.escaped
                      /\ t.quote = IF s.quote = "none" /\ ch \in {"'", "\""} THEN ch
                                   ELSE IF s.quote \in {"'", "\""} /\ ch = s.quote THEN "none" ELSE s.quote
                      /\ t.depth = IF s.quote # "'" /\ ch = "$(" THEN s.depth + 1
                                   ELSE IF s.quote # "'" /\ ch = ")" THEN (IF s.depth > 0 THEN s.depth - 1 ELSE 0)
                                   ELSE s.depth
           S == /\ g \in Shells(B)
                /\ h.comment => g = h
                /\ ~h.comment /\ h.escaped => g.open = h.open /\ ~g.escaped /\ ~g.comment
                /\ ~h.comment /\ ~h.escaped /\ begins => g.open = h.open /\ ~g.escaped /\ g.comment
                /\ ~h.comment /\ ~h.escaped /\ ~begins =>
                      /\ ~g.comment /\ g.open = Opened(ch, h.open)
                      /\ Inmost(h.open) # SingleQuote /\ escapes => g.escaped
                      /\ Inmost(h.open) = SingleQuote \/ ~escapes => ~g.escaped
<1>1. W
    <2>1. WalksOn(B, spaced, i, s, t)
        BY WalkSteps, Zenon
    <2>2. (Escapes(spaced, i) <=> escapes) /\ spaced[i] = ch
        BY Zenon DEF Escapes
    <2>3. QED
        BY <2>1, <2>2, Zenon DEF WalksOn
<1>2. S
    <2>1. ReadsOn(B, text, i, h, g)
        BY ShellSteps, Zenon
    <2>2. QED
        BY <2>1, Zenon DEF ReadsOn
<1>3. ~s.ended /\ ~s.escaped /\ ~starts =>
          /\ s.quote # SingleQuote /\ escapes => t.escaped
          /\ s.quote = SingleQuote \/ ~escapes => ~t.escaped
          /\ t.quote = Quoted(ch, s.quote)
          /\ t.depth = Nested(ch, s.quote, s.depth)
    <2> HIDE DEF ch, escapes, starts
    <2>1. QED
        BY <1>1, Zenon DEF W, Quoted, Nested, SingleQuote, DoubleQuote
<1>4. ~h.comment /\ ~h.escaped =>
          /\ Inmost(h.open) # SingleQuote /\ escapes /\ ~begins => g.escaped
          /\ Inmost(h.open) = SingleQuote \/ ~escapes => ~g.escaped
          /\ begins => g.comment /\ g.open = h.open /\ ~g.escaped
          /\ ~begins => ~g.comment /\ g.open = Opened(ch, h.open)
    BY <1>2, Zenon
<1>5. h.open \in Seq(Openings) /\ Stands(s.quote, s.depth, h.open)
    BY DEF Shells, Alike
<1>6. /\ s.quote = "none" => Inmost(h.open) \in {"none", "$("}
      /\ s.quote = SingleQuote => Inmost(h.open) = SingleQuote
      /\ Inmost(h.open) = SingleQuote => s.quote = SingleQuote
      /\ Inmost(h.open) \in {"none", "$("} => s.quote = "none" \/ DoubleQuote \in ToSet(h.open)
    BY <1>5, StandsOn, Zenon
<1>8. t \in Walks(B) /\ g \in Shells(B)
    BY <1>1, <1>2, Zenon
<1>9. (s.escaped => h.escaped) /\ (h.escaped => s.escaped) /\ (s.ended => h.comment) /\ (h.comment => s.ended)
    BY DEF Alike
<1>10. CASE s.ended
    BY <1>1, <1>2, <1>8, <1>9, <1>10, Zenon
<1>11. CASE ~s.ended /\ s.escaped
    <2>1. t.quote = s.quote /\ t.depth = s.depth /\ ~t.escaped /\ ~t.ended /\ t.code = Append(s.code, ch)
        BY <1>1, <1>11, Zenon
    <2>2. g.open = h.open /\ ~g.escaped /\ ~g.comment
        BY <1>2, <1>9, <1>11, Zenon
    <2>3. Alike(t, g)
        BY <1>5, <2>1, <2>2, Zenon DEF Alike
    <2>4. QED
        BY <1>8, <1>11, <2>1, <2>3, Zenon
<1>12. ~h.comment /\ starts => begins
    BY <1>6, Zenon DEF BeginsRemark, Remarks
<1>13. ~h.comment /\ ~h.escaped /\ begins => starts
    <2> SUFFICES ASSUME ~h.comment, ~h.escaped, begins
                 PROVE  starts
        OBVIOUS
    <2>1. g.comment /\ g.open = h.open
        BY <1>4, Zenon
    <2>2. DoubleQuote \notin ToSet(h.open)
        BY <2>1
    <2>3. QED
        BY <1>6, <2>2, Zenon DEF BeginsRemark, Remarks
<1> HIDE DEF W, S
<1>14. CASE ~s.ended /\ ~s.escaped /\ starts
    <2>1. t.quote = s.quote /\ t.depth = s.depth /\ ~t.escaped /\ t.ended /\ t.code = s.code
        BY <1>1, <1>14, Zenon DEF W
    <2>2. ch = "#" /\ ~h.comment /\ ~h.escaped
        BY <1>9, <1>14, Zenon DEF BeginsRemark
    <2>3. g.open = h.open /\ ~g.escaped /\ g.comment
        BY <1>4, <1>12, <1>14, <2>2, Zenon
    <2>4. Alike(t, g)
        BY <1>5, <2>1, <2>3, Zenon DEF Alike
    <2>5. QED
        BY <1>8, <1>14, <2>1, <2>4, Zenon
<1>15. CASE ~s.ended /\ ~s.escaped /\ ~starts
    <2>1. ~t.ended /\ t.code = Append(s.code, ch)
        BY <1>1, <1>15, Zenon DEF W
    <2>2. ~h.comment /\ ~h.escaped
        BY <1>9, <1>15, Zenon
    <2>3. ~g.comment /\ g.open = Opened(ch, h.open)
        BY <1>4, <1>13, <1>15, <2>2, Zenon
    <2>4. (t.escaped => g.escaped) /\ (g.escaped => t.escaped)
        <3> HIDE DEF escapes, starts, begins, ch
        <3>1. CASE s.quote = SingleQuote \/ ~escapes
            BY <1>3, <1>4, <1>6, <1>15, <2>2, <3>1, Zenon
        <3>2. CASE s.quote # SingleQuote /\ escapes
            BY <1>3, <1>4, <1>6, <1>13, <1>15, <2>2, <3>2, Zenon
        <3>3. QED
            BY <3>1, <3>2
    <2>5. t.quote = Quoted(ch, s.quote) /\ t.depth = Nested(ch, s.quote, s.depth)
        BY <1>3, <1>15, Zenon
    <2>6. Stands(t.quote, t.depth, g.open)
        <3>1. ~Buried(Opened(ch, h.open)) /\ (ch = ")" => ("$(" \in ToSet(h.open) => Last(h.open) # DoubleQuote))
            BY <2>3
        <3> HIDE DEF ch
        <3> DEFINE o == h.open
                   q == s.quote
                   d == s.depth
        <3>2. SUFFICES Stands(Quoted(ch, q), Nested(ch, q, d), Opened(ch, o))
            BY <2>3, <2>5, Zenon
        <3>3. o \in Seq(Openings) /\ (Outside(q, d, o) \/ OnTop(q, d, o) \/ Below(q, d, o))
            BY <1>5 DEF Stands
        <3>4. ~Buried(Opened(ch, o)) /\ (ch = ")" => ("$(" \in ToSet(o) => Last(o) # DoubleQuote))
            BY <3>1
        <3> HIDE DEF o, q, d
        <3>5. QED
            BY <3>3, <3>4, OutsideStep, OnTopStep, BelowStep, Zenon
    <2>7. Alike(t, g)
        BY <2>1, <2>3, <2>4, <2>6, Zenon DEF Alike
    <2>8. QED
        BY <1>8, <1>15, <2>1, <2>7, Zenon
<1> QED
    BY <1>10, <1>11, <1>14, <1>15

\* A line that is joined to the next leaves them alike, outside a comment: the
\* walk takes a blank, and the shell takes nothing.
LEMMA JoinAlike ==
    ASSUME NEW B, NEW text, NEW spaced, NEW i, text[i] = "joined", spaced[i] = "blank", "blank" \in B,
           NEW s \in Walks(B), NEW h \in Shells(B), Alike(s, h), ~h.comment, ~h.escaped
    PROVE  /\ StepsAlike(B, spaced, i, s, Cmd!Step(spaced, s, i), Cmd!Reads(text, h, i))
           /\ Cmd!Reads(text, h, i) = h
<1> DEFINE t == Cmd!Step(spaced, s, i)
<1>1. WalksOn(B, spaced, i, s, t)
    BY WalkSteps, Zenon
<1>2. ~s.ended /\ ~s.escaped
    BY Zenon DEF Alike
<1>3. ~BeginsRemark(spaced, i, s) /\ ~Escapes(spaced, i)
    BY Zenon DEF BeginsRemark, Escapes
<1> HIDE DEF t
<1>4. /\ t \in Walks(B) /\ ~t.ended /\ ~t.escaped /\ t.code = Append(s.code, spaced[i])
      /\ t.quote = Quoted("blank", s.quote) /\ t.depth = Nested("blank", s.quote, s.depth)
    BY <1>1, <1>2, <1>3, Zenon DEF WalksOn, Quoted, Nested, SingleQuote, DoubleQuote
<1>5. Quoted("blank", s.quote) = s.quote /\ Nested("blank", s.quote, s.depth) = s.depth
    <2>1. "blank" # SingleQuote /\ "blank" # DoubleQuote
        BY Zenon DEF SingleQuote, DoubleQuote
    <2>2. QED
        BY <2>1, Zenon DEF Quoted, Nested
<1>6. Cmd!Reads(text, h, i) = h
    BY Zenon DEF Cmd!Reads
<1>7. Alike(t, h)
    BY <1>2, <1>4, <1>5, Zenon DEF Alike
<1> QED
    BY <1>2, <1>4, <1>6, <1>7, Zenon DEF StepsAlike, t

\* What the shell makes of the characters comes one character at a time.
LEMMA ShellUnfolds ==
    ASSUME NEW text, Len(text) \in Nat
    PROVE  /\ Cmd!Shell(text)[0] = Cmd!NothingRead
           /\ \A k \in 1..Len(text) : Cmd!Shell(text)[k] = Cmd!Reads(text, Cmd!Shell(text)[k - 1], k)
<1> DEFINE n == Len(text)
           One(f, i) == IF i = 0 THEN Cmd!NothingRead ELSE Cmd!Reads(text, f[i - 1], i)
           Upto(f, m) == f = [i \in 0..m |-> f[i]] /\ \A i \in 0..m : f[i] = One(f, i)
           T == {m \in Nat : \E f : Upto(f, m)}
           Q(f) == f = [i \in 0..n |-> IF i = 0 THEN Cmd!NothingRead ELSE Cmd!Reads(text, f[i - 1], i)]
           g == CHOOSE f : Q(f)
<1>1. 0 \in T
    <2> DEFINE e == [i \in 0..0 |-> Cmd!NothingRead]
    <2>1. e = [i \in 0..0 |-> e[i]] /\ \A i \in 0..0 : i = 0 /\ e[i] = Cmd!NothingRead
        OBVIOUS
    <2> HIDE DEF e
    <2>2. \A i \in 0..0 : e[i] = One(e, i)
        BY <2>1, Zenon
    <2>3. Upto(e, 0)
        BY <2>1, <2>2, Zenon
    <2>4. 0 \in Nat
        OBVIOUS
    <2> HIDE DEF Upto
    <2>5. QED
        BY <2>3, <2>4
<1>2. ASSUME NEW m \in T
      PROVE  m + 1 \in T
    <2>1. m \in Nat /\ \E f : Upto(f, m)
        <3> HIDE DEF Upto
        <3>1. QED
            BY <1>2
    <2>2. PICK f : Upto(f, m)
        BY <2>1
    <2> DEFINE v == Cmd!Reads(text, f[m], m + 1)
               e == [i \in 0..(m + 1) |-> IF i = m + 1 THEN v ELSE f[i]]
    <2> HIDE DEF v
    <2>3. /\ e = [i \in 0..(m + 1) |-> e[i]] /\ e[m + 1] = v
          /\ \A i \in 0..m : i # m + 1 /\ i \in 0..(m + 1) /\ e[i] = f[i]
        BY <2>1
    <2> HIDE DEF e
    <2>4. ASSUME NEW i \in 0..(m + 1)
          PROVE  e[i] = One(e, i)
        <3>1. CASE i \in 0..m
            <4>1. f[i] = One(f, i)
                BY <2>2, <3>1, Zenon
            <4>2. i # 0 => i - 1 \in 0..m
                BY <2>1, <3>1
            <4>3. i # 0 => e[i - 1] = f[i - 1]
                BY <2>3, <4>2
            <4>4. One(e, i) = One(f, i)
                BY <4>3, Zenon
            <4>5. QED
                BY <2>3, <3>1, <4>1, <4>4, Zenon
        <3>2. CASE i = m + 1
            <4>0. i # 0 /\ i - 1 = m /\ m \in 0..m
                BY <2>1, <3>2
            <4>1. i # 0 /\ i - 1 = m /\ e[m] = f[m]
                BY <2>3, <4>0, Zenon
            <4>2. One(e, i) = v
                BY <3>2, <4>1, Zenon DEF v
            <4>3. QED
                BY <2>3, <3>2, <4>2, Zenon
        <3>3. QED
            BY <2>1, <3>1, <3>2
    <2>5. Upto(e, m + 1)
        BY <2>3, <2>4, Zenon
    <2>6. m + 1 \in Nat
        BY <2>1
    <2> HIDE DEF Upto
    <2>7. QED
        BY <2>5, <2>6
<1>3. T = Nat
    <2> HIDE DEF T
    <2>1. T \in SUBSET Nat
        BY DEF T
    <2>2. QED
        BY <1>1, <1>2, <2>1, FromZero, Zenon
<1>4. PICK f : Upto(f, n)
    <2> HIDE DEF Upto
    <2>1. n \in T
        BY <1>3
    <2>2. QED
        BY <2>1
<1>5. Q(f)
    <2>1. [i \in 0..n |-> f[i]] = [i \in 0..n |-> One(f, i)]
        BY <1>4, Zenon
    <2>2. QED
        BY <1>4, <2>1, Zenon
<1>6. Q(g)
    BY <1>5, Zenon
<1>7. Cmd!Shell(text) = g
    BY DEF Cmd!Shell
<1> HIDE DEF g
<1>8. \A i \in 0..n : g[i] = One(g, i)
    BY <1>6, Zenon
<1>9. 0 \in 0..n /\ \A k \in 1..n : k \in 0..n /\ k # 0
    OBVIOUS
<1>10. QED
    BY <1>7, <1>8, <1>9, Zenon

\* So does what the walk makes of them.
Goes(w, text) ==
    /\ w[0] = Cmd!Start
    /\ \A k \in 1..Len(text) : w[k] = Cmd!Step(text, w[k - 1], k)
    /\ Cmd!scan(text) = w[Len(text)]

\* There is a walk, character by character, whose last state is what scan returns.
LEMMA ScanUnfolds ==
    ASSUME NEW B, NEW text \in Seq(B)
    PROVE  \E w : Goes(w, text)
<1> DEFINE S == Walks(B)
           n == Len(text)
           G == [k \in 1..n |-> [s \in S |-> Cmd!Step(text, s, k)]]
           Q(f) == f = [i \in 0..n |-> IF i = 0 THEN Cmd!Start ELSE Cmd!Step(text, f[i - 1], i)]
           g == CHOOSE f : Q(f)
<1>1. n \in Nat /\ \A k \in 1..n : text[k] \in B
    BY ElementOfSeq
<1>2. ASSUME NEW s \in S, NEW k \in 1..n
      PROVE  Cmd!Step(text, s, k) \in S
    <2>1. WalksOn(B, text, k, s, Cmd!Step(text, s, k))
        BY <1>1, WalkSteps
    <2>2. QED
        BY <2>1, Zenon DEF WalksOn
<1> HIDE DEF S
<1>3. G \in [1..n -> [S -> S]] /\ \A k \in 1..n : \A s \in S : G[k][s] = Cmd!Step(text, s, k)
    BY <1>1, <1>2
<1> HIDE DEF G
<1>4. Cmd!Start \in S
    <2>1. <<>> \in Seq(B)
        OBVIOUS
    <2>2. QED
        BY <2>1 DEF S, Walks, Cmd!Start
<1>5. PICK f : TakesAlone(f, n, S, G, Cmd!Start)
    <2> HIDE DEF n
    <2>1. QED
        BY <1>1, <1>3, <1>4, Stepped, Zenon
<1>6. f \in [0..n -> S] /\ f[0] = Cmd!Start /\ \A k \in 1..n : f[k] = Cmd!Step(text, f[k - 1], k)
    <2>1. f \in [0..n -> S] /\ f[0] = Cmd!Start /\ \A k \in 1..n : f[k] = G[k][f[k - 1]]
        BY <1>5, Zenon DEF TakesAlone, Takes
    <2>2. \A k \in 1..n : f[k - 1] \in S
        BY <1>1, <2>1
    <2>3. QED
        BY <1>3, <2>1, <2>2
<1>7. Q(f)
    <2>1. \A k \in 0..n : f[k] = IF k = 0 THEN Cmd!Start ELSE Cmd!Step(text, f[k - 1], k)
        BY <1>1, <1>6
    <2>2. QED
        BY <1>6, <2>1
<1>8. Q(g)
    BY <1>7
<1>9. Cmd!scan(text) = g[n]
    BY DEF Cmd!scan
<1> HIDE DEF g
<1>10. g[0] = Cmd!Start /\ \A k \in 1..n : g[k] = Cmd!Step(text, g[k - 1], k)
    BY <1>1, <1>8
<1>11. Goes(g, text)
    BY <1>9, <1>10 DEF Goes
<1> QED
    BY <1>11


-----------------------------------------------------------------------------
(* What the command ends in                                                  *)

\* What an escape may stand before, in an ordinary command.
Escapable == {"x", "'", "\"", "\\"}

\* It is no operator and no blank, and no word begins behind it.
LEMMA EscapableIsApart ==
    /\ \A ch \in Escapable : ch # "blank" /\ ch # "joined" /\ ch \notin Cmd!Operators /\ ch \notin Cmd!BeginWord
    /\ "blank" \notin Cmd!Operators /\ "blank" \in Cmd!BeginWord /\ "blank" # "joined"
    /\ "escaped" \notin Cmd!Operators /\ "escaped" # "blank" /\ "escaped" \notin Cmd!BeginWord
    /\ "joined" # "#" /\ "joined" \notin Cmd!Operators
BY Zenon DEF Escapable, Cmd!Operators, Cmd!BeginWord

\* The operators that stand last in what the walk has taken, blanks aside.
TailFrom(code, ops, m, from) ==
    /\ \A k \in (m + 1)..Len(code) : code[k] = "blank"
    /\ m # 0 => code[m] # "blank"
    /\ ops = SubSeq(code, from + 1, m)
    /\ from # 0 => code[from] \notin Cmd!Operators
TailIs(code, ops) == \E m \in 0..Len(code) : \E from \in 0..m : TailFrom(code, ops, m, from)

\* A character more, by its places.
LEMMA OneCharacterMore ==
    ASSUME NEW B, NEW code \in Seq(B), NEW ch \in B
    PROVE  LET c == Append(code, ch)
               n == Len(code)
           IN  /\ c \in Seq(B) /\ n \in Nat /\ Len(c) = n + 1 /\ c[n + 1] = ch
               /\ \A k \in 1..n : c[k] = code[k]
               /\ \A from, m \in 0..n : from <= m => SubSeq(c, from + 1, m) = SubSeq(code, from + 1, m)
               /\ \A from \in 0..n : SubSeq(c, from + 1, n + 1) = Append(SubSeq(code, from + 1, n), ch)
               /\ SubSeq(c, n + 2, n + 1) = <<>>
<1> DEFINE c == Append(code, ch)
           n == Len(code)
<1>1. c \in Seq(B) /\ n \in Nat /\ Len(c) = n + 1 /\ c[n + 1] = ch /\ \A k \in 1..n : c[k] = code[k]
    BY Ends
<1>2. ASSUME NEW from \in 0..n, NEW m \in 0..n, from <= m
      PROVE  SubSeq(c, from + 1, m) = SubSeq(code, from + 1, m)
    <2> DEFINE u == SubSeq(c, from + 1, m)
               v == SubSeq(code, from + 1, m)
    <2> HIDE DEF c, n
    <2>0. from + 1 >= 1 /\ m <= Len(c) /\ from \in Int /\ m \in Int
        BY <1>1, <1>2
    <2>1. u \in Seq(B) /\ Len(u) = m - from /\ \A j \in 1..(m - from) : u[j] = c[from + j]
        BY <1>1, <1>2, <2>0
    <2>2. v \in Seq(B) /\ Len(v) = m - from /\ \A j \in 1..(m - from) : v[j] = code[from + j]
        BY <1>1, <1>2, <2>0 DEF n
    <2>3. \A j \in 1..(m - from) : from + j \in 1..n
        BY <1>1, <1>2
    <2> HIDE DEF u, v
    <2>4. \A j \in 1..Len(u) : u[j] = v[j]
        BY <1>1, <2>1, <2>2, <2>3
    <2>5. QED
        BY <2>1, <2>2, <2>4, SeqEqual DEF u, v
<1>3. ASSUME NEW from \in 0..n
      PROVE  SubSeq(c, from + 1, n + 1) = Append(SubSeq(code, from + 1, n), ch)
    <2> DEFINE u == SubSeq(c, from + 1, n + 1)
               p == SubSeq(code, from + 1, n)
               v == Append(p, ch)
               d == n - from
    <2>0. d \in Nat /\ from + (d + 1) = n + 1 /\ (\A j \in 1..d : from + j \in 1..n) /\ \A j \in 1..(d + 1) : j \in 1..d \/ j = d + 1
        BY <1>1, <1>3
    <2>1. p \in Seq(B) /\ Len(p) = d /\ \A j \in 1..d : p[j] = code[from + j]
        BY <1>1, <1>3
    <2> HIDE DEF p
    <2>2. v \in Seq(B) /\ Len(v) = d + 1 /\ v[d + 1] = ch /\ \A j \in 1..d : v[j] = p[j]
        BY <2>1 DEF v
    <2> HIDE DEF c, n, v
    <2>3. u \in Seq(B) /\ Len(u) = d + 1 /\ \A j \in 1..(d + 1) : u[j] = c[from + j]
        BY <1>1, <1>3, <2>0 DEF n
    <2> HIDE DEF u, d
    <2>4. ASSUME NEW j \in 1..(d + 1)
          PROVE  u[j] = v[j]
        <3>1. CASE j \in 1..d
            BY <1>1, <2>0, <2>1, <2>2, <2>3, <3>1
        <3>2. CASE j = d + 1
            BY <1>1, <2>0, <2>2, <2>3, <3>2
        <3>3. QED
            BY <2>0, <3>1, <3>2
    <2>5. QED
        BY <2>2, <2>3, <2>4, SeqEqual DEF u, v, p
<1>4. SubSeq(c, n + 2, n + 1) = <<>>
    <2> HIDE DEF c, n
    <2>1. n + 2 > n + 1
        BY <1>1
    <2>2. QED
        BY <1>1, <2>1
<1> QED
    BY <1>1, <1>2, <1>3, <1>4

\* A blank keeps the operators that stand last, another character leaves none,
\* and an operator joins those it stands right behind, or stands alone.
TailGrown(code, ops, ch) ==
    LET c == Append(code, ch)
        n == Len(code)
    IN  /\ ch = "blank" => TailIs(c, ops)
        /\ ch \notin Cmd!Operators /\ ch # "blank" => TailIs(c, <<>>)
        /\ ch \in Cmd!Operators /\ (n # 0 => code[n] \notin Cmd!Operators) => TailIs(c, <<ch>>)
        /\ ch \in Cmd!Operators /\ n # 0 /\ code[n] \in Cmd!Operators => TailIs(c, Append(ops, ch))
LEMMA TailGrows ==
    ASSUME NEW B, NEW code \in Seq(B), NEW ops, TailIs(code, ops), NEW ch \in B
    PROVE  TailGrown(code, ops, ch)
<1> DEFINE c == Append(code, ch)
           n == Len(code)
<1>1. /\ c \in Seq(B) /\ n \in Nat /\ Len(c) = n + 1 /\ c[n + 1] = ch
      /\ \A k \in 1..n : c[k] = code[k]
      /\ \A from, m \in 0..n : from <= m => SubSeq(c, from + 1, m) = SubSeq(code, from + 1, m)
      /\ \A from \in 0..n : SubSeq(c, from + 1, n + 1) = Append(SubSeq(code, from + 1, n), ch)
      /\ SubSeq(c, n + 2, n + 1) = <<>>
    BY OneCharacterMore, Zenon
<1>2. PICK m \in 0..n : \E from \in 0..m : TailFrom(code, ops, m, from)
    BY Zenon DEF TailIs
<1>2a. PICK from \in 0..m : TailFrom(code, ops, m, from)
    BY <1>2, Zenon
<1>3. /\ \A k \in (m + 1)..n : code[k] = "blank"
      /\ m # 0 => code[m] # "blank"
      /\ ops = SubSeq(code, from + 1, m)
      /\ from # 0 => code[from] \notin Cmd!Operators
    BY <1>2a, Zenon DEF TailFrom
<1> HIDE DEF c, n
<1>4. m \in Nat /\ from \in Nat /\ from <= m /\ m <= n /\ from \in 0..n /\ m \in 0..(n + 1) /\ n + 1 \in 0..(n + 1) /\ n \in 0..(n + 1)
    BY <1>1
<1>5. ASSUME ch = "blank"
      PROVE  TailIs(c, ops)
    <2>1. ASSUME NEW k \in (m + 1)..(n + 1)
          PROVE  c[k] = "blank"
        <3>1. CASE k = n + 1
            BY <1>1, <1>5, <3>1
        <3>2. CASE k # n + 1
            <4>1. k \in 1..n /\ k \in (m + 1)..n
                BY <1>4, <1>1, <2>1, <3>2
            <4>2. QED
                BY <1>1, <1>3, <4>1
        <3>3. QED
            BY <3>1, <3>2
    <2>2. m # 0 => m \in 1..n
        BY <1>4
    <2>3. from # 0 => from \in 1..n
        BY <1>4
    <2>4. TailFrom(c, ops, m, from)
        BY <1>1, <1>3, <1>4, <2>1, <2>2, <2>3, Zenon DEF TailFrom
    <2>5. m \in 0..Len(c) /\ from \in 0..m
        BY <1>1, <1>4
    <2>6. QED
        BY <2>4, <2>5, Zenon DEF TailIs
<1>6. \A k \in ((n + 1) + 1)..(n + 1) : FALSE
    BY <1>1
<1>7. n + 1 # 0 /\ n + 1 \in 0..Len(c) /\ n \in 0..(n + 1)
    BY <1>1
<1>8. ASSUME ch \notin Cmd!Operators, ch # "blank"
      PROVE  TailIs(c, <<>>)
    <2>1. (n + 1) + 1 = n + 2
        BY <1>1
    <2>2. TailFrom(c, <<>>, n + 1, n + 1)
        BY <1>1, <1>6, <1>8, <2>1, Zenon DEF TailFrom
    <2>3. QED
        BY <1>4, <1>7, <2>2, Zenon DEF TailIs
<1>9. ASSUME ch \in Cmd!Operators, n # 0 => code[n] \notin Cmd!Operators
      PROVE  TailIs(c, <<ch>>)
    <2>1. ch # "blank"
        BY <1>9, EscapableIsApart, Zenon
    <2>2. SubSeq(code, n + 1, n) = <<>> /\ Append(<<>>, ch) = <<ch>>
        BY <1>1 DEF n
    <2>3. SubSeq(c, n + 1, n + 1) = <<ch>>
        <3>1. n \in 0..n
            BY <1>1
        <3>2. QED
            BY <1>1, <2>2, <3>1
    <2>4. n # 0 => n \in 1..n
        BY <1>1
    <2>5. TailFrom(c, <<ch>>, n + 1, n)
        BY <1>1, <1>6, <1>9, <2>1, <2>3, <2>4, Zenon DEF TailFrom
    <2>6. QED
        BY <1>7, <2>5, Zenon DEF TailIs
<1>10. ASSUME ch \in Cmd!Operators, n # 0, code[n] \in Cmd!Operators
       PROVE  TailIs(c, Append(ops, ch))
    <2>1. ch # "blank" /\ code[n] # "blank"
        BY <1>10, EscapableIsApart, Zenon
    <2>2. m = n
        <3>1. m # n => n \in (m + 1)..n
            BY <1>1, <1>4
        <3>2. QED
            BY <1>3, <2>1, <3>1
    <2>3. SubSeq(c, from + 1, n + 1) = Append(ops, ch)
        BY <1>1, <1>3, <1>4, <2>2
    <2>4. from # 0 => from \in 1..n
        BY <1>4
    <2>5. TailFrom(c, Append(ops, ch), n + 1, from)
        BY <1>1, <1>3, <1>6, <2>1, <2>3, <2>4, Zenon DEF TailFrom
    <2>6. from \in 0..(n + 1)
        BY <1>4
    <2>7. QED
        BY <1>7, <2>5, <2>6, Zenon DEF TailIs
<1> QED
    BY <1>5, <1>8, <1>9, <1>10, Zenon DEF TailGrown, c, n
\* The largest of some places, and zero for none.
LEMMA FurthestIsThere ==
    ASSUME NEW n \in Nat, NEW N, N \subseteq 1..n
    PROVE  /\ Cmd!Max({0} \cup N) \in 0..n
           /\ Cmd!Max({0} \cup N) = 0 \/ Cmd!Max({0} \cup N) \in N
           /\ \A x \in N : x <= Cmd!Max({0} \cup N)
<1> DEFINE S == {0} \cup N
           m == Cmd!Max(S)
<1>1. \E x \in S : \A y \in S : x >= y
    <2>1. CASE N = {}
        BY <2>1
    <2>2. CASE N # {}
        <3>1. Max(N) \in N /\ \A x \in N : x <= Max(N)
            BY <2>2, LargestIsThere
        <3> DEFINE x == Max(N)
        <3> HIDE DEF x
        <3>2. x \in S /\ \A y \in S : x >= y
            <4>1. x \in N /\ (\A y \in N : y <= x) /\ (\A y \in N : y \in 1..n)
                BY <3>1 DEF x
            <4>2. QED
                BY <4>1
        <3> HIDE DEF S
        <3>3. QED
            BY <3>2, Zenon
    <2>3. QED
        BY <2>1, <2>2
<1> HIDE DEF S
<1>2. m \in S /\ \A y \in S : m >= y
    BY <1>1, Zenon DEF Cmd!Max
<1>3. (\A x \in S : x \in 0..n /\ (x = 0 \/ x \in N)) /\ \A x \in N : x \in S
    BY DEF S
<1> HIDE DEF m
<1>4. m \in 0..n /\ (m = 0 \/ m \in N) /\ \A x \in N : x <= m
    BY <1>2, <1>3
<1> QED
    BY <1>4 DEF m, S

\* What a text ends in, by its places.
LEMMA Backwards ==
    ASSUME NEW B, NEW s \in Seq(B)
    PROVE  Reverse(s) \in Seq(B) /\ Len(Reverse(s)) = Len(s) /\ \A k \in 1..Len(s) : Reverse(s)[k] = s[Len(s) - k + 1]
BY DEF Reverse

\* A text ends in one character when that is its last.
LEMMA EndsInOne ==
    ASSUME NEW B, NEW s \in Seq(B), NEW x \in B
    PROVE  Cmd!IsSuffix(<<x>>, s) <=> Len(s) >= 1 /\ s[Len(s)] = x
<1> DEFINE n == Len(s)
           a == Reverse(<<x>>)
           b == Reverse(s)
<1>1. Cmd!IsSuffix(<<x>>, s) <=> (Len(a) <= Len(b) /\ SubSeq(a, 1, Len(a)) = SubSeq(b, 1, Len(a)))
    BY Zenon DEF Cmd!IsSuffix, Cmd!IsPrefix, Cmd!Reverse, Reverse
<1>2. <<x>> \in Seq(B) /\ Len(<<x>>) = 1 /\ <<x>>[1] = x
    OBVIOUS
<1>3. a \in Seq(B) /\ Len(a) = 1 /\ a[1] = x
    <2>1. /\ Reverse(<<x>>) \in Seq(B) /\ Len(Reverse(<<x>>)) = Len(<<x>>)
          /\ \A k \in 1..Len(<<x>>) : Reverse(<<x>>)[k] = <<x>>[Len(<<x>>) - k + 1]
        BY <1>2, Backwards, Zenon
    <2>2. 1 \in 1..1 /\ 1 - 1 + 1 = 1
        OBVIOUS
    <2>3. QED
        BY <1>2, <2>1, <2>2, Zenon
<1>4. n \in Nat /\ b \in Seq(B) /\ Len(b) = n /\ (n >= 1 => b[1] = s[n])
    <2>1. n \in Nat /\ b \in Seq(B) /\ Len(b) = n /\ \A k \in 1..n : b[k] = s[n - k + 1]
        BY Backwards
    <2>2. n >= 1 => 1 \in 1..n /\ n - 1 + 1 = n
        BY <2>1
    <2>3. QED
        BY <2>1, <2>2
<1> HIDE DEF a, b, n
<1>5. ASSUME n >= 1
      PROVE  SubSeq(a, 1, 1) = SubSeq(b, 1, 1) <=> b[1] = x
    <2> DEFINE u == SubSeq(a, 1, 1)
               v == SubSeq(b, 1, 1)
    <2>1. /\ u \in Seq(B) /\ Len(u) = 1 /\ v \in Seq(B) /\ Len(v) = 1
          /\ 1 \in 1..1 /\ u[1] = a[1] /\ v[1] = b[1]
        BY <1>3, <1>4, <1>5
    <2>2. \A j \in 1..1 : j = 1
        OBVIOUS
    <2> HIDE DEF u, v
    <2>3. b[1] = x => u = v
        <3> SUFFICES ASSUME b[1] = x
                     PROVE  u = v
            OBVIOUS
        <3>1. \A j \in 1..Len(u) : u[j] = v[j]
            BY <1>3, <2>1, <2>2
        <3>2. QED
            BY <2>1, <3>1, SeqEqual
    <2>4. u = v => b[1] = x
        BY <1>3, <2>1
    <2>5. QED
        BY <2>3, <2>4 DEF u, v
<1>6. Cmd!IsSuffix(<<x>>, s) <=> n >= 1 /\ s[n] = x
    BY <1>1, <1>3, <1>4, <1>5
<1> QED
    BY <1>6 DEF n

\* A text ends in two characters when these are its last, in that order.
LEMMA EndsInTwo ==
    ASSUME NEW B, NEW s \in Seq(B), NEW x \in B, NEW y \in B
    PROVE  Cmd!IsSuffix(<<x, y>>, s) <=> Len(s) >= 2 /\ s[Len(s) - 1] = x /\ s[Len(s)] = y
<1> DEFINE n == Len(s)
           p == <<x, y>>
           a == Reverse(p)
           b == Reverse(s)
<1>1. Cmd!IsSuffix(p, s) <=> (Len(a) <= Len(b) /\ SubSeq(a, 1, Len(a)) = SubSeq(b, 1, Len(a)))
    BY Zenon DEF Cmd!IsSuffix, Cmd!IsPrefix, Cmd!Reverse, Reverse
<1>2. p \in Seq(B) /\ Len(p) = 2 /\ p[1] = x /\ p[2] = y
    OBVIOUS
<1> HIDE DEF p
<1>3. a \in Seq(B) /\ Len(a) = 2 /\ a[1] = y /\ a[2] = x
    <2>1. a \in Seq(B) /\ Len(a) = Len(p) /\ \A k \in 1..Len(p) : a[k] = p[Len(p) - k + 1]
        BY <1>2, Backwards, Zenon
    <2>2. 1 \in 1..2 /\ 2 \in 1..2 /\ 2 - 1 + 1 = 2 /\ 2 - 2 + 1 = 1
        OBVIOUS
    <2>3. QED
        BY <1>2, <2>1, <2>2, Zenon
<1>4. n \in Nat /\ b \in Seq(B) /\ Len(b) = n /\ (n >= 2 => b[1] = s[n] /\ b[2] = s[n - 1])
    <2>1. n \in Nat /\ b \in Seq(B) /\ Len(b) = n /\ \A k \in 1..n : b[k] = s[n - k + 1]
        BY Backwards
    <2>2. n >= 2 => 1 \in 1..n /\ 2 \in 1..n /\ n - 1 + 1 = n /\ n - 2 + 1 = n - 1
        BY <2>1
    <2>3. QED
        BY <2>1, <2>2
<1> HIDE DEF a, b, n
<1>5. ASSUME n >= 2
      PROVE  SubSeq(a, 1, 2) = SubSeq(b, 1, 2) <=> b[1] = y /\ b[2] = x
    <2> DEFINE u == SubSeq(a, 1, 2)
               v == SubSeq(b, 1, 2)
    <2>1. /\ u \in Seq(B) /\ Len(u) = 2 /\ v \in Seq(B) /\ Len(v) = 2
          /\ 1 \in 1..2 /\ 2 \in 1..2 /\ u[1] = a[1] /\ v[1] = b[1] /\ u[2] = a[2] /\ v[2] = b[2]
        BY <1>3, <1>4, <1>5
    <2>2. \A j \in 1..2 : j = 1 \/ j = 2
        OBVIOUS
    <2> HIDE DEF u, v
    <2>3. b[1] = y /\ b[2] = x => u = v
        <3> SUFFICES ASSUME b[1] = y /\ b[2] = x
                     PROVE  u = v
            OBVIOUS
        <3>1. \A j \in 1..Len(u) : u[j] = v[j]
            BY <1>3, <2>1, <2>2
        <3>2. QED
            BY <2>1, <3>1, SeqEqual
    <2>4. u = v => b[1] = y /\ b[2] = x
        BY <1>3, <2>1
    <2>5. QED
        BY <2>3, <2>4 DEF u, v
<1>6. Cmd!IsSuffix(p, s) <=> n >= 2 /\ s[n - 1] = x /\ s[n] = y
    BY <1>1, <1>3, <1>4, <1>5
<1> QED
    BY <1>6 DEF n, p

\* Of the operators at the end of a command, those that leave a pipeline open are
\* the ones the walk looks for.
EndRuns == {<<>>, <<"&">>, <<">">>, <<"|">>, <<"|", "|">>, <<"&", "&">>, <<">", "|">>}

\* So trailingOperator tells a command that is cut off.
LEMMA EndRunTold ==
    ASSUME NEW B, {"|", "&", ">"} \subseteq B, NEW cut \in Seq(B), NEW from \in 0..Len(cut),
           from # 0 => cut[from] \notin Cmd!Operators,
           SubSeq(cut, from + 1, Len(cut)) \in EndRuns
    PROVE  SubSeq(cut, from + 1, Len(cut)) \in {<<"|">>, <<"|", "|">>, <<"&", "&">>}
               <=> Cmd!trailingOperator(cut)
<1> DEFINE m == Len(cut)
           e == SubSeq(cut, from + 1, m)
           Two(x, y) == m >= 2 /\ cut[m - 1] = x /\ cut[m] = y
           One == m >= 1 /\ cut[m] = "|"
<1>1. m \in Nat /\ from \in Nat /\ from <= m
    OBVIOUS
<1>2. "|" \in B /\ "&" \in B /\ ">" \in B
    OBVIOUS
<1>3. Cmd!trailingOperator(cut) <=> Two("&", "&") \/ Two("|", "|") \/ (One /\ ~Two(">", "|"))
    <2>1. Cmd!IsSuffix(<<"&", "&">>, cut) <=> Two("&", "&")
        BY <1>2, EndsInTwo, Zenon
    <2>2. Cmd!IsSuffix(<<"|", "|">>, cut) <=> Two("|", "|")
        BY <1>2, EndsInTwo, Zenon
    <2>3. Cmd!IsSuffix(<<">", "|">>, cut) <=> Two(">", "|")
        BY <1>2, EndsInTwo, Zenon
    <2>4. Cmd!IsSuffix(<<"|">>, cut) <=> One
        BY <1>2, EndsInOne, Zenon
    <2> HIDE DEF Two, One
    <2>5. QED
        BY <2>1, <2>2, <2>3, <2>4, Zenon DEF Cmd!trailingOperator
<1>4. /\ e \in Seq(B) /\ Len(e) = m - from
      /\ m - from >= 1 => e[m - from] = cut[m]
      /\ m - from = 2 => e[1] = cut[m - 1]
    OBVIOUS
<1>5. from # 0 => cut[from] # "|" /\ cut[from] # "&" /\ cut[from] # ">"
    BY DEF Cmd!Operators
<1>6. e \in EndRuns
    OBVIOUS
<1> DEFINE Open == e \in {<<"|">>, <<"|", "|">>, <<"&", "&">>}
<1> HIDE DEF m, e
<1>7. CASE e = <<>>
    <2>a. Len(<<>>) = 0
        OBVIOUS
    <2>b. <<>> \notin {<<"|">>, <<"|", "|">>, <<"&", "&">>}
        OBVIOUS
    <2>1. m = from
        BY <1>1, <1>4, <1>7, <2>a
    <2>c. ~Open
        BY <1>7, <2>b, Zenon
    <2>2. ~Two("&", "&") /\ ~Two("|", "|") /\ ~One
        BY <1>1, <1>5, <2>1
    <2>3. QED
        BY <1>3, <2>1, <2>2, <2>c DEF m, e
<1>8. CASE e = <<"&">>
    <2>a. Len(<<"&">>) = 1 /\ <<"&">>[1] = "&"
        OBVIOUS
    <2>b. <<"&">> \notin {<<"|">>, <<"|", "|">>, <<"&", "&">>}
        OBVIOUS
    <2>1. m = from + 1 /\ cut[m] = "&"
        BY <1>1, <1>4, <1>8, <2>a
    <2>c. ~Open
        BY <1>8, <2>b, Zenon
    <2>2. ~Two("&", "&") /\ ~Two("|", "|") /\ ~One
        BY <1>1, <1>5, <2>1
    <2>3. QED
        BY <1>3, <2>1, <2>2, <2>c DEF m, e
<1>9. CASE e = <<">">>
    <2>a. Len(<<">">>) = 1 /\ <<">">>[1] = ">"
        OBVIOUS
    <2>b. <<">">> \notin {<<"|">>, <<"|", "|">>, <<"&", "&">>}
        OBVIOUS
    <2>1. m = from + 1 /\ cut[m] = ">"
        BY <1>1, <1>4, <1>9, <2>a
    <2>c. ~Open
        BY <1>9, <2>b, Zenon
    <2>2. ~Two("&", "&") /\ ~Two("|", "|") /\ ~One
        BY <1>1, <1>5, <2>1
    <2>3. QED
        BY <1>3, <2>1, <2>2, <2>c DEF m, e
<1>10. CASE e = <<"|">>
    <2>a. Len(<<"|">>) = 1 /\ <<"|">>[1] = "|"
        OBVIOUS
    <2>b. <<"|">> \in {<<"|">>, <<"|", "|">>, <<"&", "&">>}
        OBVIOUS
    <2>1. m = from + 1 /\ cut[m] = "|"
        BY <1>1, <1>4, <1>10, <2>a
    <2>c. Open
        BY <1>10, <2>b, Zenon
    <2>2. One /\ ~Two(">", "|")
        BY <1>1, <1>5, <2>1
    <2>3. QED
        BY <1>3, <2>1, <2>2, <2>c DEF m, e
<1>11. CASE e = <<"|", "|">>
    <2>a. Len(<<"|", "|">>) = 2 /\ <<"|", "|">>[1] = "|" /\ <<"|", "|">>[2] = "|"
        OBVIOUS
    <2>b. <<"|", "|">> \in {<<"|">>, <<"|", "|">>, <<"&", "&">>}
        OBVIOUS
    <2>1. m = from + 2 /\ cut[m] = "|" /\ cut[m - 1] = "|"
        BY <1>1, <1>4, <1>11, <2>a
    <2>c. Open
        BY <1>11, <2>b, Zenon
    <2>2. Two("|", "|")
        BY <1>1, <2>1
    <2>3. QED
        BY <1>3, <2>1, <2>2, <2>c DEF m, e
<1>12. CASE e = <<"&", "&">>
    <2>a. Len(<<"&", "&">>) = 2 /\ <<"&", "&">>[1] = "&" /\ <<"&", "&">>[2] = "&"
        OBVIOUS
    <2>b. <<"&", "&">> \in {<<"|">>, <<"|", "|">>, <<"&", "&">>}
        OBVIOUS
    <2>1. m = from + 2 /\ cut[m] = "&" /\ cut[m - 1] = "&"
        BY <1>1, <1>4, <1>12, <2>a
    <2>c. Open
        BY <1>12, <2>b, Zenon
    <2>2. Two("&", "&")
        BY <1>1, <2>1
    <2>3. QED
        BY <1>3, <2>1, <2>2, <2>c DEF m, e
<1>13. CASE e = <<">", "|">>
    <2>a. Len(<<">", "|">>) = 2 /\ <<">", "|">>[1] = ">" /\ <<">", "|">>[2] = "|"
        OBVIOUS
    <2>b. <<">", "|">> \notin {<<"|">>, <<"|", "|">>, <<"&", "&">>}
        OBVIOUS
    <2>1. m = from + 2 /\ cut[m] = "|" /\ cut[m - 1] = ">"
        BY <1>1, <1>4, <1>13, <2>a
    <2>c. ~Open
        BY <1>13, <2>b, Zenon
    <2>2. Two(">", "|") /\ ~Two("&", "&") /\ ~Two("|", "|")
        BY <1>1, <2>1
    <2>3. QED
        BY <1>3, <2>1, <2>2, <2>c DEF m, e
<1> QED
    BY <1>6, <1>7, <1>8, <1>9, <1>10, <1>11, <1>12, <1>13 DEF EndRuns

\* Where nothing is open for the shell, nothing is for the walk.
LEMMA NothingLeftOpen ==
    ASSUME NEW o \in Seq(Openings), NEW q, NEW d, Stands(q, d, o)
    PROVE  /\ o = <<>> <=> q = "none" /\ d = 0
           /\ d \in Nat
<1> DEFINE n == Len(o)
<1>1. n \in Nat /\ (o = <<>> <=> n = 0)
    BY StackPlaces, Zenon
<1> HIDE DEF n
<1>2. CASE Outside(q, d, o)
    BY <1>1, <1>2 DEF Outside, n
<1>3. CASE OnTop(q, d, o)
    <2>1. q # "none" /\ n >= 1 /\ d = n - 1
        BY <1>3, QuotesDiffer DEF OnTop, n
    <2>2. QED
        BY <1>1, <2>1
<1>4. CASE Below(q, d, o)
    <2>1. q # "none" /\ n >= 2 /\ d = n - 1
        BY <1>4, QuotesDiffer DEF Below, n
    <2>2. QED
        BY <1>1, <2>1
<1> QED
    BY <1>2, <1>3, <1>4 DEF Stands

\* What Ordinary says of the i-th character.
OrdinaryThere(text, i, h, g) ==
    /\ h.escaped => text[i] \in Escapable
    /\ h.comment => text[i] # "joined"
    /\ i > 1 /\ text[i - 1] = "joined" /\ text[i] \in Cmd!Operators => h.last \notin Cmd!Operators
    /\ i > 1 /\ text[i - 1] = "joined" /\ text[i] = "#" => Cmd!AtWord(h)
    /\ Admitted(text, i, h, g)
LEMMA OrdinaryAt ==
    ASSUME NEW B, NEW text \in Seq(B), Cmd!Ordinary(text), NEW i \in 1..Len(text),
           Cmd!Shell(text)[i].open \in Seq(Openings)
    PROVE  OrdinaryThere(text, i, Cmd!Shell(text)[i - 1], Cmd!Shell(text)[i])
<1> DEFINE h == Cmd!Shell(text)[i - 1]
           g == Cmd!Shell(text)[i]
<1>1. i \in DOMAIN text /\ DOMAIN g.open = 1..Len(g.open)
    OBVIOUS
<1>2. /\ h.escaped => text[i] \in {"x", "'", "\"", "\\"}
      /\ ~\E j, k \in DOMAIN g.open : j < k /\ g.open[j] = "\"" /\ g.open[k] = "$(" /\ k < Len(g.open)
      /\ g.comment => "\"" \notin Cmd!ToSet(g.open)
      /\ "$(" \in Cmd!ToSet(h.open) => (text[i] = ")" => Cmd!Last(h.open) # "\"")
      /\ Cmd!Joins(text, i)
    BY <1>1, Zenon DEF Cmd!Ordinary
<1>3. Cmd!ToSet(g.open) = ToSet(g.open) /\ Cmd!ToSet(h.open) = ToSet(h.open) /\ Cmd!Last(h.open) = Last(h.open)
    BY Zenon DEF Cmd!ToSet, ToSet, Cmd!Last, Last
<1>4. /\ h.comment => text[i] # "joined"
      /\ i > 1 /\ text[i - 1] = "joined" /\ text[i] \in Cmd!Operators => h.last \notin Cmd!Operators
      /\ i > 1 /\ text[i - 1] = "joined" /\ text[i] = "#" => Cmd!AtWord(h)
    BY <1>2, Zenon DEF Cmd!Joins
<1>5. Admitted(text, i, h, g)
    BY <1>1, <1>2, <1>3, Zenon DEF Admitted, Buried, DoubleQuote
<1> HIDE DEF h, g
<1>6. OrdinaryThere(text, i, h, g)
    BY <1>2, <1>4, <1>5, Zenon DEF OrdinaryThere, Escapable
<1> QED
    BY <1>6 DEF h, g

\* What the walk has taken ends in the operators that stand last for the shell;
\* where no comment has begun it has taken every character, a blank for a join,
\* and the last the shell has read is the last of the text, or what an escape or
\* a join stands behind.
Kept(text, s, h, k) ==
    /\ TailIs(s.code, h.run)
    /\ ~h.comment =>
          /\ Len(s.code) = k
          /\ k = 0 => h.last = "blank"
          /\ k # 0 => s.code[k] = IF text[k] = "joined" THEN "blank" ELSE text[k]
          /\ k # 0 /\ text[k] # "joined" =>
                h.last = text[k] \/ (h.last = "escaped" /\ text[k] \in Escapable)
          /\ h.last = "blank" /\ k # 0 => s.code[k] = "blank"
          /\ h.last \notin Cmd!Operators /\ h.last # "blank" => h.run = <<>>

\* A word begins for the walk where one begins for the shell, at any "#".
LEMMA WordsAlike ==
    ASSUME NEW B, NEW text \in Seq(B), NEW k \in Nat, k + 1 <= Len(text), NEW s, NEW h, Kept(text, s, h, k),
           NEW g, OrdinaryThere(text, k + 1, h, g), ~h.comment, text[k + 1] = "#"
    PROVE  Cmd!startsWord(Cmd!Spaced(text), k + 1) <=> Cmd!AtWord(h)
<1> DEFINE i == k + 1
           spaced == Cmd!Spaced(text)
<1>1. (i = 1 <=> k = 0) /\ i - 1 = k /\ (k # 0 => i > 1 /\ k \in DOMAIN text)
    OBVIOUS
<1>2. k # 0 => spaced[k] = IF text[k] = "joined" THEN "blank" ELSE text[k]
    BY <1>1 DEF Cmd!Spaced
<1> HIDE DEF i, spaced
<1>3. Cmd!startsWord(spaced, i) <=> k = 0 \/ spaced[k] \in Cmd!BeginWord
    BY <1>1, Zenon DEF Cmd!startsWord
<1>4. /\ k = 0 => h.last = "blank"
      /\ k # 0 /\ text[k] # "joined" => h.last = text[k] \/ (h.last = "escaped" /\ text[k] \in Escapable)
    BY Zenon DEF Kept
<1>5. i > 1 /\ text[k] = "joined" => Cmd!AtWord(h)
    BY <1>1, Zenon DEF OrdinaryThere, i
<1>6. Cmd!AtWord(h) <=> h.last \in Cmd!BeginWord
    BY Zenon DEF Cmd!AtWord
<1> SUFFICES Cmd!startsWord(spaced, i) <=> Cmd!AtWord(h)
    BY DEF i, spaced
<1>7. CASE k = 0
    BY <1>3, <1>4, <1>6, <1>7, EscapableIsApart, Zenon
<1>8. CASE k # 0 /\ text[k] = "joined"
    BY <1>1, <1>2, <1>3, <1>5, <1>8, EscapableIsApart, Zenon
<1>9. CASE k # 0 /\ text[k] # "joined" /\ h.last = text[k]
    BY <1>2, <1>3, <1>6, <1>9, Zenon
<1>10. CASE k # 0 /\ text[k] # "joined" /\ h.last = "escaped" /\ text[k] \in Escapable
    BY <1>2, <1>3, <1>6, <1>10, EscapableIsApart, Zenon
<1> QED
    BY <1>4, <1>7, <1>8, <1>9, <1>10, Zenon

\* What is kept is kept over one character more.
LEMMA KeptStep ==
    ASSUME NEW B, NEW text \in Seq(B), "blank" \in B, NEW k \in Nat, k + 1 <= Len(text),
           NEW s \in Walks(B), NEW t, NEW h \in Shells(B), NEW g, Kept(text, s, h, k), Alike(s, h), Alike(t, g),
           OrdinaryThere(text, k + 1, h, g),
           StepsAlike(B, Cmd!Spaced(text), k + 1, s, t, g),
           text[k + 1] = "joined" => g = h,
           text[k + 1] # "joined" => ReadsOn(B, text, k + 1, h, g)
    PROVE  Kept(text, t, g, k + 1)
<1> DEFINE i == k + 1
           ch == IF text[i] = "joined" THEN "blank" ELSE text[i]
           code == s.code
           ops == h.run
           n == Len(code)
           c == Append(code, ch)
<1>1. i \in Nat /\ i # 0 /\ i \in DOMAIN text /\ text[i] \in B /\ ch \in B /\ i - 1 = k /\ (k # 0 => i > 1 /\ k \in 1..k)
    BY ElementOfSeq
<1>2. Cmd!Spaced(text)[i] = ch
    BY <1>1 DEF Cmd!Spaced
<1>3. code \in Seq(B) /\ TailIs(code, ops)
    BY Zenon DEF Walks, Kept
<1>4. /\ t \in Walks(B)
      /\ s.ended => t = s
      /\ ~s.ended /\ t.ended => t.code = code
      /\ ~s.ended /\ ~t.ended => t.code = c
    BY <1>2, Zenon DEF StepsAlike
<1>5. (s.ended <=> h.comment) /\ (t.ended <=> g.comment)
    BY Zenon DEF Alike
<1>6. TailGrown(code, ops, ch)
    BY <1>1, <1>3, TailGrows, Zenon
<1>7. Len(c) = n + 1 /\ c[n + 1] = ch
    <2>1. ch \in B /\ code \in Seq(B)
        BY <1>1, <1>3, Zenon
    <2> HIDE DEF ch, code
    <2>2. QED
        BY <2>1, OneCharacterMore, Zenon
<1>8. ~h.comment =>
          /\ n = k
          /\ k = 0 => h.last = "blank"
          /\ k # 0 => code[k] = IF text[k] = "joined" THEN "blank" ELSE text[k]
          /\ k # 0 /\ text[k] # "joined" => h.last = text[k] \/ (h.last = "escaped" /\ text[k] \in Escapable)
          /\ h.last = "blank" /\ k # 0 => code[k] = "blank"
          /\ h.last \notin Cmd!Operators /\ h.last # "blank" => ops = <<>>
    BY Zenon DEF Kept
<1>9. /\ h.escaped => text[i] \in Escapable
      /\ h.comment => text[i] # "joined"
      /\ i > 1 /\ text[i - 1] = "joined" /\ text[i] \in Cmd!Operators => h.last \notin Cmd!Operators
    BY Zenon DEF OrdinaryThere
<1>10. text[i] # "joined" =>
           /\ h.comment => g = h
           /\ ~h.comment /\ h.escaped => ~g.comment /\ g.last = "escaped" /\ g.run = <<>>
           /\ ~h.comment /\ ~h.escaped /\ Remarks(text, i, h) => g.comment /\ g.run = ops
           /\ ~h.comment /\ ~h.escaped /\ ~Remarks(text, i, h) =>
                 ~g.comment /\ g.last = text[i] /\ g.run = Cmd!Standing(h, text[i])
    BY Zenon DEF ReadsOn
<1>11. text[i] = "joined" => g = h
    OBVIOUS
<1> HIDE DEF i, ch, code, ops, n, c
<1> DEFINE K == /\ TailIs(t.code, g.run)
                /\ ~g.comment =>
                      /\ Len(t.code) = i
                      /\ t.code[i] = ch
                      /\ text[i] # "joined" => g.last = text[i] \/ (g.last = "escaped" /\ text[i] \in Escapable)
                      /\ g.last = "blank" => t.code[i] = "blank"
                      /\ g.last \notin Cmd!Operators /\ g.last # "blank" => g.run = <<>>
<1>12. SUFFICES K
    BY <1>1, Zenon DEF Kept, i, ch
<1>13. CASE h.comment
    BY <1>3, <1>4, <1>5, <1>9, <1>10, <1>13, Zenon DEF code, ops
<1>14. CASE ~h.comment /\ text[i] = "joined"
    <2>1. g = h /\ ~t.ended /\ ~s.ended /\ t.code = c /\ ch = "blank" /\ n = k
        BY <1>4, <1>5, <1>8, <1>11, <1>14, Zenon DEF ch
    <2>2. TailIs(c, ops)
        BY <1>6, <2>1, Zenon DEF TailGrown, c
    <2>3. Len(c) = i /\ c[i] = ch
        BY <1>7, <2>1, Zenon DEF i
    <2>4. QED
        BY <1>8, <1>14, <2>1, <2>2, <2>3, Zenon DEF ops
<1>15. ASSUME ~h.comment, text[i] # "joined", ~g.comment
       PROVE  t.code = c /\ Len(c) = i /\ c[i] = ch /\ ch = text[i] /\ n = k
    BY <1>4, <1>5, <1>7, <1>8, <1>15, Zenon DEF i, ch
<1>16. CASE ~h.comment /\ text[i] # "joined" /\ h.escaped
    <2>1. ~g.comment /\ g.last = "escaped" /\ g.run = <<>> /\ text[i] \in Escapable
        BY <1>9, <1>10, <1>16, Zenon
    <2>2. t.code = c /\ Len(c) = i /\ c[i] = ch /\ ch = text[i]
        BY <1>15, <1>16, <2>1, Zenon
    <2>3. ch \notin Cmd!Operators /\ ch # "blank"
        BY <2>1, <2>2, EscapableIsApart, Zenon
    <2>4. TailIs(c, <<>>)
        BY <1>6, <2>3, Zenon DEF TailGrown, c
    <2>5. QED
        BY <2>1, <2>2, <2>4, EscapableIsApart, Zenon
<1>17. CASE ~h.comment /\ text[i] # "joined" /\ ~h.escaped /\ Remarks(text, i, h)
    BY <1>3, <1>4, <1>5, <1>10, <1>17, Zenon DEF code, ops
<1>18. CASE ~h.comment /\ text[i] # "joined" /\ ~h.escaped /\ ~Remarks(text, i, h)
    <2>1. ~g.comment /\ g.last = ch /\ g.run = Cmd!Standing(h, ch)
        BY <1>10, <1>18, Zenon DEF ch
    <2>2. t.code = c /\ Len(c) = i /\ c[i] = ch /\ ch = text[i] /\ n = k
        BY <1>15, <1>18, <2>1, Zenon
    <2>3. /\ ch = "blank" => g.run = ops
          /\ ch # "blank" /\ ch \in Cmd!Operators =>
                g.run = IF h.last = "blank" THEN <<ch>> ELSE Append(ops, ch)
          /\ ch # "blank" /\ ch \notin Cmd!Operators => g.run = <<>>
        <3> DEFINE r == Cmd!Standing(h, ch)
        <3>1. r = CASE ch = "blank" -> ops
                    [] ch \in Cmd!Operators -> IF h.last = "blank" THEN <<ch>> ELSE Append(ops, ch)
                    [] OTHER -> <<>>
            BY Zenon DEF Cmd!Standing, ops
        <3>2. g.run = r
            BY <2>1, Zenon
        <3>3. "blank" \notin Cmd!Operators
            BY EscapableIsApart, Zenon
        <3> HIDE DEF r
        <3>4. QED
            BY <3>1, <3>2, <3>3
    <2>4. SUFFICES TailIs(c, g.run)
        BY <2>1, <2>2, <2>3, Zenon
    <2>5. CASE ch = "blank"
        BY <1>6, <2>3, <2>5, Zenon DEF TailGrown, c
    <2>6. CASE ch # "blank" /\ ch \notin Cmd!Operators
        BY <1>6, <2>3, <2>6, Zenon DEF TailGrown, c
    <2>7. CASE ch # "blank" /\ ch \in Cmd!Operators
        <3>1. CASE k # 0 /\ code[k] \in Cmd!Operators
            <4>1. text[k] # "joined" /\ code[k] = text[k]
                BY <1>8, <1>18, <3>1, EscapableIsApart, Zenon
            <4>2. h.last = text[k]
                BY <1>8, <1>18, <3>1, <4>1, EscapableIsApart, Zenon
            <4>3. g.run = Append(ops, ch)
                BY <2>3, <2>7, <3>1, <4>1, <4>2, EscapableIsApart, Zenon
            <4>4. n # 0 /\ code[n] \in Cmd!Operators
                BY <2>2, <3>1, Zenon
            <4>5. QED
                BY <1>6, <2>7, <4>3, <4>4, Zenon DEF TailGrown, c, n
        <3>2. CASE k # 0 => code[k] \notin Cmd!Operators
            <4>1. h.last # "blank" => h.last \notin Cmd!Operators
                <5> SUFFICES ASSUME h.last # "blank", h.last \in Cmd!Operators
                             PROVE  FALSE
                    OBVIOUS
                <5>1. k # 0
                    BY <1>8, <1>18, Zenon
                <5>2. text[k] # "joined"
                    BY <1>1, <1>9, <2>2, <2>7, <5>1, Zenon
                <5>3. h.last = text[k] /\ code[k] = text[k]
                    BY <1>8, <1>18, <5>1, <5>2, EscapableIsApart, Zenon
                <5>4. QED
                    BY <3>2, <5>1, <5>3, Zenon
            <4>2. h.last # "blank" => ops = <<>>
                BY <1>8, <1>18, <4>1, Zenon
            <4>3. Append(<<>>, ch) = <<ch>>
                OBVIOUS
            <4>4. g.run = <<ch>>
                BY <2>3, <2>7, <4>2, <4>3, Zenon
            <4>5. n # 0 => code[n] \notin Cmd!Operators
                BY <2>2, <3>2, Zenon
            <4>6. QED
                BY <1>6, <2>7, <4>4, <4>5, Zenon DEF TailGrown, c, n
        <3>3. QED
            BY <3>1, <3>2, Zenon
    <2>8. QED
        BY <2>5, <2>6, <2>7, Zenon
<1> QED
    BY <1>13, <1>14, <1>16, <1>17, <1>18, Zenon

\* The walk and the shell stay together.
Together(B, text, w, k) ==
    /\ w[k] \in Walks(B) /\ Cmd!Shell(text)[k] \in Shells(B) /\ Alike(w[k], Cmd!Shell(text)[k])
    /\ Kept(text, w[k], Cmd!Shell(text)[k], k)

\* They do so over an ordinary command, to its end.
LEMMA TogetherAlways ==
    ASSUME NEW B, "blank" \in B, NEW text \in Seq(B), Cmd!Ordinary(text), NEW w, Goes(w, Cmd!Spaced(text))
    PROVE  Together(B, text, w, Len(text))
<1> DEFINE n == Len(text)
           sh == Cmd!Shell(text)
           spaced == Cmd!Spaced(text)
           T == {k \in Nat : k <= n => Together(B, text, w, k)}
<1>1. n \in Nat /\ DOMAIN text = 1..n /\ \A k \in 1..n : text[k] \in B
    BY ElementOfSeq
<1>2. sh[0] = Cmd!NothingRead /\ \A k \in 1..n : sh[k] = Cmd!Reads(text, sh[k - 1], k)
    BY <1>1, ShellUnfolds, Zenon
<1>3. Len(spaced) = n /\ \A k \in 1..n : spaced[k] = IF text[k] = "joined" THEN "blank" ELSE text[k]
    BY <1>1 DEF Cmd!Spaced
<1>4. w[0] = Cmd!Start /\ \A k \in 1..n : w[k] = Cmd!Step(spaced, w[k - 1], k)
    <2> HIDE DEF n, spaced
    <2>1. QED
        BY <1>3 DEF Goes, spaced
<1> HIDE DEF sh, spaced
<1>5. 0 \in T
    <2>1. Cmd!Start \in Walks(B) /\ Cmd!NothingRead \in Shells(B)
        <3>1. <<>> \in Seq(B) /\ <<>> \in Seq(Openings)
            OBVIOUS
        <3>2. QED
            BY <3>1 DEF Walks, Shells, Cmd!Start, Cmd!NothingRead
    <2>2. Len(<<>>) = 0 /\ (\A k \in 1..0 : FALSE) /\ 0 <= 0
        OBVIOUS
    <2>3. Outside("none", 0, <<>>)
        BY <2>2 DEF Outside
    <2>4. Alike(Cmd!Start, Cmd!NothingRead)
        BY <2>3, Zenon DEF Alike, Stands, Cmd!Start, Cmd!NothingRead
    <2>5. Kept(text, Cmd!Start, Cmd!NothingRead, 0)
        <3>1. TailIs(<<>>, <<>>)
            <4>1. SubSeq(<<>>, 0 + 1, 0) = <<>> /\ 0 \in 0..Len(<<>>) /\ 0 \in 0..0 /\ \A k \in (0 + 1)..Len(<<>>) : FALSE
                OBVIOUS
            <4>2. TailFrom(<<>>, <<>>, 0, 0)
                BY <4>1, Zenon DEF TailFrom
            <4>3. QED
                BY <4>1, <4>2, Zenon DEF TailIs
        <3>2. /\ Cmd!Start.code = <<>> /\ Cmd!NothingRead.run = <<>>
              /\ ~Cmd!NothingRead.comment /\ Cmd!NothingRead.last = "blank"
            BY DEF Cmd!Start, Cmd!NothingRead
        <3>3. QED
            BY <2>2, <3>1, <3>2, Zenon DEF Kept
    <2>6. Together(B, text, w, 0)
        BY <1>2, <1>4, <2>1, <2>4, <2>5, Zenon DEF Together, sh
    <2>7. 0 \in Nat
        OBVIOUS
    <2>8. QED
        BY <2>6, <2>7
<1>6. ASSUME NEW k \in T
      PROVE  k + 1 \in T
    <2>1. k \in Nat /\ k + 1 \in Nat
        BY <1>6
    <2> SUFFICES ASSUME k + 1 <= n
                 PROVE  Together(B, text, w, k + 1)
        BY <2>1
    <2>2. k <= n /\ k + 1 \in 1..n /\ (k + 1) - 1 = k /\ k + 1 <= Len(text)
        BY <1>1, <2>1
    <2>3. Together(B, text, w, k)
        BY <1>6, <2>2
    <2> DEFINE s == w[k]
               t == w[k + 1]
               h == sh[k]
               g == sh[k + 1]
    <2>4. t = Cmd!Step(spaced, s, k + 1) /\ g = Cmd!Reads(text, h, k + 1)
        BY <1>2, <1>4, <2>2
    <2>5. s \in Walks(B) /\ h \in Shells(B) /\ Alike(s, h) /\ Kept(text, s, h, k)
        BY <2>3, Zenon DEF Together, sh
    <2>6. text[k + 1] \in B /\ spaced[k + 1] = (IF text[k + 1] = "joined" THEN "blank" ELSE text[k + 1])
        BY <1>1, <1>3, <2>2
    <2>7. text[k + 1] = "joined" /\ h.comment => FALSE
        <3>1. Cmd!Joins(text, k + 1)
            BY <1>1, <2>2, Zenon DEF Cmd!Ordinary
        <3>2. QED
            BY <2>2, <3>1, Zenon DEF Cmd!Joins, sh
    <2>8. text[k + 1] = "joined" => g = h
        BY <2>4, <2>7, Zenon DEF Cmd!Reads
    <2>9. text[k + 1] # "joined" => ReadsOn(B, text, k + 1, h, g)
        BY <2>4, <2>5, <2>6, ShellSteps, Zenon
    <2>10. g \in Shells(B)
        BY <2>5, <2>8, <2>9, Zenon DEF ReadsOn
    <2>11. OrdinaryThere(text, k + 1, h, g)
        <3>1. Cmd!Shell(text)[k + 1].open \in Seq(Openings)
            BY <2>10 DEF Shells, sh
        <3>2. OrdinaryThere(text, k + 1, Cmd!Shell(text)[(k + 1) - 1], Cmd!Shell(text)[k + 1])
            BY <2>2, <3>1, OrdinaryAt, Zenon
        <3>3. QED
            BY <2>2, <3>2, Zenon DEF sh
    <2>12. ~h.comment /\ text[k + 1] = "#" => (Cmd!startsWord(spaced, k + 1) <=> Cmd!AtWord(h))
        BY <2>1, <2>2, <2>5, <2>11, WordsAlike, Zenon DEF spaced
    <2> HIDE DEF s, t, h, g
    <2>13. StepsAlike(B, spaced, k + 1, s, t, g)
        <3>1. CASE text[k + 1] = "joined"
            <4>1. ~h.comment /\ ~h.escaped
                <5>1. h.escaped => text[k + 1] \in Escapable
                    BY <2>11, Zenon DEF OrdinaryThere
                <5>2. QED
                    BY <2>7, <3>1, <5>1, EscapableIsApart, Zenon
            <4>2. spaced[k + 1] = "blank"
                BY <2>6, <3>1
            <4>3. StepsAlike(B, spaced, k + 1, s, Cmd!Step(spaced, s, k + 1), Cmd!Reads(text, h, k + 1))
                BY <2>5, <3>1, <4>1, <4>2, JoinAlike, Zenon
            <4>4. QED
                BY <2>4, <4>3, Zenon
        <3>2. CASE text[k + 1] # "joined"
            <4>1. spaced[k + 1] = text[k + 1] /\ Len(spaced) = Len(text)
                BY <1>3, <2>6, <3>2
            <4>2. Admitted(text, k + 1, h, Cmd!Reads(text, h, k + 1))
                BY <2>4, <2>11, Zenon DEF OrdinaryThere
            <4>3. StepsAlike(B, text, k + 1, s, Cmd!Step(spaced, s, k + 1), Cmd!Reads(text, h, k + 1))
                BY <2>5, <2>6, <2>12, <3>2, <4>1, <4>2, AlikeStep, Zenon
            <4>4. QED
                BY <2>4, <4>1, <4>3, Zenon DEF StepsAlike
        <3>3. QED
            BY <3>1, <3>2
    <2>14. t \in Walks(B) /\ Alike(t, g)
        BY <2>13, Zenon DEF StepsAlike
    <2>15. Kept(text, t, g, k + 1)
        BY <2>1, <2>2, <2>5, <2>8, <2>9, <2>11, <2>13, <2>14, KeptStep, Zenon DEF spaced
    <2>16. QED
        BY <2>10, <2>14, <2>15, Zenon DEF Together, t, g, sh
<1>7. n \in T
    <2> HIDE DEF T, n
    <2>1. T \in SUBSET Nat
        BY DEF T
    <2>2. T = Nat
        BY <1>5, <1>6, <2>1, FromZero, Zenon
    <2>3. QED
        BY <1>1, <2>2
<1>8. n <= n
    BY <1>1
<1> QED
    BY <1>7, <1>8

\* Trimmed of its blanks, a text ends where TailIs has it end.
LEMMA TrimmedThere ==
    ASSUME NEW B, NEW code \in Seq(B), NEW m \in 0..Len(code),
           \A k \in (m + 1)..Len(code) : code[k] = "blank",
           m # 0 => code[m] # "blank"
    PROVE  Cmd!TrimBlanks(code) = SubSeq(code, 1, m)
<1> DEFINE N == {k \in DOMAIN code : code[k] # "blank"}
           n == Len(code)
           x == Cmd!Max({0} \cup N)
<1>1. n \in Nat /\ N \subseteq 1..n /\ DOMAIN code = 1..n
    OBVIOUS
<1>2. Cmd!TrimBlanks(code) = SubSeq(code, 1, x)
    BY DEF Cmd!TrimBlanks
<1>3. x \in 0..n /\ (x = 0 \/ x \in N) /\ \A y \in N : y <= x
    <2> HIDE DEF N, n
    <2>1. QED
        BY <1>1, FurthestIsThere
<1> HIDE DEF x
<1>4. m # 0 => m \in N
    BY <1>1
<1>5. ~(x > m)
    <2> SUFFICES ASSUME x > m
                 PROVE  FALSE
        OBVIOUS
    <2>1. x \in (m + 1)..n /\ x # 0
        BY <1>3
    <2>2. QED
        BY <1>3, <2>1
<1>6. x = m
    <2> HIDE DEF N
    <2>1. QED
        BY <1>3, <1>4, <1>5
<1> QED
    BY <1>2, <1>6

\* The lines of a command, as they are written, are a text of their characters.
LEMMA WrittenIsText ==
    ASSUME NEW B, "joined" \in B, NEW lines \in Seq(Seq(B))
    PROVE  Cmd!Written(lines) \in Seq(B)
<1> DEFINE n == Len(lines)
           S == Seq(B)
           piece(i) == (IF i = 1 THEN <<>> ELSE <<"joined">>)
                           \o (IF i = Len(lines) THEN lines[i] ELSE Cmd!Front(lines[i]))
           c == [i \in 1..n |-> piece(i)]
<1>1. n \in Nat /\ DOMAIN lines = 1..n /\ \A i \in 1..n : lines[i] \in S
    <2> HIDE DEF S
    <2>1. n \in Nat /\ DOMAIN lines = 1..n /\ lines \in Seq(S)
        BY DEF S
    <2>2. QED
        BY <2>1, ElementOfSeq
<1>2. ASSUME NEW i \in 1..n
      PROVE  piece(i) \in S
    <2> DEFINE line == lines[i]
    <2>1. line \in Seq(B)
        BY <1>1
    <2> HIDE DEF line
    <2>2. Cmd!Front(line) \in Seq(B)
        BY <2>1 DEF Cmd!Front
    <2>3. <<>> \in Seq(B) /\ <<"joined">> \in Seq(B)
        OBVIOUS
    <2> DEFINE a == IF i = 1 THEN <<>> ELSE <<"joined">>
               b == IF i = Len(lines) THEN line ELSE Cmd!Front(line)
    <2>4. a \in Seq(B) /\ b \in Seq(B)
        BY <2>1, <2>2, <2>3
    <2> HIDE DEF a, b
    <2>5. a \o b \in Seq(B)
        BY <2>4
    <2>6. QED
        BY <2>5 DEF a, b, line
<1>3. Cmd!Written(lines) = FlattenSeq(c)
    <2>1. Cmd!Written(lines) = Cmd!FlattenSeq(c)
        BY <1>1, Zenon DEF Cmd!Written
    <2>2. Cmd!FlattenSeq(c) = FlattenSeq(c)
        BY Zenon DEF Cmd!FlattenSeq, FlattenSeq
    <2>3. QED
        BY <2>1, <2>2, Zenon
<1> HIDE DEF piece, S
<1>4. c \in [1..n -> S]
    BY <1>2
<1> HIDE DEF c, n
<1>5. FlattenSeq(c) \in Seq(B)
    BY <1>1, <1>4, JoinedFrom, Zenon DEF S
<1> QED
    BY <1>3, <1>5

\* So is what the linter makes of it.
LEMMA SpacedIsText ==
    ASSUME NEW B, "blank" \in B, NEW text \in Seq(B)
    PROVE  Cmd!Spaced(text) \in Seq(B) /\ Len(Cmd!Spaced(text)) = Len(text)
<1> DEFINE n == Len(text)
           f == [i \in 1..n |-> IF text[i] = "joined" THEN "blank" ELSE text[i]]
<1>1. n \in Nat /\ DOMAIN text = 1..n /\ \A i \in 1..n : text[i] \in B
    BY ElementOfSeq
<1>2. Cmd!Spaced(text) = f
    BY <1>1, Zenon DEF Cmd!Spaced
<1> HIDE DEF n
<1>3. f \in [1..n -> B]
    BY <1>1
<1> HIDE DEF f
<1>4. f \in Seq(B) /\ Len(f) = n
    BY <1>1, <1>3
<1> QED
    BY <1>2, <1>4 DEF n

\* A command is refused exactly when the shell would find it open or cut off.
LEMMA JudgedAsTheShell ==
    ASSUME NEW B, {"|", "&", ">", "blank"} \subseteq B, NEW text \in Seq(B), Cmd!Ordinary(text)
    PROVE  Cmd!judge(Cmd!Spaced(text)) # {} <=> Cmd!LeftOpen(text) \/ Cmd!Truncated(text)
<1> DEFINE n == Len(text)
           spaced == Cmd!Spaced(text)
           s == Cmd!scan(spaced)
           h == Cmd!Shell(text)[n]
           code == s.code
           ops == h.run
           cut == Cmd!TrimBlanks(code)
<1>0. "blank" \in B /\ {"|", "&", ">"} \subseteq B
    OBVIOUS
<1>1. spaced \in Seq(B) /\ Len(spaced) = n
    BY <1>0, SpacedIsText, Zenon
<1>2. PICK w : Goes(w, spaced)
    BY <1>1, ScanUnfolds, Zenon
<1>3. s = w[n]
    BY <1>1, <1>2, Zenon DEF Goes
<1>4. s \in Walks(B) /\ h \in Shells(B) /\ Alike(s, h) /\ TailIs(code, ops)
    <2>1. Together(B, text, w, n)
        BY <1>0, <1>2, TogetherAlways, Zenon
    <2>2. QED
        BY <1>3, <2>1, Zenon DEF Together, Kept
<1>5. code \in Seq(B)
    BY <1>4 DEF Walks
<1> HIDE DEF spaced, code, ops, s, h, cut
<1>6. PICK m \in 0..Len(code) : \E from \in 0..m : TailFrom(code, ops, m, from)
    BY <1>4, Zenon DEF TailIs
<1>7. PICK from \in 0..m : TailFrom(code, ops, m, from)
    BY <1>6, Zenon
<1>8. /\ \A k \in (m + 1)..Len(code) : code[k] = "blank"
      /\ m # 0 => code[m] # "blank"
      /\ ops = SubSeq(code, from + 1, m)
      /\ from # 0 => code[from] \notin Cmd!Operators
    BY <1>7, Zenon DEF TailFrom
<1>9. cut = SubSeq(code, 1, m)
    BY <1>5, <1>8, TrimmedThere, Zenon DEF cut
<1>10. /\ cut \in Seq(B) /\ Len(cut) = m /\ SubSeq(cut, from + 1, m) = SubSeq(code, from + 1, m)
       /\ from # 0 => cut[from] = code[from]
    BY <1>5, <1>9
<1>11. Cmd!Truncated(text) <=> Cmd!trailingOperator(cut)
    <2>1. ops \in EndRuns
        BY Zenon DEF Cmd!Ordinary, EndRuns, ops, h
    <2>2. /\ SubSeq(cut, from + 1, Len(cut)) \in EndRuns /\ SubSeq(cut, from + 1, Len(cut)) = ops
          /\ from \in 0..Len(cut) /\ from # 0 => cut[from] \notin Cmd!Operators
        BY <1>8, <1>10, <2>1
    <2>3. SubSeq(cut, from + 1, Len(cut)) \in {<<"|">>, <<"|", "|">>, <<"&", "&">>} <=> Cmd!trailingOperator(cut)
        BY <1>0, <1>10, <2>2, EndRunTold, Zenon
    <2>4. QED
        BY <2>2, <2>3, Zenon DEF Cmd!Truncated, ops, h
<1>12. /\ h.open = <<>> <=> s.quote = "none" /\ s.depth = 0
       /\ s.depth \in Nat
    <2> DEFINE o == h.open
               q == s.quote
               d == s.depth
    <2>1. o \in Seq(Openings) /\ Stands(q, d, o)
        BY <1>4 DEF Shells, Alike
    <2> HIDE DEF o, q, d
    <2>2. (o = <<>> <=> q = "none" /\ d = 0) /\ d \in Nat
        BY <2>1, NothingLeftOpen, Zenon
    <2>3. QED
        BY <2>2 DEF o, q, d
<1>13. Cmd!judge(spaced) # {} <=>
           s.quote # "none" \/ s.depth > 0 \/ (s.quote = "none" /\ s.depth = 0 /\ Cmd!trailingOperator(cut))
    <2>1. Cmd!judge(spaced) = {r \in {"unbalanced-quote"} : s.quote # "none"}
              \cup {r \in {"unclosed-substitution"} : s.depth > 0}
              \cup {r \in {"truncated-pipeline"} : s.quote = "none" /\ s.depth = 0 /\ Cmd!trailingOperator(cut)}
        BY Zenon DEF Cmd!judge, cut, s, code
    <2>2. QED
        BY <2>1
<1>14. Cmd!LeftOpen(text) <=> h.open # <<>>
    BY DEF Cmd!LeftOpen, h
<1>15. s.depth = 0 \/ s.depth > 0
    BY <1>12
<1> QED
    BY <1>11, <1>12, <1>13, <1>14, <1>15 DEF spaced

\* An ordinary command passes exactly when a shell that reads its lines as they
\* are written would find it closed, and not cut off (cmdlint.go:304-312, 85-104).
\* What Ordinary leaves out is not told: an operator or a "#" that a join makes
\* touch what stands before it, a comment on a continued line, what a substitution
\* inside double quotes holds, and some escapes, parentheses and runs of operators.
THEOREM CommandsAlwaysClose == Spec => []CommandsCloseForTheShell
<1>1. Gauged => CommandsCloseForTheShell
    <2> SUFFICES ASSUME Gauged, Judged("cmdlint"), NEW d \in run.documents, NEW n \in DOMAIN d.commands,
                        Cmd!Ordinary(Cmd!Written(d.commands[n]))
                 PROVE  LET text == Cmd!Written(d.commands[n])
                        IN  Cmd!LeftOpen(text) \/ Cmd!Truncated(text)
                                <=> \E f \in found : f[1] = d.name /\ f[2].command = n
        BY Zenon DEF CommandsCloseForTheShell
    <2> DEFINE text == Cmd!Written(d.commands[n])
               B == STRING \cup {"|", "&", ">", "blank", "joined"}
    <2>1. run.gate = "cmdlint" /\ pc = "printing"
        BY DEF Judged
    <2>2. OfCommands(run)
        BY <2>1, RunsAreGiven DEF Gauged, Heard
    <2>3. text \in Seq(B) /\ "|" \in B /\ "&" \in B /\ ">" \in B
        <3> DEFINE S == Seq(STRING)
                   U == Seq(S)
                   commands == d.commands
        <3>1. commands \in Seq(U) /\ n \in DOMAIN commands
            BY <2>2 DEF OfCommands
        <3> HIDE DEF U, commands
        <3>2. n \in 1..Len(commands)
            BY <3>1
        <3>3. commands[n] \in U
            BY <3>1, <3>2, ElementOfSeq
        <3>4. S \subseteq Seq(B)
            <4>1. STRING \subseteq B
                OBVIOUS
            <4> HIDE DEF B
            <4>2. QED
                BY <4>1, SeqMonotonic
        <3>5. commands[n] \in Seq(Seq(B))
            <4> HIDE DEF S, B
            <4> DEFINE V == Seq(B)
            <4>1. S \subseteq V
                BY <3>4
            <4> HIDE DEF V
            <4>2. Seq(S) \subseteq Seq(V)
                BY <4>1, SeqMonotonic
            <4>3. QED
                BY <3>3, <4>2 DEF U, V
        <3>6. "joined" \in B /\ "|" \in B /\ "&" \in B /\ ">" \in B
            OBVIOUS
        <3> HIDE DEF B
        <3>7. QED
            BY <3>5, <3>6, WrittenIsText, Zenon DEF commands
    <2>4. Cmd!judge(Cmd!Spaced(text)) # {} <=> Cmd!LeftOpen(text) \/ Cmd!Truncated(text)
        <3>1. {"|", "&", ">", "blank"} \subseteq B
            OBVIOUS
        <3> HIDE DEF B
        <3>2. QED
            BY <2>3, <3>1, JudgedAsTheShell, Zenon
    <2>5. found = UNION {{e.name} \X Cmd!Check(e.commands) : e \in run.documents}
        <3>1. run.gate \in AllGates
            BY <2>1 DEF AllGates
        <3>2. found \in Judgements
            BY <2>1, <3>1 DEF Gauged, Heard
        <3>3. QED
            BY <2>1, <3>2 DEF Judgements
    <2> DEFINE each(e) == {e.name} \X Cmd!Check(e.commands)
               judged(e, k) == {[command |-> k, rule |-> r] : r \in Cmd!judge(Cmd!Spaced(Cmd!Written(e.commands[k])))}
    <2>6. ASSUME NEW e \in run.documents
          PROVE  Cmd!Check(e.commands) = UNION {judged(e, k) : k \in DOMAIN e.commands}
        BY Zenon DEF Cmd!Check, Cmd!joinContinued
    <2>7. ASSUME Cmd!judge(Cmd!Spaced(text)) # {}
          PROVE  \E f \in found : f[1] = d.name /\ f[2].command = n
        <3>1. PICK r : r \in Cmd!judge(Cmd!Spaced(text))
            BY <2>7
        <3> DEFINE x == [command |-> n, rule |-> r]
                   f == <<d.name, x>>
        <3>2. x \in judged(d, n)
            BY <3>1
        <3> HIDE DEF judged
        <3>3. x \in Cmd!Check(d.commands)
            BY <2>6, <3>2
        <3>4. f \in each(d)
            BY <3>3
        <3> HIDE DEF each
        <3>5. f \in found
            BY <2>5, <3>4 DEF each
        <3>6. f[1] = d.name /\ f[2].command = n
            OBVIOUS
        <3> HIDE DEF f
        <3>7. QED
            BY <3>5, <3>6
    <2>8. ASSUME NEW f \in found, f[1] = d.name, f[2].command = n
          PROVE  Cmd!judge(Cmd!Spaced(text)) # {}
        <3>1. PICK e \in run.documents : f \in {e.name} \X Cmd!Check(e.commands)
            BY <2>5
        <3>2. f[1] = e.name /\ f[2] \in Cmd!Check(e.commands)
            BY <3>1
        <3>3. e = d
            BY <2>2, <2>8, <3>2 DEF OfCommands
        <3>4. f[2] \in UNION {judged(d, k) : k \in DOMAIN d.commands}
            BY <2>6, <3>2, <3>3
        <3>5. PICK k \in DOMAIN d.commands : f[2] \in judged(d, k)
            <4> HIDE DEF judged
            <4>1. QED
                BY <3>4
        <3>6. PICK r \in Cmd!judge(Cmd!Spaced(Cmd!Written(d.commands[k]))) : f[2] = [command |-> k, rule |-> r]
            BY <3>5
        <3>7. k = n
            BY <2>8, <3>6
        <3>8. QED
            BY <3>6, <3>7
    <2> HIDE DEF text
    <2>9. Cmd!LeftOpen(text) \/ Cmd!Truncated(text) <=> \E f \in found : f[1] = d.name /\ f[2].command = n
        BY <2>4, <2>7, <2>8
    <2> QED
        BY <2>9 DEF text
<1> QED
    BY <1>1, GaugedAlways, PTL

=============================================================================
