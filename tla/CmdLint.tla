------------------------------- MODULE CmdLint ------------------------------
(***************************************************************************)
(* internal/cmdlint: what a command of a document leaves open, once Readers  *)
(* has told its lines from the others.                                      *)
(*                                                                         *)
(* A line is the sequence of its characters: "'", the double quote, the      *)
(* backslash, "$(", "(", ")", "#", ";", "|", "&", ">", a blank, or any other. *)
(***************************************************************************)
EXTENDS SequencesExt, FiniteSetsExt, Integers

BeginWord == {"blank", ";", "|", "&", "(", "$("}

TrimBlanks(text) == SubSeq(text, 1, Max({0} \cup {k \in DOMAIN text : text[k] # "blank"}))

\* The lines of a continued command as a document has them: a mark for each
\* backslash and newline that joins two of them.  A line has no blanks at its end.
Written(lines) ==
    FlattenSeq([i \in DOMAIN lines |->
                  (IF i = 1 THEN <<>> ELSE <<"joined">>)
                      \o (IF i = Len(lines) THEN lines[i] ELSE Front(lines[i]))])

\* The linter puts a blank in place of each; how many blanks stand together tells
\* nothing apart.
Spaced(text) == [i \in DOMAIN text |-> IF text[i] = "joined" THEN "blank" ELSE text[i]]
joinContinued(lines) == Spaced(Written(lines))

startsWord(text, i) == i = 1 \/ text[i - 1] \in BeginWord

Start == [quote |-> "none", depth |-> 0, escaped |-> FALSE, ended |-> FALSE, code |-> <<>>]

Opens(s) == [s EXCEPT !.depth = @ + 1]

\* Plausible slip: a parenthesis that closes nothing is counted all the same.
ClosesAll(s) == [s EXCEPT !.depth = @ - 1]

Closes(s) == [s EXCEPT !.depth = IF @ > 0 THEN @ - 1 ELSE 0]

\* One character of a command in the quoting state the ones before it leave.
Step(text, s, i) ==
    LET ch == text[i]
        t == [s EXCEPT !.code = Append(@, ch)]
        escapes == ch = "\\" /\ i < Len(text)
    IN  IF s.ended THEN s ELSE IF s.escaped THEN [t EXCEPT !.escaped = FALSE] ELSE
        CASE s.quote = "'" -> IF ch = "'" THEN [t EXCEPT !.quote = "none"] ELSE t
          [] s.quote # "'" /\ escapes -> [t EXCEPT !.escaped = TRUE]
          [] s.quote # "'" /\ ch = "$(" -> Opens(t)
          [] s.quote # "'" /\ ch = ")" -> Closes(t)
          [] s.quote = "\"" /\ ch = "\"" -> [t EXCEPT !.quote = "none"]
          [] s.quote = "none" /\ ch \in {"'", "\""} -> [t EXCEPT !.quote = ch]
          [] s.quote = "none" /\ ch = "#" /\ startsWord(text, i) -> [s EXCEPT !.ended = TRUE]
          [] OTHER -> t

scan(text) ==
    LET after[i \in 0..Len(text)] == IF i = 0 THEN Start ELSE Step(text, after[i - 1], i)
    IN  after[Len(text)]

\* One ampersand leaves a command complete, and so does >|.
trailingOperator(code) ==
    \/ IsSuffix(<<"&", "&">>, code)
    \/ IsSuffix(<<"|", "|">>, code)
    \/ IsSuffix(<<"|">>, code) /\ ~IsSuffix(<<">", "|">>, code)

judge(text) ==
    LET s == scan(text)
    IN  {r \in {"unbalanced-quote"} : s.quote # "none"}
        \cup {r \in {"unclosed-substitution"} : s.depth > 0}
        \cup {r \in {"truncated-pipeline"} :
                s.quote = "none" /\ s.depth = 0 /\ trailingOperator(TrimBlanks(s.code))}

Check(commands) ==
    UNION {{[command |-> n, rule |-> r] : r \in judge(joinContinued(commands[n]))} :
             n \in DOMAIN commands}

-----------------------------------------------------------------------------
(* What the shell makes of the lines as they are written: it takes a backslash *)
(* and a newline away, so that what stands before and behind them touches.  It *)
(* keeps the quotes and substitutions that are open, each inside the one before *)
(* it, the character it read last, and the operators that stood last.          *)

Operators == {"|", "&", ">"}

\* A command begins as though a blank stood before it.
NothingRead == [open |-> <<>>, escaped |-> FALSE, comment |-> FALSE, last |-> "blank", run |-> <<>>]

Top(s) == IF s.open = <<>> THEN "none" ELSE Last(s.open)
InWords(s) == Top(s) \in {"none", "$("}
AtWord(s) == s.last \in BeginWord

\* What is open after one more character.
Nests(s, ch) ==
    CASE ch \in {"'", "\""} /\ InWords(s) -> Append(s.open, ch)
      [] ch = "$(" /\ Top(s) # "'" -> Append(s.open, ch)
      [] ch \in {"'", "\""} /\ ch = Top(s) -> Front(s.open)
      [] ch = ")" /\ Top(s) = "$(" -> Front(s.open)
      [] OTHER -> s.open

\* The operators that stand last: blanks end a run of them and keep it.
Standing(s, ch) ==
    CASE ch = "blank" -> s.run
      [] ch \in Operators -> IF s.last = "blank" THEN <<ch>> ELSE Append(s.run, ch)
      [] OTHER -> <<>>

\* A comment goes to the end of its line, whatever that ends in.
Reads(text, s, i) ==
    LET ch == text[i]
    IN  IF ch = "joined" THEN (IF s.comment THEN [s EXCEPT !.comment = FALSE, !.last = "blank"] ELSE s)
        ELSE IF s.comment THEN s
        ELSE IF s.escaped THEN [s EXCEPT !.escaped = FALSE, !.last = "escaped", !.run = <<>>]
        ELSE IF ch = "#" /\ InWords(s) /\ AtWord(s) THEN [s EXCEPT !.comment = TRUE]
        ELSE [s EXCEPT !.open = Nests(s, ch), !.last = ch, !.run = Standing(s, ch),
                       !.escaped = ch = "\\" /\ Top(s) # "'" /\ i < Len(text)]

Shell(text) ==
    LET state[i \in 0..Len(text)] == IF i = 0 THEN NothingRead ELSE Reads(text, state[i - 1], i)
    IN  state

\* What is left out of the comparison, as a join that the shell makes and the
\* linter's blank does not: an operator joined to an operator, a "#" joined to a
\* word, a comment whose line is continued.  Beside these: an escaped blank,
\* operator or parenthesis; a quote, a substitution or a comment inside a
\* substitution inside double quotes; a parenthesis that is quoted, or opens a
\* subshell, inside a substitution; and a command that ends in operators which
\* are not one.
Joins(text, i) ==
    LET before == Shell(text)[i - 1]
    IN  /\ before.comment => text[i] # "joined"
        /\ i > 1 /\ text[i - 1] = "joined" =>
              /\ text[i] \in Operators => before.last \notin Operators
              /\ text[i] = "#" => AtWord(before)

Ordinary(text) ==
    /\ \A i \in DOMAIN text :
          LET before == Shell(text)[i - 1]
              after == Shell(text)[i].open
          IN  /\ Joins(text, i)
              /\ before.escaped => text[i] \in {"x", "'", "\"", "\\"}
              /\ ~\E j, k \in DOMAIN after : j < k /\ after[j] = "\"" /\ after[k] = "$(" /\ k < Len(after)
              /\ Shell(text)[i].comment => "\"" \notin ToSet(after)
              /\ "$(" \in ToSet(before.open) =>
                    /\ text[i] # "("
                    /\ text[i] = ")" => Last(before.open) # "\""
    /\ Shell(text)[Len(text)].run \in
          {<<>>, <<"&">>, <<">">>, <<"|">>, <<"|", "|">>, <<"&", "&">>, <<">", "|">>}

LeftOpen(text) == Shell(text)[Len(text)].open # <<>>
Truncated(text) == Shell(text)[Len(text)].run \in {<<"|">>, <<"|", "|">>, <<"&", "&">>}

=============================================================================
