------------------------------- MODULE TreeFmt ------------------------------
(***************************************************************************)
(* internal/treefmt: what .editorconfig says of a path, and what a file of *)
(* that path should hold.                                                  *)
(*                                                                         *)
(* A file is a sequence of bytes of the kinds the rules tell apart: "mark" *)
(* (the three bytes of a byte order mark), "cr", "lf", "tab", "space",     *)
(* "bad" (a byte that does not decode) and others, which are text.  What is *)
(* found is the rules departed from; the lines they are departed from on   *)
(* are left out.                                                           *)
(***************************************************************************)
EXTENDS SequencesExt, FiniteSetsExt, Integers

CONSTANTS GoPaths   \* the paths that end in .go

-----------------------------------------------------------------------------
(* The rule set.  A line of it is a section's header with the paths it       *)
(* matches, or a property.                                                   *)

Truths == {"true", "false"}
Sizes == {"2", "4"}

implemented ==
    [charset |-> {"utf-8"}, end_of_line |-> {"lf"}, insert_final_newline |-> Truths,
     trim_trailing_whitespace |-> Truths, indent_style |-> {"tab", "space"}, indent_size |-> Sizes]

Section(paths) == [is |-> "section", paths |-> paths]
Property(key, value) == [is |-> "property", key |-> key, value |-> value]

Above(lines, i) == {j \in 1..(i - 1) : lines[j].is = "section"}

CheckValue(key, value) == value \in implemented[key] \cup {"unset"}

\* Before the first section only root may stand; after it, what is implemented.
PropertyStands(lines, i) ==
    IF Above(lines, i) = {} THEN lines[i].key = "root" /\ lines[i].value \in Truths
    ELSE lines[i].key \in DOMAIN implemented /\ CheckValue(lines[i].key, lines[i].value)

\* A header that does not parse and a line that is neither refuse the file.
ParsesRules(lines) ==
    \A i \in DOMAIN lines : \/ lines[i].is = "section"
                            \/ lines[i].is = "property" /\ PropertyStands(lines, i)

Says(lines, i, key) == lines[i].is = "property" /\ lines[i].key = key

\* The last word on root.
Root(lines) ==
    \E i \in DOMAIN lines : /\ Says(lines, i, "root") /\ lines[i].value = "true"
                            /\ \A j \in (i + 1)..Len(lines) : ~Says(lines, j, "root")

\* A property under a section that matches, laid over the ones before it.
Applies(lines, i, path, key) ==
    /\ Says(lines, i, key) /\ Above(lines, i) # {}
    /\ path \in lines[Max(Above(lines, i))].paths

RulesFor(lines, path) ==
    LET said(key) == {i \in DOMAIN lines : Applies(lines, i, path, key)}
    IN  [key \in DOMAIN implemented |->
            IF said(key) = {} THEN "unset" ELSE lines[Max(said(key))].value]

-----------------------------------------------------------------------------
(* The transformations                                                       *)

Blank(b) == b \in {"space", "tab"}
Begins(src, i) == i = 1 \/ src[i - 1] = "lf"

\* The bytes of src at the places that are kept.
Pick(src, places) ==
    FlattenSeq([i \in DOMAIN src |-> IF i \in places THEN <<src[i]>> ELSE <<>>])

Valid(src) == \A i \in DOMAIN src : src[i] # "bad"

\* One mark is removed.
ApplyCharset(src) == IF src # <<>> /\ src[1] = "mark" THEN Tail(src) ELSE src

\* CR LF becomes LF and any other CR becomes one.
ApplyLF(src) ==
    LET paired(i) == src[i] = "cr" /\ i < Len(src) /\ src[i + 1] = "lf"
        single == [i \in DOMAIN src |-> IF src[i] = "cr" /\ ~paired(i) THEN "lf" ELSE src[i]]
    IN  Pick(single, {i \in DOMAIN src : ~paired(i)})

\* A blank with nothing but blanks behind it on its line.
Trails(src, i) ==
    \E j \in i..Len(src) : /\ \A k \in i..j : Blank(src[k])
                           /\ (j = Len(src) \/ src[j + 1] = "lf")

ApplyTrim(src) == Pick(src, {i \in DOMAIN src : ~Trails(src, i)})

\* A blank with nothing but blanks before it on its line.
Leads(src, i) == \E j \in 1..i : Begins(src, j) /\ \A k \in j..i : Blank(src[k])

ApplySpaceIndent(src, size) ==
    FlattenSeq([i \in DOMAIN src |->
                  IF Leads(src, i) /\ src[i] = "tab"
                  THEN [k \in 1..(IF size = "2" THEN 2 ELSE 4) |-> "space"] ELSE <<src[i]>>])

\* A line that begins with a space and holds more than blanks.
IndentedWithSpace(src) ==
    \E i \in DOMAIN src : Begins(src, i) /\ src[i] = "space" /\ ~Trails(src, i)

ApplyFinalNewline(src) == IF src = <<>> \/ Last(src) = "lf" THEN src ELSE Append(src, "lf")

\* go/format, as far as the code relies on it: it may refuse, and what it
\* returns it returns unchanged.
GoParses(src) == \A i \in DOMAIN src : src[i] \notin {"bad", "mark", "broken"}
GoFormatted(src) == ApplyFinalNewline(ApplyTrim(src))

-----------------------------------------------------------------------------
(* Format: what the file should hold, and the rules it departs from.         *)

Departs(rule, before, after) == IF before = after THEN {} ELSE {rule}

Unrepaired(src, found) == [bytes |-> src, found |-> found]

FormatGo(src, decoded, found) ==
    IF ~GoParses(decoded) THEN Unrepaired(src, found \cup {"gofmt"})
    ELSE [bytes |-> GoFormatted(decoded),
          found |-> found \cup Departs("gofmt", decoded, GoFormatted(decoded))]

FormatLines(src, found, rules) ==
    LET trimmed == IF rules.trim_trailing_whitespace = "true" THEN ApplyTrim(src) ELSE src
        indented == IF rules.indent_style = "space" /\ rules.indent_size # "unset"
                    THEN ApplySpaceIndent(trimmed, rules.indent_size) ELSE trimmed
        ended == IF rules.insert_final_newline = "true" THEN ApplyFinalNewline(indented)
                 ELSE indented
    IN  [bytes |-> ended,
         found |-> UNION {found, Departs("trim_trailing_whitespace", src, trimmed),
                          Departs("indent_style", trimmed, indented),
                          IF rules.indent_style = "tab" /\ IndentedWithSpace(trimmed)
                          THEN {"indent_style"} ELSE {},
                          Departs("insert_final_newline", indented, ended)}]

\* Plausible slip: the line endings are put right last.
FormatEndingLast(path, src, rules) ==
    LET decoded == IF rules.charset = "utf-8" THEN ApplyCharset(src) ELSE src
        lines == FormatLines(decoded, Departs("charset", src, decoded), rules)
        ended == IF rules.end_of_line = "lf" THEN ApplyLF(lines.bytes) ELSE lines.bytes
    IN  IF rules.charset = "utf-8" /\ ~Valid(decoded)
        THEN Unrepaired(src, {"charset"})
        ELSE IF path \in GoPaths THEN FormatGo(src, decoded, {})
        ELSE [bytes |-> ended,
              found |-> lines.found \cup Departs("end_of_line", lines.bytes, ended)]

Format(path, src, rules) ==
    LET decoded == IF rules.charset = "utf-8" THEN ApplyCharset(src) ELSE src
        ended == IF rules.end_of_line = "lf" THEN ApplyLF(decoded) ELSE decoded
        found == Departs("charset", src, decoded) \cup Departs("end_of_line", decoded, ended)
    IN  IF rules.charset = "utf-8" /\ ~Valid(decoded)
        THEN Unrepaired(src, {"charset"})
        ELSE IF path \in GoPaths THEN FormatGo(src, ended, found)
        ELSE FormatLines(ended, found, rules)

=============================================================================
