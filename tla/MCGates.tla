------------------------------- MODULE MCGates ------------------------------
(* Each gate with small inputs of every kind.                                *)
EXTENDS Gates

MCByName == <<"cmd/kanzlei", "cmd/treefmt", "fake", "index", "server">>
MCCommands == {"cmd/kanzlei", "cmd/treefmt"}

-----------------------------------------------------------------------------
(* Declarations and trees over three packages, and every tree of five whose  *)
(* declaration permits nothing.                                              *)

Few == {"cmd/kanzlei", "fake", "server"}
SomeNames == {<<>>, <<"fake">>, <<"server">>, <<"fake", "server">>}

PackageLine(p, targets) == [is |-> "package", pkg |-> p, targets |-> targets]
TestLine(p, targets) == [is |-> "test", pkg |-> p, targets |-> targets]
Marker(kind, p) == [is |-> kind, pkg |-> p, targets |-> <<>>]

Base == <<PackageLine("server", <<"fake">>), PackageLine("cmd/kanzlei", <<"server">>)>>
Fake == PackageLine("fake", <<>>)

MCLines ==
    {<<Fake>> \o Base, Base, <<>>,
     Base \o <<Fake, Marker("test-only", "fake")>>,
     Base \o <<Fake, PackageLine("fake", <<"server">>)>>,
     Base \o <<Fake, PackageLine("index", <<"index">>)>>,
     Base \o <<Fake, Marker("remark", "fake")>>}
    \cup {<<PackageLine("cmd/kanzlei", t), PackageLine("server", <<>>), Fake>> \o rest :
            t \in SomeNames,
            rest \in {<<>>, <<TestLine("server", <<"fake">>)>>, <<Marker("planned", "server")>>,
                      <<Marker("test-only", "fake"), TestLine("server", <<"fake">>)>>,
                      <<TestLine("fake", <<"index">>)>>, <<Marker("planned", "index")>>}}

File(p, tests, imports) ==
    [pkg |-> p, tests |-> tests, skipped |-> FALSE, parses |-> TRUE, imports |-> imports]

Tree(shipped) == {File(p, FALSE, shipped[p]) : p \in DOMAIN shipped}

\* No package imports the command; a dependency is imported here and there.
Importing(packages) ==
    [packages -> SUBSET (packages \ MCCommands) \cup {{"fake", "elsewhere"}}]
NoneItself(shipped) == \A p \in DOMAIN shipped : p \notin shipped[p]

MCTestFiles ==
    {{}} \cup {{File("server", TRUE, i)} : i \in {{"server"}, {"fake"}, {"cmd/kanzlei", "fake"}}}
    \cup {{[File("index", FALSE, {"fake"}) EXCEPT !.skipped = TRUE]},
          {[File("fake", FALSE, {}) EXCEPT !.parses = FALSE]}}

ImportRuns ==
    {[gate |-> "imports", lines |-> lines, tree |-> Tree(shipped) \cup tests] :
        lines \in MCLines, tests \in MCTestFiles,
        shipped \in {s \in Importing(Few) \cup Importing(Few \ {"fake"}) : NoneItself(s)}}

ClosedRuns ==
    {[gate |-> "imports", lines |-> <<Fake>>, tree |-> Tree(shipped)] :
        shipped \in {s \in [Names -> SUBSET (Names \ MCCommands)] : NoneItself(s)}}

-----------------------------------------------------------------------------
(* Adapters in one file, spread over two, and beside another type.           *)

GoFile(p, methods) ==
    [pkg |-> p, tests |-> FALSE, parses |-> TRUE, methods |-> methods, runs |-> FALSE]
TestFile(p) == [GoFile(p, {}) EXCEPT !.tests = TRUE, !.runs = TRUE]
Engine == {"Engine"} \X operations

AdapterFiles(p) ==
    {GoFile(p, Engine), [GoFile(p, Engine) EXCEPT !.parses = FALSE],
     GoFile(p, Engine \ {<<"Engine", "Embed">>}),
     GoFile(p, {<<"Engine", "Capabilities">>, <<"Engine", "Embed">>, <<"Other", "Generate">>}),
     TestFile(p), [TestFile(p) EXCEPT !.runs = FALSE, !.methods = Engine]}

AdapterRuns ==
    {[gate |-> "adapters", tree |-> tree, registered |-> registered] :
        tree \in {{f, g, h} : f, g \in AdapterFiles("fake"),
                              h \in AdapterFiles("engine") \cup {TestFile("fake")}},
        registered \in SUBSET {"fake", "engine"}}

-----------------------------------------------------------------------------
(* Test files of every constraint over the mark and two platforms, with what  *)
(* a test may write; and declarations of every shape.                         *)

MCTags == {"needsreal", "linux", "windows"}
MCTestDirs == {"test/suite", "internal/test"}
MCWithin == [d \in {"cmd", "server", "server/api", "test/suite", "internal/test"} |->
                IF d = "server/api" THEN {"server", "server/api"} ELSE {d}]
MCCarrying == {<<"admin", "ADMIN_GROUP">>, <<"password", "thePassword">>}

With(tag) == {on \in SUBSET MCTags : tag \in on}
Without(tag) == SUBSET MCTags \ With(tag)

Constraints ==
    {SUBSET MCTags, Without("windows"), With("linux"), Without("needsreal")}
    \cup {With("needsreal") \cap other : other \in {SUBSET MCTags, Without("windows"), With("linux")}}
    \cup {With("needsreal") \cup other : other \in {With("windows"), Without("windows")}}

SourceFile(dir, built, tests, writings, cases) ==
    [dir |-> dir, built |-> built, tests |-> tests, skipped |-> FALSE, parses |-> TRUE,
     writings |-> writings, cases |-> cases]

Text(form, host) == [form |-> form, host |-> host]
CallOf(pkg, fn, args, reason) ==
    [is |-> "call", pkg |-> pkg, fn |-> fn, args |-> args, reason |-> reason]
Dials(address, reason) == CallOf("net", "Dial", <<Text("word", "tcp"), address>>, reason)
Operands(operands) == [is |-> "text", operands |-> operands]
Holds(name, filled) == [is |-> "binding", name |-> name, filled |-> filled]

Writings ==
    {Dials(Text(form, host), 0) : form \in {"host:port", "bare", "url"},
                                  host \in {"localhost", "loopback", "outside", ""}}
    \cup {Dials(Text("computed", ""), reason) : reason \in {0, 2, 3}}
    \cup {CallOf("http", "Get", <<Text(form, "localhost")>>, 3) : form \in {"url", "bare"}}
    \cup {CallOf("net", "LookupHost", <<Text("word", "localhost")>>, 9), CallOf("net", "Dial", <<>>, 9),
          CallOf("local", "Dial", <<Text("word", "tcp"), Text("bare", "outside")>>, 0),
          CallOf("net", "Pipe", <<>>, 0)}
    \cup {Operands(o) : o \in {<<<<"/dev/", "dri">>>>, <<<<"/dev/", "null">>>>,
                               <<<<"/dev/">>, <<"dri">>>>, <<<<"/dev/">>, <<"null">>>>,
                               <<<<"/dev/">>, <<"computed">>>>,
                               <<<<"computed">>, <<"/dev/", "dri">>>>,
                               <<<<"/dev/">>, <<"null">>, <<"computed">>>>}}

ReachRuns ==
    {[gate |-> "testreach", tree |-> tree] :
        tree \in {{}} \cup
            {{SourceFile(dir, built, tests, {w}, {})} :
                dir \in {"cmd"} \cup MCTestDirs, built \in Constraints, tests \in BOOLEAN, w \in Writings}
            \cup {{[SourceFile("cmd", built, TRUE, {}, {}) EXCEPT !.skipped = skipped, !.parses = FALSE]} :
                    built \in Constraints, skipped \in BOOLEAN}
            \cup {{SourceFile("cmd", SUBSET MCTags, TRUE, {w}, {}),
                   SourceFile("test/suite", built, TRUE, {Dials(Text("bare", "outside"), 0)}, {})} :
                    w \in Writings, built \in Constraints}}

Pair(key, value) == [is |-> "pair", key |-> key, value |-> value]
Mark(is) == [is |-> is]
Record(id, shape, rest) ==
    <<Pair("invariant", <<id>>), Pair("shape", <<shape>>), Pair("reason", <<"why">>)>> \o rest

Starts == Record("start", "constrained-test-calls",
                 <<Pair("constraint", <<"needsreal">>), Pair("names", <<"Start">>)>>)
Routes == Record("routes", "call-only-in",
                 <<Pair("names", <<"Handle">>), Pair("paths", <<"server", "cmd">>)>>)
Rights == Record("rights", "literal-argument",
                 <<Pair("words", <<"admin">>), Pair("names", <<"Getenv">>)>>)
Secrets == Record("secrets", "named-string-literal", <<Pair("names", <<"password">>)>>)

Declarations ==
    {<<>>, Starts, <<Mark("blank")>> \o Routes \o <<Mark("blank"), Mark("comment")>> \o Starts,
     Rights \o Secrets, Starts \o <<Mark("comment")>> \o Routes \o <<Mark("blank")>> \o Rights \o Secrets,
     Starts \o <<Pair("names", <<"Start", "Handle">>)>>,
     Routes \o <<Pair("paths", <<"server">>)>>, Starts \o <<Pair("constraint", <<"needsreal", "linux">>)>>,
     Secrets \o <<Pair("paths", <<"cmd">>)>>,
     Starts \o <<Mark("blank")>> \o Starts, Starts \o <<Mark("blank"), Pair("names", <<"x">>)>>,
     Append(Starts, Mark("neither")), Append(Starts, Pair("path", <<"cmd">>)),
     <<Pair("names", <<"x">>)>> \o Starts, Starts \o <<Pair("invariant", <<>>)>>}
    \cup {RemoveAt(record, k) : record \in {Starts, Routes, Rights, Secrets}, k \in 2..4}
    \cup {Record("x", "guessed", <<Pair("names", <<"x">>)>>)}

MCCases == {{}, {{"Start", "helper"}}, {{"helper"}, {"Start"}}, {{}}, {{"Handle"}}}
SomeWritings ==
    {{}, {CallOf("os", "Getenv", <<Text("word", "ADMIN_GROUP")>>, 0)},
     {CallOf("os", "Getenv", <<Text("computed", "ADMIN_GROUP")>>, 0)},
     {CallOf("mux", "Handle", <<Text("word", "/")>>, 0)},
     {Holds("thePassword", TRUE)}, {Holds("thePassword", FALSE), Holds("name", TRUE)}}

InvariantRuns ==
    {[gate |-> "invariants", lines |-> lines, tree |-> tree] :
        lines \in Declarations,
        tree \in {{}} \cup
            {{SourceFile("test/suite", built, TRUE, {}, cases)} : built \in Constraints, cases \in MCCases}
            \cup {{SourceFile(dir, SUBSET MCTags, FALSE, w, {{}})} :
                    dir \in {"cmd", "server", "server/api"}, w \in SomeWritings}
            \cup {{SourceFile("server", SUBSET MCTags, TRUE, {}, {}),
                   [SourceFile("cmd", SUBSET MCTags, FALSE, {}, {}) EXCEPT !.skipped = skipped, !.parses = FALSE]} :
                    skipped \in BOOLEAN}}

-----------------------------------------------------------------------------
(* Lines with every discard and comment, alone and one after the other.       *)

Noted(directive, against, words) == [directive |-> directive, against |-> against, words |-> words]
Wording == UNION {[1..n -> {"word"}] : n \in 0..4}
Comments ==
    {Noted("none", "nothing", w) : w \in Wording}
    \cup {Noted(d, against, w) : d \in {"nolint", "lint:ignore"}, w \in Wording,
                                  against \in {"nothing", ":list", ":", "//", "//word"}}
    \cup {Noted(d, against, Append(l, "//") \o w) : d \in {"nolint", "lint:ignore"}, w \in Wording,
                                  against \in {"nothing", ":list"}, l \in {<<>>}}
    \cup {Noted("lint:ignore", "nothing", <<"word", "//">> \o w) : w \in Wording}

Assigns(left, right) == [left |-> left, right |-> right]
MCAssigns ==
    {Assigns(<<>>, <<>>), Assigns(<<"_">>, <<"call">>), Assigns(<<"_">>, <<"value">>),
     Assigns(<<"_", "err">>, <<"call">>), Assigns(<<"x", "_">>, <<"call">>)}

SourceLines == [assign : MCAssigns, comment : Comments]
SourceOf(lines) == [skipped |-> FALSE, parses |-> TRUE, source |-> lines]

SourceRuns ==
    {[gate |-> "sourcecheck", tree |-> {SourceOf(lines)}] :
        lines \in {<<l>> : l \in SourceLines}
                  \cup {<<[assign |-> a, comment |-> Noted("none", "nothing", <<>>)],
                          [assign |-> Assigns(<<>>, <<>>), comment |-> c]>> : a \in MCAssigns, c \in Comments}}
    \cup {[gate |-> "sourcecheck",
           tree |-> {SourceOf(<<>>),
                     [SourceOf(<<[assign |-> Assigns(<<"_">>, <<"call">>),
                                  comment |-> Noted("nolint", "nothing", <<>>)]>>)
                         EXCEPT !.skipped = skipped, !.parses = parses]}] :
              skipped, parses \in BOOLEAN}

-----------------------------------------------------------------------------
(* Commands of up to five characters that quote, substitute and comment, of up *)
(* to four that escape and end in operators, and commands of two or three lines *)
(* that do all of these where they join.  A line ends in no blank, and goes on  *)
(* where it ends in an odd number of backslashes.                              *)

Quoting == {"'", "\"", "$(", ")", "#", "x"}
Ending == {"\\", "#", "blank", "|", "&", ">", "\"", "x"}
Upto(n, S) == UNION {[1..k -> S] : k \in 1..n}
Joining == {"'", "\"", "$(", ")", "#", "\\", "blank", "|", "&", ">", "x"}

Goes(line) == Cardinality({k \in DOMAIN line : \A j \in k..Len(line) : line[j] = "\\"}) % 2 = 1
Ends(line) == line[Len(line)] # "blank" /\ ~Goes(line)

Whole == {line \in Upto(5, Quoting) \cup Upto(4, Ending) : Ends(line)}
Begun == {Append(t, "\\") : t \in {t \in {<<>>} \cup Upto(2, Joining) : ~Goes(t)}}

CommandTexts == {<<line>> : line \in Whole}
CommandPairs == {<<s, t>> : s \in Begun, t \in {t \in Upto(2, Joining) : Ends(t)}}
CommandTriples == {<<s, t, <<ch>>>> : s, t \in {s \in Begun : Len(s) <= 2}, ch \in Joining \ {"blank", "\\"}}

CommandDocument(c) == [name |-> "d.md", commands |-> c]
CommandRuns ==
    {[gate |-> "cmdlint", documents |-> {CommandDocument(<<c>>)}] : c \in CommandTexts \cup CommandPairs \cup CommandTriples}
    \cup {[gate |-> "cmdlint", documents |-> documents] :
             documents \in {{}, {CommandDocument(<<>>)},
                            {CommandDocument(<< << <<"'">> >>, << <<"x">> >> >>), [name |-> "e.md", commands |-> <<>>]}}}

-----------------------------------------------------------------------------
(* Every path of at most three segments, as a span and as a link of a document *)
(* at the root and of one below it, where a package is planned or not.         *)

MCPathOf == [p \in Names |-> <<"internal", p>>]
MCTracked == {<<"d.md">>, <<"docs", "d.md">>, <<"docs", "a", "x.md">>, <<"internal", "server", "x.go">>}
Segments == {"docs", "a", "x.md", "internal", "fake", "server", ".", "..", ""}

Address(is, path) == [is |-> is, path |-> path]
MCPaths == {Address("path", p) : p \in {p \in Upto(3, Segments) : p[1] # ""}}
           \cup {Address(is, <<"docs", "none">>) : is \in {"address", "fragment", "phrase"}}
Document(name, spans, links) == [name |-> name, spans |-> spans, links |-> links]

Planning == {Base \o <<Fake>>, Base \o <<Fake, Marker("planned", "fake")>>}

DocumentRuns ==
    {[gate |-> "doclint", tracked |-> MCTracked, lines |-> lines, documents |-> {document}] :
        lines \in Planning,
        document \in {Document(<<"d.md">>, {w}, {}) : w \in MCPaths}
                     \cup {Document(name, {}, {w}) : w \in MCPaths, name \in {<<"d.md">>, <<"docs", "d.md">>}}}
    \cup {[gate |-> "doclint", tracked |-> tracked, lines |-> lines, documents |-> documents] :
             tracked \in {{}, MCTracked}, lines \in Planning \cup {<<>>},
             documents \in {{}, {Document(<<"d.md">>, {}, {}),
                                Document(<<"docs", "d.md">>, {}, {Address("path", <<"none">>)})}}}

-----------------------------------------------------------------------------
(* Every text of at most four characters as the body and as a subject, and      *)
(* every list of at most two commits.                                          *)

Texts == UNION {[1..k -> {"#", "0", "digit", "letter", "other"}] : k \in 0..4}
Issue == <<"#", "digit">>
Committed(parents, subject) == [parents |-> parents, tab |-> TRUE, subject |-> subject]
MCLogLines == {Committed(n, s) : n \in 1..2, s \in {<<>>, <<"letter">>, Issue}}
              \cup {Committed(0, Issue), Committed(0, <<>>), [Committed(0, <<>>) EXCEPT !.tab = FALSE],
                    [Committed(1, <<>>) EXCEPT !.tab = FALSE]}

Asks(body, log, changed) == [gate |-> "prhygiene", body |-> body, log |-> log, changed |-> changed]
RequestRuns ==
    {Asks(t, <<Committed(1, Issue)>>, 400) : t \in Texts}
    \cup {Asks(Issue, <<Committed(1, t)>>, 401) : t \in Texts}
    \cup {Asks(b, l, c) : b \in {<<>>, Issue}, c \in {-1, 401},
                         l \in {<<>>} \cup Upto(2, MCLogLines)}

-----------------------------------------------------------------------------
(* Blocks of one and two statements entered by several binaries.             *)

ProfileLine(b, n) == [block |-> b, statements |-> IF b = "b1" THEN 2 ELSE 1, count |-> n, parses |-> TRUE]

ProfileLines == {ProfileLine(b, n) : b \in {"b1", "b2"}, n \in {0, 1}}

Profiles ==
    UNION {[1..n -> ProfileLines] : n \in 0..4}
    \cup {<<[ProfileLine("b1", 1) EXCEPT !.parses = FALSE]>>, <<ProfileLine("b1", -1)>>,
          <<[ProfileLine("b2", 1) EXCEPT !.statements = 0]>>}

MCFloors == {<<n>> : n \in {-100, 0, 3330, 3335, 3340, 6670, 10000, 10100}}
            \cup {<<>>, <<NaN>>, <<Words>>, <<0, 10000>>}

CoverRuns == {[gate |-> "coverfloor", profile |-> p, floor |-> f] : p \in Profiles, f \in MCFloors}

ScanRule(id, severity) == [id |-> id, severity |-> severity]
Scans1 ==
    {[rules |-> rules, results |-> results] :
        rules \in {<<>>} \cup {<<ScanRule("r1", s)>> : s \in {500, 700, NaN, Words}}
                 \cup {<<ScanRule("r1", s), ScanRule("r1", t)>> : s, t \in {500, 700, Words}}
                 \cup {<<ScanRule("r2", 0), ScanRule("", 0)>>},
        results \in {<<>>, <<"r1">>, <<"r2", "r1">>, <<"">>}}

ScanRuns ==
    {[gate |-> "scanfloor", document |-> d, floor |-> f] :
        d \in {<<>>} \cup {<<s>> : s \in Scans1} \cup {<<s, t>> : s, t \in Scans1},
        f \in {<<>>, <<0>>, <<600>>, <<NaN>>, <<Words>>, <<-1>>, <<700, 0>>}}

-----------------------------------------------------------------------------
(* Every file of at most four bytes under rule sets like the repository's.   *)

Bytes == {"mark", "cr", "lf", "tab", "space", "bad", "x"}
Files(n) == UNION {[1..k -> Bytes] : k \in 0..n}

Everything ==
    <<Property("root", "true"), Section({"a.txt", "go.mod", "b.go", "fixture"}),
      Property("charset", "utf-8"), Property("end_of_line", "lf"),
      Property("insert_final_newline", "true"), Property("trim_trailing_whitespace", "true"),
      Property("indent_style", "space"), Property("indent_size", "2"),
      Section({"go.mod", "b.go"}), Property("indent_style", "tab"),
      Section({"fixture"}), Property("charset", "unset"), Property("end_of_line", "unset"),
      Property("insert_final_newline", "false"), Property("indent_style", "unset")>>

RuleSets ==
    {Everything, Tail(Everything), Tail(Tail(Everything)),
     Append(Everything, Property("max_line_length", "2")), Append(Everything, [is |-> "neither"])}

Format1(rules, files, w) ==
    [gate |-> "treefmt", rules |-> rules, files |-> files, write |-> w]
At(p, b) == [path |-> p, bytes |-> b]

FileRuns ==
    {Format1(Everything, <<At(p, b)>>, w) :
        p \in {"a.txt", "go.mod", "b.go", "fixture"}, b \in Files(3), w \in BOOLEAN}
LongFileRuns == {Format1(Everything, <<At("a.txt", b)>>, w) : b \in [1..4 -> Bytes], w \in BOOLEAN}
TwoFileRuns ==
    {Format1(Everything, <<At("a.txt", b), At("go.mod", c)>>, TRUE) : b, c \in Files(2)}
RuleRuns ==
    {Format1(rules, files, FALSE) :
        rules \in RuleSets, files \in {<<>>, <<At("a.txt", <<"tab">>)>>}}

MCRuns ==
    [imports |-> ImportRuns, closed |-> ClosedRuns, adapters |-> AdapterRuns,
     reach |-> ReachRuns, invariants |-> InvariantRuns, cover |-> CoverRuns,
     scan |-> ScanRuns, files |-> FileRuns, long |-> LongFileRuns, two |-> TwoFileRuns,
     rules |-> RuleRuns, source |-> SourceRuns, commands |-> CommandRuns,
     documents |-> DocumentRuns, requests |-> RequestRuns]

=============================================================================
