-------------------------------- MODULE Gates -------------------------------
(***************************************************************************)
(* The gates a change passes: cmd/coverfloor, cmd/scanfloor, cmd/treefmt,  *)
(* cmd/cmdlint, cmd/doclint, cmd/prhygiene and the tests that hold the tree *)
(* against import-rules.txt, against invariants.txt, against the register   *)
(* of adapters, against the marks of its tests and against the reasons it   *)
(* has to give.  Each of them reads what it judges, one input after the      *)
(* other, any of which may be missing or refused; judges it; and says so    *)
(* with its exit.  treefmt -write rewrites files on the way.               *)
(*                                                                         *)
(* A run is one gate with the inputs it finds.                             *)
(***************************************************************************)
EXTENDS ImportRules, AdapterRegister, TestReach, Invariants, Floors, TreeFmt

CONSTANTS
    Runs,    \* families of runs: a gate with the inputs it finds
    PathOf   \* the path of each package

Source == INSTANCE SourceCheck
Cmd == INSTANCE CmdLint
Doc == INSTANCE DocLint
Pr == INSTANCE PrHygiene

\* What a run may be given.  A declaration and a file name packages of the module.
OfPackages(r) == r.lines \in Seq([is : STRING, pkg : Names, targets : Seq(Names)])
OfFiles(r) == \A f \in r.tree : f.pkg \in Names /\ f.tests \in BOOLEAN

OfAdapters(r) == \A f \in r.tree : f.tests \in BOOLEAN

OfTests(r) ==
    \A f \in r.tree :
        /\ f.built \subseteq SUBSET Tags
        /\ \A w \in f.writings :
              /\ w.is = "call" => w.args \in Seq([form : STRING, host : STRING])
              /\ w.is = "text" => w.operands \in Seq(Seq(STRING))

OfRecords(r) ==
    /\ r.lines \in Seq(ToSet(r.lines))
    /\ \A line \in ToSet(r.lines) : line.is = "pair" => line.value \in Seq(STRING)
    /\ \A f \in r.tree : f.built \subseteq SUBSET Tags

\* A comment is begun a second time at most once, behind a directive.
Comment ==
    {c \in [directive : Source!directives \cup {"none"}, words : Seq(STRING),
            against : {"nothing", ":", ":list", "//", "//word"}] :
        /\ c.directive = "none" => c.against = "nothing"
        /\ \A k \in DOMAIN c.words : c.words[k] = "//" =>
              /\ c.directive # "none" /\ c.against \notin {"//", "//word"}
              /\ \A j \in DOMAIN c.words : c.words[j] = "//" => j = k}

OfSource(r) ==
    \A f \in r.tree :
        f.source \in Seq([assign : [left : Seq(STRING), right : Seq(STRING)], comment : Comment])

\* "outside" is the name of no file.
Plain == STRING \ {"", ".", "..", "outside"}
Placed == Seq(Plain) \ {<<>>}
Written == Seq(STRING \ {"outside"}) \ {<<>>}

OfDocuments(r) ==
    /\ r.tracked \subseteq Placed
    /\ \A d \in r.documents :
          d.name \in Placed /\ \A w \in d.spans \cup d.links : w.is = "path" => w.path \in Written

OfRequest(r) ==
    /\ r.body \in Seq(STRING)
    /\ r.log \in Seq([parents : Nat, tab : BOOLEAN, subject : Seq(STRING)])

\* A word is what is no number, and NaN one that is compared with none.
Numbers == Int \cup {NaN, Words}

OfProfile(r) ==
    /\ r.profile \in Seq([block : STRING, statements : Int, count : Int, parses : BOOLEAN])
    /\ r.floor \in Seq(Numbers)

OfScan(r) ==
    /\ r.floor \in Seq(Numbers)
    /\ \A scan \in ToSet(r.document) : scan.rules \in Seq([id : STRING, severity : Numbers])

\* No two documents have one name.
OfCommands(r) ==
    /\ \A d \in r.documents : d.commands \in Seq(Seq(Seq(STRING)))
    /\ \A d, e \in r.documents : d.name = e.name => d = e

OfBytes(r) == r.files \in Seq([path : STRING, bytes : Seq(STRING)])

ASSUME RunsAssumption ==
    \A family \in DOMAIN Runs : \A r \in Runs[family] :
        /\ r.gate \in {"imports", "doclint"} => OfPackages(r)
        /\ r.gate = "imports" => OfFiles(r)
        /\ r.gate = "adapters" => OfAdapters(r)
        /\ r.gate = "testreach" => OfTests(r)
        /\ r.gate = "invariants" => OfRecords(r)
        /\ r.gate = "sourcecheck" => OfSource(r)
        /\ r.gate = "doclint" => OfDocuments(r)
        /\ r.gate = "prhygiene" => OfRequest(r)
        /\ r.gate = "coverfloor" => OfProfile(r)
        /\ r.gate = "scanfloor" => OfScan(r)
        /\ r.gate = "treefmt" => OfBytes(r)
        /\ r.gate = "cmdlint" => OfCommands(r)
ASSUME PathOfAssumption == \A p \in Names : PathOf[p] \in Placed

VARIABLES
    run,        \* the gate and its inputs, which do not change
    pc, at,     \* where it is: reading its at-th input, judging, writing, ...
    disk,       \* what the files treefmt formats hold
    found,      \* what it found
    exit        \* its exit status, once it has one

vars == <<run, pc, at, disk, found, exit>>

\* What each gate reads, in this order.
Inputs(gate) ==
    CASE gate = "imports"    -> <<"go.mod", "import-rules", "tree">>
      [] gate = "adapters"   -> <<"tree", "tests">>
      [] gate = "testreach"  -> <<"tree">>
      [] gate = "invariants" -> <<"declaration", "tree">>
      [] gate = "sourcecheck" -> <<"tree">>
      [] gate = "cmdlint"    -> <<"git ls-files", "documents">>
      [] gate = "doclint"    -> <<"git ls-files", "import-rules", "documents">>
      [] gate = "prhygiene"  -> <<"commit list">>
      [] gate = "coverfloor" -> <<"profile", "floor">>
      [] gate = "scanfloor"  -> <<"sarif", "scan floor">>
      [] gate = "treefmt"    -> <<"editorconfig", "git ls-files", "files">>

\* The files treefmt reads, in the order git lists them.
Paths == IF run.gate = "treefmt" THEN DOMAIN run.files ELSE {}

\* What the reader of an input makes of one that is there.
Accepts(input) ==
    CASE input = "import-rules" -> Parses(run.lines)
      [] input = "declaration"  -> Declares(run.lines)
      [] input = "tree"         ->
            /\ run.gate \in {"imports", "invariants", "sourcecheck"} => Loads(run.tree)
            /\ run.gate = "testreach" => ReadsTests(run.tree)
      [] input = "profile"      -> Measures(run.profile)
      [] input = "floor"        -> ReadsFloor(run.floor)
      [] input = "sarif"        -> Scans(run.document)
      [] input = "scan floor"   -> ReadsScanFloor(run.floor)
      [] input = "editorconfig" -> ParsesRules(run.rules) /\ Root(run.rules)
      [] input = "git ls-files" ->
            /\ run.gate = "treefmt" => run.files # <<>>
            /\ run.gate = "doclint" => run.tracked # {}
      [] input = "documents"    -> run.documents # {}
      [] input = "commit list"  -> Pr!ParsesLog(run.log)
      [] OTHER                  -> TRUE

Formatted(k) == Format(run.files[k].path, run.files[k].bytes,
                       RulesFor(run.rules, run.files[k].path))

\* What a document may name: what git holds, and what is declared to come.
Known == [tracked |-> run.tracked, planned |-> {PathOf[p] : p \in Rules(run.lines).planned}]

\* The answers a gate may come to, each what it has to say against the tree.
Judgements ==
    CASE run.gate = "imports"    -> {Check(Rules(run.lines), Graph(run.tree))}
      [] run.gate = "adapters"   -> {CheckRegister(run.tree, run.registered)}
      [] run.gate = "testreach"  -> {InTree(run.tree)}
      [] run.gate = "invariants" ->
            {IF Read(run.tree) = {} THEN {"nothing read"} ELSE Violations(run.lines, Read(run.tree))}
      [] run.gate = "sourcecheck" -> {Source!BareInTree(Read(run.tree))}
      [] run.gate = "cmdlint"    ->
            {UNION {{d.name} \X Cmd!Check(d.commands) : d \in run.documents}}
      [] run.gate = "doclint"    -> {Doc!Check(Known, run.documents)}
      [] run.gate = "prhygiene"  -> {Pr!JudgeRequest(run).refusals}
      [] run.gate = "coverfloor" ->
            {IF clears THEN {} ELSE {"below"} :
                clears \in Clears(run.floor[1], Total(run.profile))}
      [] run.gate = "scanfloor"  -> {Blocking(run.document, run.floor[1])}
      [] run.gate = "treefmt"    -> {UNION {{k} \X Formatted(k).found : k \in Paths}}

Init ==
    /\ \E family \in DOMAIN Runs : run \in Runs[family]
    /\ pc = "reading" /\ at = 1
    /\ disk = [k \in Paths |-> run.files[k].bytes]
    /\ found = {} /\ exit = "none"

End(status) == pc' = "ended" /\ exit' = status

ReadInput ==
    /\ pc = "reading" /\ at <= Len(Inputs(run.gate))
    /\ Accepts(Inputs(run.gate)[at])
    /\ at' = at + 1
    /\ UNCHANGED <<run, pc, disk, found, exit>>

\* It is not there, cannot be read, or is refused by its reader.
FailInput ==
    /\ pc = "reading" /\ at <= Len(Inputs(run.gate))
    /\ End("failure")
    /\ UNCHANGED <<run, at, disk, found>>

Judge ==
    /\ pc = "reading" /\ at > Len(Inputs(run.gate))
    /\ found' \in Judgements
    /\ at' = 1
    /\ pc' = IF run.gate = "treefmt" /\ run.write THEN "writing" ELSE "printing"
    /\ UNCHANGED <<run, disk, exit>>

\* The next file of those read, rewritten if anything was found in it.
WriteFile ==
    /\ pc = "writing" /\ at <= Len(run.files)
    /\ disk' = IF Formatted(at).found = {} THEN disk
               ELSE [disk EXCEPT ![at] = Formatted(at).bytes]
    /\ at' = at + 1
    /\ UNCHANGED <<run, pc, found, exit>>

\* It cannot be looked at or opened, or the write breaks off and leaves a part.
FailWrite ==
    /\ pc = "writing" /\ at <= Len(run.files) /\ Formatted(at).found # {}
    /\ \/ UNCHANGED disk
       \/ \E n \in 0..Len(Formatted(at).bytes) :
             disk' = [disk EXCEPT ![at] = SubSeq(Formatted(at).bytes, 1, n)]
    /\ End("failure")
    /\ UNCHANGED <<run, at, found>>

\* What was rewritten is counted, and nothing is said of what could not be.
FinishWriting ==
    /\ pc = "writing" /\ at > Len(run.files)
    /\ End("success")
    /\ UNCHANGED <<run, at, disk, found>>

Report ==
    /\ pc = "printing"
    /\ End(IF found = {} THEN "success" ELSE "failure")
    /\ UNCHANGED <<run, at, disk, found>>

\* The output of a command is closed; a test prints nothing that could fail.
FailReport ==
    /\ run.gate \notin {"imports", "adapters", "testreach", "invariants", "sourcecheck"}
    /\ \/ pc = "printing"
       \/ pc = "writing" /\ at > Len(run.files)
    /\ End("failure")
    /\ UNCHANGED <<run, at, disk, found>>

Next ==
    \/ ReadInput \/ FailInput \/ Judge
    \/ WriteFile \/ FailWrite \/ FinishWriting
    \/ Report \/ FailReport

Spec == Init /\ [][Next]_vars

-----------------------------------------------------------------------------
(* Properties *)

Green(gate) == run.gate = gate /\ exit = "success"
Judged(gate) == run.gate = gate /\ pc = "printing"

\* The declaration, line by line, against the tree, file by file.
Line(kind, p) == \E l \in ToSet(run.lines) : l.is = kind /\ l.pkg = p
Permits(kind, p, i) ==
    \E l \in ToSet(run.lines) : l.is = kind /\ l.pkg = p /\ i \in ToSet(l.targets)

ImportsAgree ==
    /\ \A p \in Names : Line("package", p) /\ ~Line("planned", p) <=>
                            \E f \in run.tree : ~f.skipped /\ f.pkg = p
    /\ \A f \in run.tree : ~f.skipped => \A i \in f.imports \cap Names :
          \/ Permits("package", f.pkg, i) /\ (~f.tests => ~Line("test-only", i))
          \/ f.tests /\ (i = f.pkg \/ Permits("test", f.pkg, i))

\* A type with the three operations of the contract on it: a type of one package,
\* whichever of the package's files its methods stand in.
ShippedFiles(p) == {f \in run.tree : f.pkg = p /\ ~f.tests /\ f.parses}
AllThree(methods) == \E m \in methods : \A op \in operations : <<m[1], op>> \in methods
Implements(p) == AllThree(UNION {f.methods : f \in ShippedFiles(p)})

\* The adapters the register does not see: no file holds the three by itself.
Spread == {f.pkg : f \in {f \in run.tree :
              Implements(f.pkg) /\ ~\E g \in ShippedFiles(f.pkg) : AllThree(g.methods)}}

IsTested(p) == \E f \in run.tree : f.pkg = p /\ f.tests /\ f.parses /\ f.runs

AdaptersAgree ==
    /\ run.registered = {f.pkg : f \in {f \in run.tree : Implements(f.pkg)}} \ Spread
    /\ \A p \in run.registered : IsTested(p)

\* The keys of the record that an invariant line begins, and what each says.
Pairs(i, key) ==
    {j \in (i + 1)..Len(run.lines) :
        /\ run.lines[j].is = "pair" /\ run.lines[j].key = key
        /\ \A k \in (i + 1)..j :
              run.lines[k].is = "comment" \/ (run.lines[k].is = "pair" /\ run.lines[k].key # "invariant")}
Said(i, key) == IF Pairs(i, key) = {} THEN <<>> ELSE run.lines[Max(Pairs(i, key))].value
Has(i, key, word) == word \in ToSet(Said(i, key))

OnlyWith(f, tag) == {tag} \in f.built /\ {} \notin f.built

InvariantsAgree ==
    \A i \in DOMAIN run.lines, f \in Read(run.tree) :
        run.lines[i].is = "pair" /\ run.lines[i].key = "invariant" =>
            /\ Has(i, "shape", "constrained-test-calls") =>
                  \A called \in f.cases : (\E tag \in Tags : Said(i, "constraint") = <<tag>> /\ OnlyWith(f, tag)) =>
                      \E name \in called : Has(i, "names", name)
            /\ \A w \in f.writings :
                  /\ Has(i, "shape", "call-only-in") /\ w.is = "call" /\ Has(i, "names", w.fn) =>
                        \E path \in Within[f.dir] : Has(i, "paths", path)
                  /\ Has(i, "shape", "literal-argument") /\ w.is = "call" /\ Has(i, "names", w.fn) =>
                        \A a \in ToSet(w.args), said \in Carrying :
                            a.form # "computed" /\ said[2] = a.host => ~Has(i, "words", said[1])
                  /\ Has(i, "shape", "named-string-literal") /\ w.is = "binding" /\ w.filled =>
                        \A said \in Carrying : said[2] = w.name => ~Has(i, "names", said[1])

\* A comment that ends in three words, told from what an analyser reads of it:
\* what is written against the directive, the identifier of a check, the slashes.
Explains(comment) ==
    \/ /\ comment.directive \in Source!directives \ Source!Identified
       /\ comment.against = "//word" /\ Len(comment.words) >= 2
    \/ \E k \in DOMAIN comment.words :
          /\ Len(comment.words) >= k + 2 /\ comment.words[k] # "//"
          /\ comment.directive \in Source!Identified /\ comment.against = "nothing" => k > 1

ReasonsAgree ==
    \A f \in Read(run.tree) : \A n \in DOMAIN f.source :
        LET line == f.source[n]
        IN  line.comment.directive # "none" \/ Source!discardsACallResult(line.assign) =>
                Explains(line.comment)

\* Where a path leads that is followed from a directory, step by step.
Onward(place, segment) ==
    CASE segment \in {"", "."} -> place
      [] segment = ".." -> IF place \in {<<>>, <<"outside">>} THEN <<"outside">> ELSE Front(place)
      [] OTHER -> Append(place, segment)

Followed(from, path) ==
    LET place[k \in 0..Len(path)] == IF k = 0 THEN from ELSE Onward(place[k - 1], path[k])
    IN  place[Len(path)]

ToCome == {PathOf[l.pkg] : l \in {l \in ToSet(run.lines) : l.is = "planned"}}
IsThere(path) == path # <<>> /\ (path \in ToCome \/ \E p \in run.tracked : IsPrefix(path, p))

DocumentsAgree ==
    \A d \in run.documents :
        /\ \A w \in d.links : w.is = "path" => IsThere(Followed(Front(d.name), w.path))
        /\ \A w \in {w \in d.spans : w.is = "path"} :
              LET path == IF w.path[1] = "." THEN Tail(w.path) ELSE w.path
                  first == SubSeq(path, 1, 1)
              IN  Len(path) > 1 /\ (IsThere(first) \/ \E p \in ToCome : IsPrefix(first, p))
                  => IsThere(Followed(<<>>, path))

\* A number by itself behind a hash by itself.
NamesAnIssue(text) ==
    \E i, j \in DOMAIN text :
        /\ 1 < i /\ i <= j /\ text[i - 1] = "#" /\ text[i] # "0"
        /\ \A k \in i..j : text[k] \in {"0", "digit"}
        /\ \A k \in {i - 2, j + 1} \cap DOMAIN text : text[k] \notin {"0", "digit", "letter"}

\* A first commit without a subject is the one a list does not show.
Shown == {c \in ToSet(run.log) : c.tab /\ (c.parents > 0 \/ c.subject # <<>>)}

RequestAgrees ==
    /\ NamesAnIssue(run.body) /\ Shown # {}
    /\ \A commit \in Shown : commit.parents > 1 \/ NamesAnIssue(commit.subject)

\* A gate that holds what it reads against a list or a rule says nothing exactly
\* when they agree, in both directions: nothing that ships imports what is not
\* permitted or is test-only, no line and no marker outlives its package
\* (importrules.go:16-20), no adapter is unregistered or untested and nothing
\* else is registered (adapters.go:47-80), no invariant of the declaration is broken by a file,
\* each by the words its record says last (invariants.go:80-164), every
\* suppression and discard has a reason no analyser reads (sourcecheck.go:4-9),
\* every path of a document leads somewhere (doclint.go:13-17), and a pull
\* request and each of its own commits it is shown names an issue (prhygiene.go:1-9).
\* The exception is an adapter spread over the files of its package, whose methods
\* no file has together: the register does not see it, lets it through where it is
\* not registered and refuses it where it is (adapters.go:92-119).
SilenceIsAgreement ==
    /\ Judged("imports") => (found = {} <=> ImportsAgree)
    /\ Judged("adapters") => (found = {} <=> AdaptersAgree)
    /\ Judged("invariants") => (found = {} <=> Read(run.tree) # {} /\ InvariantsAgree)
    /\ Judged("sourcecheck") => (found = {} <=> ReasonsAgree)
    /\ Judged("doclint") => (found = {} <=> DocumentsAgree)
    /\ Judged("prhygiene") => (found = {} <=> RequestAgrees)

\* What the walk over a command's characters makes of one quote and one depth is
\* what the shell makes of quotes and of the substitutions around them: a command
\* is let through exactly when a shell that reads its lines as they are written
\* would find it closed and not waiting for the rest of a pipeline
\* (cmdlint.go:304-312, 85-104, 422-434).  The exceptions are what Ordinary leaves
\* out: the linter joins lines with a blank where a shell joins them with nothing,
\* which tells an operator or a "#" that the join would touch and a comment on a
\* continued line; one quote cannot tell what a substitution inside double quotes
\* holds; and some escapes, parentheses and runs of operators.
CommandsCloseForTheShell ==
    Judged("cmdlint") => \A d \in run.documents : \A n \in DOMAIN d.commands :
        LET text == Cmd!Written(d.commands[n])
        IN  Cmd!Ordinary(text) =>
                (Cmd!LeftOpen(text) \/ Cmd!Truncated(text) <=> \E f \in found : f[1] = d.name /\ f[2].command = n)

\* The machines a run may be on, each with its platform.
Platforms == Tags \ {MarkTag}

\* Where the address of a call, or the name of a device, is written out, it is of
\* this machine; where it is not, a reason stands beside it.
StaysInside(f) ==
    \A w \in f.writings :
        /\ IsReacher(w) => w.fn \notin Lookups /\
              \E k \in DOMAIN w.args \cap {reachers[w.pkg][w.fn].addr} :
                  \/ w.args[k].host \in {"localhost", "loopback"}
                  \/ w.args[k].form = "computed" /\ w.reason >= minimumReasonWords
        /\ w.is = "text" =>
              LET name == FlattenSeq(w.operands)
              IN  Len(name) = 2 /\ name[1] = "/dev/" =>
                      name[2] \in devicesThatAreNotDevices \cup {"computed"}

\* No tag but the mark keeps the file out, or is wanted.
KeptOutByNone(f) == \A on \in f.built : \A p \in Platforms : on \cup {p} \in f.built
WantedByNone(f) == \A on \in f.built : \A p \in Platforms : on \ {p} \in f.built

\* The invariant invariants.txt has about a marked case.
StartIsRequired ==
    \E i \in DOMAIN run.lines :
        /\ run.lines[i].is = "pair" /\ run.lines[i].key = "invariant"
        /\ Has(i, "shape", "constrained-test-calls") /\ Said(i, "constraint") = <<MarkTag>>
        /\ \A j \in Pairs(i, "names") : run.lines[j].value = <<"Start">>

\* No test falls between the default run and the marked one.  Once testreach is
\* silent, every test either stays inside the process or lies where the marked
\* ones are listed, and the ones a run without the mark builds on some platform
\* stay inside, unless their constraint keeps a platform out.  Once the
\* declared invariant is, each case of a test that only the mark builds calls
\* Start, unless its constraint wants a platform too (testreach.go:148-172,
\* 415-423; invariants.go:379-414).
MarksAreHonoured ==
    /\ Judged("testreach") /\ found = {} => \A f \in Read(run.tree) : f.tests =>
          /\ StaysInside(f) \/ f.dir \in TestDirs
          /\ (\E p \in Platforms : {p} \in f.built) /\ KeptOutByNone(f) => StaysInside(f)
    /\ Judged("invariants") /\ found = {} /\ StartIsRequired => \A f \in Read(run.tree) :
          /\ \A on \in SUBSET Platforms : on \notin f.built
          /\ \E p \in Platforms : {p, MarkTag} \in f.built
          /\ WantedByNone(f)
          => \A called \in f.cases : "Start" \in called

\* The packages a command reaches in n imports of shipped files.
ReachedIn(graph, n) ==
    LET reached[k \in Nat] ==
            IF k = 0 THEN Commands \cap graph.packages
            ELSE UNION {Shipped(graph, p) : p \in reached[k - 1]}
    IN  reached[n]

IsChain(graph, chain, pkg) ==
    /\ chain[1] \in Commands \cap graph.packages /\ Last(chain) = pkg
    /\ \A k \in 1..(Len(chain) - 1) : chain[k + 1] \in Shipped(graph, chain[k])

\* A forbidden import comes with a way a command really reaches it, no longer
\* than it has to be, or with none if none does (graph.go:130-136).
ChainsAreShortest ==
    Judged("imports") => \A f \in found : f.kind = "forbidden import" =>
        LET graph == Graph(run.tree)
            within == {n \in 0..Cardinality(Names) : f.pkg \in ReachedIn(graph, n)}
        IN  IF within = {} THEN f.chain = <<>>
            ELSE IsChain(graph, f.chain, f.pkg) /\ Len(f.chain) = Min(within) + 1

\* What the tests reached, each block counted once however many of the test
\* binaries entered it.
Reached ==
    MapThenSumSet(LAMBDA b : Statements(run.profile, b),
                  {b \in Blocks(run.profile) :
                      \E l \in ToSet(run.profile) : l.block = b /\ l.count > 0})
All == MapThenSumSet(LAMBDA b : Statements(run.profile, b), Blocks(run.profile))

\* A green floor was earned and a red one was missed: the profile is not empty,
\* and what all the binaries reached together is above or below the floor, give
\* or take the tenth of a percent both are printed to (of a profile without
\* statements that says nothing); every result of a green scan has a severity
\* its own run declares and that is below the floor.  A floor
\* or a severity written NaN is a number to the readers, and nothing is then
\* below (coverfloor.go:64-69, 179-185; scanfloor.go:122-127, 180-185).
FloorsAreCleared ==
    /\ run.gate = "coverfloor" /\ run.floor # <<NaN>> =>
          /\ exit = "success" => run.profile # <<>> /\ 10000 * Reached >= (run.floor[1] - 10) * All
          /\ found # {} => 10000 * Reached <= (run.floor[1] + 10) * All
    /\ Green("scanfloor") /\ run.floor[1] # NaN =>
          /\ run.document # <<>>
          /\ \A scan \in ToSet(run.document) : \A rule \in ToSet(scan.results) :
                \E r \in ToSet(scan.rules) :
                    r.id = rule /\ (r.severity = NaN \/ Less(r.severity, run.floor[1]))

\* What formatting leaves to be found: what every repair would be a guess for,
\* and the second of two byte order marks.
Unrepairable(k) ==
    LET path == run.files[k].path
    IN  \/ ~Valid(disk[k]) \/ (path \in GoPaths /\ ~GoParses(disk[k]))
        \/ (RulesFor(run.rules, path).indent_style = "tab" /\ IndentedWithSpace(disk[k]))
        \/ (disk[k] # <<>> /\ disk[k][1] = "mark")

\* Formatting settles: after a rewrite that succeeded every file is as a check
\* wants it, or is one that no rewrite changes; a green check means that a
\* rewrite would change nothing; and a rewrite that fails part way has spoilt no
\* file but the one it was at (treefmt.go:62-71, run.go:13-19).
FormatSettles ==
    /\ Green("treefmt") => \A k \in Paths :
          LET now == Format(run.files[k].path, disk[k], RulesFor(run.rules, run.files[k].path))
          IN  IF run.write THEN now.found = {} \/ Unrepairable(k)
              ELSE now.bytes = disk[k]
    /\ run.gate = "treefmt" => \A k \in Paths :
          \/ disk[k] \in {run.files[k].bytes, Formatted(k).bytes}
          \/ exit = "failure" /\ at = k

=============================================================================
