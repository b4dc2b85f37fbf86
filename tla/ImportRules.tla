---------------------------- MODULE ImportRules -----------------------------
(***************************************************************************)
(* internal/importrules: the declaration of who may import whom, the graph *)
(* of the tree, and every disagreement between the two.                    *)
(*                                                                         *)
(* A declaration is the sequence of its lines that are no comment; the tree *)
(* is a set of files.  The findings are a set: no two share a package, an  *)
(* import and a kind, which is all that sort.Slice looks at.               *)
(***************************************************************************)
EXTENDS SequencesExt, FiniteSetsExt, Integers, TLC

CONSTANTS
    ByName,     \* the packages of the module, in the order of their names
    Commands    \* the ones under cmd/

Names == ToSet(ByName)
ASSUME ByNameAssumption == ByName \in Seq(Names) /\ IsInjective(ByName)
ASSUME CommandsAssumption == Commands \subseteq Names

InOrder(packages) ==
    FlattenSeq([k \in DOMAIN ByName |-> IF ByName[k] \in packages THEN <<ByName[k]>> ELSE <<>>])

-----------------------------------------------------------------------------
(* Parse *)

\* One line by itself, and against the lines above it.
LineStands(lines, i) ==
    LET line == lines[i]
    IN  /\ line.is \in {"package", "test", "planned", "test-only"}
        /\ ~\E j \in 1..(i - 1) : lines[j].is = line.is /\ lines[j].pkg = line.pkg
        /\ line.is \in {"package", "test"} =>
              line.pkg \notin ToSet(line.targets) /\ IsInjective(line.targets)

On(lines, kind) == {line \in ToSet(lines) : line.is = kind}
Packages(lines, kind) == {line.pkg : line \in On(lines, kind)}
TargetsOf(lines, kind) ==
    [p \in Packages(lines, kind) |->
        UNION {ToSet(line.targets) : line \in {l \in On(lines, kind) : l.pkg = p}}]

Rules(lines) ==
    [shipped |-> TargetsOf(lines, "package"), test |-> TargetsOf(lines, "test"),
     planned |-> Packages(lines, "planned"), testOnly |-> Packages(lines, "test-only")]

Declared(rules) == DOMAIN rules.shipped

\* Plausible slip: a permission is looked up among the declared packages only.
ResolveDeclared(rules) ==
    /\ rules.planned \cup rules.testOnly \cup DOMAIN rules.test \subseteq Declared(rules)
    /\ \A p \in Declared(rules) : rules.shipped[p] \subseteq Declared(rules)
    /\ \A p \in DOMAIN rules.test : rules.test[p] \subseteq Declared(rules)

Resolve(rules) ==
    /\ rules.planned \cup rules.testOnly \cup DOMAIN rules.test \subseteq Declared(rules)
    /\ \A p \in Declared(rules) : rules.shipped[p] \subseteq Declared(rules) \ rules.testOnly
    /\ \A p \in DOMAIN rules.test : rules.test[p] \subseteq Declared(rules)

Parses(lines) ==
    /\ \A i \in DOMAIN lines : LineStands(lines, i)
    /\ On(lines, "package") # {}
    /\ Resolve(Rules(lines))

-----------------------------------------------------------------------------
(* Load: what a file imports is kept apart by whether it is a test.          *)

Read(files) == {f \in files : ~f.skipped}
Loads(files) == \A f \in Read(files) : f.parses

Imports(files, p, tests) ==
    UNION {f.imports \cap Names : f \in {f \in Read(files) : f.pkg = p /\ f.tests = tests}}

Graph(files) ==
    LET packages == {f.pkg : f \in Read(files)}
    IN  [packages |-> packages,
         shipped  |-> [p \in packages |-> Imports(files, p, FALSE)],
         test     |-> [p \in packages |-> Imports(files, p, TRUE)]]

-----------------------------------------------------------------------------
(* chainTo: breadth first from the commands, with the chain to each package  *)
(* that was seen instead of the package before it.                           *)

Shipped(graph, p) == IF p \in graph.packages THEN graph.shipped[p] ELSE {}

Roots(graph) == [queue  |-> InOrder(Commands \cap graph.packages),
                 chains |-> [p \in Commands \cap graph.packages |-> <<p>>]]

\* What is seen first from current gets the chain to current and itself.
Seen(chains, current, new) ==
    [p \in DOMAIN chains \cup new |->
        IF p \in DOMAIN chains THEN chains[p] ELSE Append(chains[current], p)]

New(graph, s) == Shipped(graph, Head(s.queue)) \ DOMAIN s.chains

\* Plausible slip: what is found first is followed first, a stack for a queue.
VisitDeeper(graph, s) ==
    IF s.queue = <<>> THEN s
    ELSE [queue  |-> InOrder(New(graph, s)) \o Tail(s.queue),
          chains |-> Seen(s.chains, Head(s.queue), New(graph, s))]

Visit(graph, s) ==
    IF s.queue = <<>> THEN s
    ELSE [queue  |-> Tail(s.queue) \o InOrder(New(graph, s)),
          chains |-> Seen(s.chains, Head(s.queue), New(graph, s))]

After(graph, visits) ==
    LET after[n \in Nat] == IF n = 0 THEN Roots(graph) ELSE Visit(graph, after[n - 1])
    IN  after[visits]

ChainTo(graph, pkg) ==
    LET chains == After(graph, Cardinality(Names)).chains
    IN  IF pkg \in DOMAIN chains THEN chains[pkg] ELSE <<>>

-----------------------------------------------------------------------------
(* Check *)

Finding(kind, pkg, imported, chain, detail) ==
    [kind |-> kind, pkg |-> pkg, import |-> imported, chain |-> chain, detail |-> detail]

DetailFor(rules, imported, inTest) ==
    IF imported \in rules.testOnly /\ ~inTest THEN "test-only"
    ELSE IF imported \notin Declared(rules) THEN "undeclared" ELSE "not permitted"

Permitted(targets, p) == IF p \in DOMAIN targets THEN targets[p] ELSE {}

AboutPackages(rules, graph) ==
    {Finding("undeclared package", p, "", <<>>, "") : p \in graph.packages \ Declared(rules)}
    \cup {Finding("stale planned marker", p, "", <<>>, "") :
            p \in Declared(rules) \cap rules.planned \cap graph.packages}
    \cup {Finding("declaration for a package that is not there", p, "", <<>>, "") :
            p \in Declared(rules) \ (rules.planned \cup graph.packages)}

AboutImports(rules, graph, p) ==
    LET shipped == Permitted(rules.shipped, p)
        test == shipped \cup {p} \cup Permitted(rules.test, p)
    IN  {Finding("forbidden import", p, i, ChainTo(graph, p), DetailFor(rules, i, FALSE)) :
            i \in graph.shipped[p] \ shipped}
        \cup {Finding("forbidden import in a test file", p, i, <<>>, DetailFor(rules, i, TRUE)) :
            i \in graph.test[p] \ test}

Check(rules, graph) ==
    AboutPackages(rules, graph) \cup UNION {AboutImports(rules, graph, p) : p \in graph.packages}

=============================================================================
