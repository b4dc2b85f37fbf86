# Kanzlei, specified

TLA+ modules, TLC runs and TLAPS proofs for the parts of kanzlei that exist:
the permission evaluator, sign-on and identities, the runtime interface with
its fake, its contract suite and its harness, the life of the process, and the
gates a change passes. Paths are those of the repository.
`PROJECT.json` lists the runs, the source lines every definition stands for, the
hazards and the theorems; this file says what they mean.

    tlc -workers 2 -config MCAuthz.cfg MCAuthz      # a run
    tlapm AuthProofs.tla                            # a proof

## The system

Kanzlei is at the stage where its skeleton and its gates exist and its
retrieval does not: the decision records under `docs/decisions` describe a data
store, connectors and a search that nothing implements yet. What there is falls
into three layers.

**What a user may see.**

| Component | State | Operations | What makes it correct |
|---|---|---|---|
| `internal/authz` | none; one call is three loops over a slice | `Evaluate` | an answer depends on the entries as a set; one unreadable entry refuses the document; deny wins; every refusal has the reason the code names |
| `internal/auth` | the operator's `Mapping` and `GroupPolicy`, fixed at startup; principals and sessions held by callers | `NewMapping`, `NewSession`, `Resolve`, `WithSourceAssertion`, `IdentityIn`, `ForSource`, `GroupsAreStale` | every identity and group can be traced to whoever said it; sign-on is whole or refused; principals do not share memory; a fresh group is a recent one |
| `internal/audit` | none | `Record.Validate` | a record can be queried as promised |

`auth` asks a provider (`GroupSource`) over the network while it builds a
session, and hands `authz` one principal per source system. Hard here: the
provider's answer is late, principals are copied and outlive their groups'
freshness, `Groups` is an exported slice, and a caller may drop the second
result of `ForSource`.

**What answers.**

| Component | State | Operations | What makes it correct |
|---|---|---|---|
| `internal/runtime` | none; an interface, its results and its errors | `Capabilities`, `Generate`, `Embed`, `Refuse` | a caller can tell a whole answer from a cut one |
| `internal/runtime/fake` | a behaviour fixed by `New`; a count behind a mutex | the three operations and `Cancellations`, from any number of goroutines | an answer without an error is whole; a misbehaviour shows; no cancellation is lost; a context ends its call |
| `internal/runtime/contract` | counts of one run | `Run`, ten cases | an adapter that breaks a promise is refused, and a case that did not run is said |
| `test/needs-real-hardware-or-services` | each suite's outcome and a roster, behind mutexes | `Start`, `Register`, `Report`, `Run` | a partial run never reads like a full one |

Hard here: calls run at once, a context may end between any two steps, the sink
is the caller's code, and the count is shared. In the harness: cases of one suite
may run beside each other, and what they need comes up and goes away between
them.

**The process and its gates.**

| Component | State | Operations | What makes it correct |
|---|---|---|---|
| `cmd/kanzlei` with `internal/server` | one process: four goroutines, a listener, `http.Server`, a context, a channel | `run`, `stopWhenClosed`, `Serve`, `Shutdown` | a clean exit was asked for and cut nobody off; a stop ends; a stop is an error only for a reason |
| `internal/importrules`, `linkcheck`, `coverfloor`, `scanfloor`, `cmdlint`, `mdlint`, `doclint`, `treefmt`, `invariants`, `testreach`, `sourcecheck`, `prhygiene` with their `cmd/` drivers | none but a run's own findings | read the tree, report | a gate refuses what it says it refuses, counts what it read, and does not pass for want of input |
| `internal/build`, `internal/scanfixture` | none | three strings; a fixture | nothing to check |

Hard here: signals, end of file, clients, failures of the listener and the end
of the grace arrive in any order; `Shutdown` may overtake the goroutine that
serves; a `select` takes either of two ready channels. In the gates: retries
against a server that changes its answer, rewrites that fail part way, numbers
at a floor; characters read one at a time in the state the ones before leave.

## The modules

| Module | Models | Extends, uses |
|---|---|---|
| `Authz` | `Evaluate` in closed form; `Promised`, what the package promises of a set of entries | |
| `AuthzPasses` | the three loops of `Evaluate`, a step per iteration | `Authz` |
| `Auth` | sign-on, identities and groups, down to the permission of a document | `Authz` |
| `AuthProofs` | theorems about the loops, and about sessions, identities, access and groups | `AuthzPasses`, `Auth` |
| `RuntimeContract` | abstract: what a caller of `Generate` is promised | |
| `FakeRuntime` | the fake engine under concurrent calls | refines `RuntimeContract` |
| `Kanzlei` | one process from its arguments to its exit | |
| `KanzleiProofs` | theorems about the process | `Kanzlei` |
| `ContractSuite` | a run of the suite over one adapter, with the goroutine counts of its cancellation case | |
| `RuntimeProofs` | theorems about the fake and about the suite | `FakeRuntime`, `ContractSuite` |
| `Harness` | a run of the marked test binary, from its cases to its roster | |
| `HarnessProofs` | theorems about the harness | `Harness` |
| `LinkCheck` | a run of `cmd/linkcheck` against hosts that answer as they please | |
| `LinkCheckProofs` | theorems about the links | `LinkCheck` |
| `Readers` | the three readers of a document's fences, over one document at once | |
| `ReadersProofs` | theorems about the readers | `Readers` |
| `ImportRules`, `AdapterRegister`, `TestReach`, `Invariants`, `SourceCheck`, `CmdLint`, `DocLint`, `PrHygiene`, `Floors`, `TreeFmt` | what the gates compute, as operators | |
| `Gates` | a run of one of eleven gates, from its inputs to its exit | the ten above |
| `GatesProofs` | theorems about what the gates find | `Gates` |
| `CommandProofs` | the theorem about the commands `cmdlint` reads | `GatesProofs` |
| `MC...` | values for the constants, nothing else | |

Definitions whose comment says *plausible slip* are wrong versions of a step.
No action uses them; each shows, put in the place of the step it varies, that a
property notices (`PROJECT.json`, "mutants").

### Authz and AuthzPasses

A permission set is a sequence of entries, because the code stops at the first
one it cannot read. An entry is its effect and its term, and effects and term
types are strings, so that an unknown one is just another string. `Decision.Detail`
is left out. In `AuthzPasses`, `pass` says which loop runs, `i` is its index and
`resolved` the slice the first loop builds; `principal` and `permissions` are the
parameters `p` and `set`. Every early return is an action of its own and `Returned` is the only step of a finished call, so that a pass that
could get stuck is a deadlock.

`AllowedIsPromised` compares the answer with `Promised`, which knows neither
loops nor order. `ComputesEvaluate` compares the whole decision with the closed
form. `Progress` is what the loops know on the way. The variables and `PassesSpec`
have names of their own, because `AuthProofs` extends `AuthzPasses` beside `Auth`.

### Auth

A holder is a variable some caller keeps a principal in. A sign-on goes through
`called`, perhaps `asking`, and `given` to `open` or `refused`, in the order
`NewSession` calls its parts: the provider is asked before the policy is
validated and before an empty subject is noticed. `Groups` is a reference into
`array`, because the field is exported and a holder may write through it; the
map of identities is unexported and never written after it is built, so it is a
value. A derived principal is kept in a holder that has none yet. `lineage` is a
history variable: where the content of a holder came from, what the properties
compare it with. The result of `ForSource` is kept even when its second result
is false, as a caller that drops it would.

The provider's membership, the clock, and writes through `Groups` are actions of
the environment and marked external. `lastIn` records until when each membership
held.

`FreshGroupsAreRecent` is about the provider-call shape. A token carries no time
of issue here, so nothing the code keeps says how old the groups in it already
were.

### RuntimeContract and FakeRuntime

`RuntimeContract` is what the cases of `internal/runtime/contract` refuse an
adapter for breaking, as a state machine over one call: chunks are delivered
while the call is open, and the return says which of the ways of ending it was.

`FakeRuntime` runs each call in its own goroutine. A step is the code between two
points at which another goroutine or the context matters: a read of the
context, the call of the sink, each of lock, load, store and unlock. A message
is reduced to what a guard reads. `EndContext` is the caller's cancellation or
the deadline, at any time. The sink may take a chunk or fail.

The mapping of `Contract` takes a generation's `out` for the chunks told and its
result for the answer; the other operations are idle there. `ImplementsContract`
is checked for two concurrent calls and every misbehaviour. `MisbehaviourShows` has
one exception: a stream told to break after n chunks ends, for a request that asks
for n words or fewer, at the bound of the request, as one that behaves does.

### Kanzlei

`pc` is where `run` is; `srv` is the goroutine that serves and `served` the
buffered channel it reports on. `caught` is whether signals are the process's
own: before `NotifyContext` and after `run`'s deferred `stop`, a signal ends the
process where it stands.

`net/http` is external and modelled as far as the code depends on it: `Serve`
registers its listener or finds the server shutting down; a connection is
accepted and registered in two steps; `Shutdown` marks the server, closes a
registered listener, waits until no listener is left, then polls, closing what is
idle, until nothing is busy or the grace is over. A connection on which nothing
was read yet counts as busy. Time is a counter of units longer than the polls of
`Shutdown`; `Tick` waits for what the process has only to do, so an overdue
header is timed out before more time passes. `Shutdown` also takes a connection that
has said nothing for five seconds for idle; that is left out, so a silent client
holds a drain here for longer than it may. A write of the address and a bind
may fail; so may `Accept`, and the close of the listener.

### ContractSuite

An adapter is the set of things that are wrong with it and the goroutines a
cancelled generation leaves. Every case finds what it looks at; the case of the
cancellation goes reading by reading (`TakeBaseline`, `Quiesce`, `Generate`,
`ReadCount`, `Settle`), because the count it reads is that of the whole test binary,
and goroutines leave between two readings and between a reading and its judgement
(`Unwind`, `WorkerEnds`). `after` is the local that keeps the last reading.
`cannot` maps a condition to the number of words of the reason; `gone` and `there`
are history variables, the others that ended since the reading that is kept and the
adapter's own goroutines at the last one. A refusal is therefore over a goroutine
that was there when the count was read: it may be gone when it is said. What the
cases ask of a generation is `RuntimeContract`. Its variables and its `SuiteSpec`
have names of their own, because `RuntimeProofs` extends it beside `FakeRuntime`.

### Harness

A case is the sequence of what it does: it registers its suite, calls `Start`,
and has a body; `Start` may stand anywhere in it, as nothing in the code keeps it
first. A case that was selected runs beside the others. `Start` asks the suite's
requirements one by one without the mutex (`Met`, `FindMissing`,
`FindNothingMissing`), and `Change` lets each come up or go away at any moment.
`record` is a step per read and write under the mutex (`Lock`, `Compare`, `Raise`,
`KeepWords`, `Unlock`), and a refused case takes the mutex again to print the
refusal the suite keeps (`Skip`), which is the first one and may be another
case's. `CasesEnd` is the return of `m.Run`, `Die` a panic or the end of the
deadline, after which nothing is printed. The report reads suite by suite and is
written in one go, or fails and spoils an exit of zero. The list of suites is a set:
no property depends on its order or on a suite registered twice
(`harness.go:153-157`). What a requirement says
when it is not met is the requirement itself.

`verdict` and `words`, what each case found, are locals of `Start`; the properties
compare the roster with them.

### LinkCheck

A tree is a sequence of documents, a document a sequence of lines with the
targets read from them; other targets are dropped by being no `URLs`. A host
answers each request with one of five kinds of answer, freely, and `heard` keeps
all of them. `judged` is the map that spares a second request.

### Readers

`doclint` toggles at a fence line, `mdlint` follows the marker that opened the
fence, `cmdlint` follows it and the kind of block, and carries a command over
continued lines. A line is its marker, what follows it, whether it is indented, a
heading, a list item and so on; the three read the same line in one step, because
what is compared is where each of them is afterwards.

### Gates

A run is one gate with what it finds: `run` never changes. `Inputs` is the order
in which a gate reads; any input may be missing, refused or unreadable
(`FailInput`), and `Accepts` is what its reader refuses. `Judge` compares, and
`treefmt -write` then rewrites file by file, any of which may fail and leave a
part (`FailWrite`). `importrules`, the register of adapters and `invariants` are
gates by their tests (`tree_test.go`, `adapters_test.go`, `tree_test.go`); the
others by their commands.

The computations are operators, kept by package. `ImportRules` has `Parse` with
`resolve`, `Load`, `Check` and the search of `chainTo`, which keeps the chain to
each package in place of its parent and is run as many steps as there are
packages. `Floors` counts in hundredths; a percentage printed to one decimal is a
set, of two where a tie could go either way. `NaN` is a model value that every
comparison refuses. `TreeFmt` has every transformation on files of seven kinds of
bytes; patterns of sections are taken as the paths they match, and `go/format` is
external: it may refuse, and returns unchanged what it returned.

`TestReach` and `Invariants` read the same Go files, as the calls, bindings,
joined literals and cases in them. A build constraint is the set of tag sets it
builds with, so that both ask of it what the code asks of the parsed expression.
`Invariants` also has its declaration, record by record. `SourceCheck` has a line
as the assignment and the comment on it, a comment as its directive, what stands
against it and its words. `CmdLint` has a command as its characters, walks them one
by one as the code does, in the text with a blank for each join. Its shell reads the
lines as they are written, a mark for each backslash and newline, which it takes away. `DocLint` has a path as its
segments and cleans it against a document's directory. `PrHygiene` has a text as
its characters and a commit as a line of `git log`.

The properties do not look at the operators. `SilenceIsAgreement` is one conjunct
per gate: `ImportsAgree` compares lines with files, `AdaptersAgree` takes an adapter
for a type of a package with the three operations, whichever files they stand in,
except the ones no file has together (`Spread`), `ReasonsAgree` counts the words
behind a directive, `DocumentsAgree` follows a path step by step in place of
cleaning it, `RequestAgrees` looks for a number anywhere in a text.
`MarksAreHonoured` says what the two readers of marks promise together: a test
that builds without the mark stays inside, unless its constraint asks for or keeps
out a platform, and a marked test asks `Start`. `FloorsAreCleared` adds up
statements by multiplication instead of rounding, and `FormatSettles` looks at the
disk after the exit. `CommandsCloseForTheShell` compares the flat walk, one quote
and one depth over joined lines, with a shell that keeps a stack and reads them as
they are written, on the commands `Ordinary` admits. `Ordinary` names the writings
on which the two may differ, listed below: an operator joined to an operator, a `#`
joined to a word, a comment on a continued line; a quote, a substitution or a comment
inside a substitution inside double quotes; a parenthesis, quoted or of a
subshell, inside a substitution; an escaped blank, operator or parenthesis; a
command that ends in operators which are no one operator. `$(` is one character, so
one that a join makes is not compared either.

## What the runs show

| Run | Bounds | Shows |
|---|---|---|
| `authz` | up to 3 entries of 3 effects, 3 term types, 2 values, one empty; 8 principals | type, `AllowedIsPromised`, `ComputesEvaluate`, no deadlock |
| `auth` | 3 holders, 2 subjects and an unknown one, 2 sources, 8 policies, 4 configurations, 10 kinds of request; no time | whole sessions, accounted identities and access |
| `auth_age` | 2 holders, a maximal age of 1, time up to 4, 2 group values, writes | `FreshGroupsAreRecent`, `GroupsAreNotShared` |
| `fake` | 2 calls, answers of 3 words, bounds 0 to 4, 15 behaviours of which New refuses 5, 11 requests | misbehaviours that show, the contract |
| `fake_live` | 2 generations bounded below their answer, 1 observer, every behaviour | the count, its visibility, `ContextEndsCalls` |
| `kanzlei` | 2 connections, a grace of 3, a header timeout of 1 | clean exits, reasons for the others, a reachable address, `NothingJoinsTheDrain`, `StopEnds` |
| `kanzlei_signal` | 1 connection | **violated**: `SignalsGiveTheGrace` |
| `contract_suite` | 9 subjects, every single flaw and three together, 2 goroutines of others and 2 of the adapter, 2 readings of patience | the accounting of the cases, `LeaksAreToldApart` |
| `harness` | 3 cases, 2 suites, 2 requirements; one suite registered early, the other by its case; a case that starts first or last | the roster, the skips and the exit say what happened, nothing is taken back, the run ends |
| `linkcheck` | 5 trees of at most 2 documents over 3 addresses, budgets of 0 to 2 | `Accounted`, `RedOnlyOnItsWord`, `NeverAsksInVain` |
| `readers` | every document of up to 5 lines of 6 kinds that make blocks, 4 of 7 that make shapes, 3 of all 12 | agreement of the readers, no line of a block lost |
| `gates` | 3 packages under 31 declarations and every tree of 5 without permissions; 2 packages of adapters; 9 constraints over the mark and 2 platforms with 28 writings; 15 declarations of invariants and 12 more with a line left out; 5 assignments beside comments of up to 4 words; commands of up to 5 characters that quote, substitute and comment, of 4 that escape and end, of 2 lines of up to 3 and 2 characters of either kind, and of 3; every path of up to 3 segments; texts of up to 4 characters, 2 commits; 2 blocks in up to 4 lines; 2 scans; every file of up to 4 bytes of 7 kinds, 4 paths | silence, marks, chains, floors, formatting, commands as the shell reads them |

Why the bounds are enough. Three entries hold an unreadable one before and after
a readable one, and a deny on either side of an allow. Three holders are a
sign-on, a copy and a copy of the copy, or a reduction of a copy; two sources are
one that asserts and one that does not. Two generations that end together lose an
update if anything does, and one observer asks again and again. An answer of
three words has a break before, in and at its end and bounds
below, at and above it. A grace of three units leaves one in which a header
times out, one in which it is noticed, and one over, as ten seconds do against
five. Two goroutines of others hide one leak and not two. Three cases are two
that race in one suite and one of another, and two requirements go missing in
turn, so that the second case of a suite is refused for another reason than the
first. Five lines hold a
block of two continued lines between its fences and what follows. Five packages have a
shortest chain of three imports beside a longer one. Two blocks in four lines are
entered by none, one or several binaries in each order, and the floors stand
beside the thirds and halves they make. Four bytes hold a line ending between
two blanks, two byte order marks before something, and a last line with and
without its end. Five characters are a quote in a
substitution that closes, and two platforms beside the mark are one that is asked
for and one that is kept out. Proofs remove the bounds where there are any.

The violated property is a sentence of the repository that the code does not
keep; `PROJECT.json`, "findings", quotes it. It is a short window at startup.
Reading the code against its comments for the models showed others, too small for
a run of their own:

- the reason of a refusal depends on the order of the entries when two of them
  are unreadable in different ways (`authz.go:178`), where `authz.go:90` says that
  their order does not matter; whether the document is permitted does not;
- a generation that a hanging engine kept until its context ended is not counted,
  where `fake.go:139` says that `Cancellations` counts those that ended because
  the context did;
- a stream told to break after n chunks (`fake.go:72`) answers normally when its
  bound is n or less;
- `-attempts` is the number of requests and not of repetitions
  (`cmd/linkcheck/main.go:47`);
- a line of hyphens is refused as a heading's underline also below what is no
  paragraph (`mdlint.go:283-285`);
- an adapter whose methods stand in two files of its package is not reported
  (`adapters.go:79-80`; the comment above it names other shapes it misses), and is refused where it is
  registered; the property names it as an exception;
- of two byte order marks `treefmt -write` removes one, and the next check finds
  the other (`treefmt.go:62`);
- a coverage floor written `NaN` is accepted and refuses nothing
  (`coverfloor.go:173`); so are a scan floor (`scanfloor.go:229`) and a declared
  severity, which never blocks (`scanfloor.go:147`, `188`). The properties name
  these cases as exceptions;
- the walk over a command has one quote and one depth for what a shell keeps on a
  stack: a quote inside a substitution inside double quotes is taken for the end of
  the outer one, so `"$(echo 'a"b')"` is refused and `"$(a ")` is let through; a
  `)` in double quotes and the one that ends a subshell close a substitution; a
  comment in a substitution inside double quotes is read on as text
  (`cmdlint.go:314`);
- a command that ends in an escaped operator (`grep foo\|`) is refused as cut off,
  and one that ends in `|&` is not;
- a continued line is joined with a blank, where a shell joins it with nothing and
  `cmdlint.go:422-423` speaks of the one line the shell sees: `&\` before `&` is let
  through where the shell sees `&&` and waits, a `#` that the join makes part of a
  word begins a comment, and a comment goes on in the line below it;
- a constraint that keeps out a platform (`!windows`) counts as a mark
  (`testreach.go:148`), and `needsreal && linux` is skipped by `testreach` and not
  required to call `Start` by `invariants`;
- `testreach` sees direct calls and literals joined from the left only, and a
  directory `test` below another one counts as the marked one;
- a key written twice in a record of `invariants` keeps its last value silently,
  and a known key the shape does not use is accepted (`invariants.go:118-131`);
  the command, other than the test, is green when it read nothing;
- `sourcecheck` counts the list of a `nolint` that stands apart from its colon, and
  the words behind a `//`, as a reason; it takes `a, _ = f(), b` for a discarded
  error and does not read `var _ = f()`;
- a link to the root of the tree is refused by `doclint`, and a step up cancels a
  directory that is not there;
- in a list of commits, a root commit without a subject is taken for an empty line
  by `prhygiene`;
- a case that is skipped prints the first refusal its suite keeps and not its own
  (`harness.go:112`, `138-141`), where `harness.go:99` speaks of why this one did
  not run.

Runs that do not check deadlock are those of finite work: every call has
returned, every holder is full, or the process has ended, and nobody owes
another.

### Fairness

`FakeRuntime!FairSpec`: a goroutine that can run is run (weak fairness of a
call's steps, and of an observer's while it holds the mutex), the sink answers,
and a mutex starves nobody (strong fairness of `Lock`; `sync.Mutex` hands over to
a waiter after a millisecond). Nobody has to call, to cancel or to ask.

`Kanzlei!FairSpec`: `run`, the serving goroutine, the relay of a signal, the
reader of standard input and the clock proceed. An accept that the closed
listener makes fail returns. `GraceExpires` is strongly fair because the poll
loop leaves and re-enters the `select` it is taken in; an expired context stays
expired. No client answers, reads or leaves of its own accord, and no request
ends.

`Harness!FairSpec`: a selected case proceeds and its body ends (weak fairness of
its steps), a mutex starves nobody (strong fairness of taking it), `m.Run` returns
and the report goes on. Nobody has to select a case, no requirement has to come
up, and the binary may die at any time.

## What is proved

For every value of the constants that satisfies the named assumptions.

`AuthProofs`, the loops. `PassesAreTyped`; `PassesProgress`, where `Progress` with `TypeOK` is
inductive: without `ReadSoFar` nothing relates `resolved` to the set, and without
`NoDenyAtAll` the allow pass forgets what the deny pass found.
`PassesComputeEvaluate` keeps the closed form alongside: a return in the first
pass is at the first unreadable entry (`FirstUnreadableIs`), one in the later
passes happens with everything read. `PermitsWhatIsPromised` follows from it and
`EvaluateIsPromised`. Sets of any length, any principals.

`AuthProofs`, the sessions. Five theorems over `Typed` and `Apart`: no two holders have one array.
`GroupsAreNeverShared` needs no more than that and that a holder whose sign-on is
not through holds nothing. `SessionsAreAlwaysWhole`, `IdentitiesAreAlwaysAccounted`
and `AccessIsAlwaysAccounted` rest on `Inv`, which says of each holder, sign-ons
under way included, what its lineage must be: `WholeSession` (what the request or
the provider gave is what is kept), `Accounted` (a line of the operator's or the
last word of the source), `Named` and `Grouped` (what a principal handed to `authz`
carries). The access theorem joins them with `EvaluateIsPromised` of the closed
form. `FreshGroupsAreAlwaysRecent` is about time and needs three more parts:
`Known`, that `lastIn` is up to date for whoever is a member now, `AllAnswered`,
that what a provider listed was so no earlier than the time it is stamped with (the
stamp is taken before the question), and `AllRecent`, that a copy keeps the stamp.

`RuntimeProofs`, the fake. `TypeCorrect`, from one lemma per kind of step.
`CountIsGuarded`, `CountNeverLoses` and `CountIsVisible` rest on one invariant:
the mutex has the holder the program counters say, a value loaded is still the
count when it is stored, and the count is the number of generations whose
increment was stored. Steps that do not touch the count are shown to keep it in
one lemma, `QuietKeepsCount`; lock, store, unlock and the observer's steps each
have their own. `MisbehaviourAlwaysShows` and `FakeKeepsContract` rest on
`CallsInv`, what a call at each point has done and can still do: `Past` that it
stands behind the checks in front of it, `HandsOver` that what the sink took is the
loop's index and below every bound, `Shows` what its return says. The
second is the refinement: every step of the fake is, under the mapping of
`Contract`, one of the contract's or a stutter, for any number of calls at once.
Any finite set of calls and any set of observers.

`RuntimeProofs`, the suite. `EveryCaseIsAccounted` and `LeaksAreAlwaysToldApart`, for
any subjects and any number of goroutines, from `Inv`: `Measured` relates each
reading to the goroutines there at the time, those left and those gone since, `Met` says which cases
were met with, `Reasoned` why the others were not run.

`KanzleiProofs`. `TypeCorrect`, in the three parts of the type invariant;
`CleanExitCutsNothing`, `NeverStopsUnasked` and `DrainOnlyShrinks` from an
invariant on the order of a stop (once polling, the serving goroutine is gone and
its listener closed; what was served as nil was asked for) and on the
connections that can still be there. `OnlyAReasonSpoils` adds `Verdicts`, what an
error that is carried stands for, and `Times`: since the grace outlasts a header
timeout and the poll that notices it, a connection that says nothing is gone
before the grace is. `WhatIsAnnouncedIsReachable` adds `Reachable`, that nobody
closes the listener before a stop. Any set of connections, any grace and header
timeout.

`LinkCheckProofs`. `NothingIsAskedInVain`, `RedIsOnlyOnItsWord` and
`LinksAreAlwaysAccounted` from `Inv`: `Placed` (where the loop is), `Asked` (what was
heard of an address is what is judged of it, and no more than was needed) and
`Counted` (the counts and findings are those of the links behind). Trees of any
size. `LeastNat`, a set of numbers has a least one, stands for induction in
`FlattenSeqType` and in the lemmas on sorted findings.

`ReadersProofs`. `ReadersAgreeHolds` and `OneBoundaryHolds`, for documents of any
length, from `Aligned` and `Boundary`: as long as no tilde fence was refused, the
readers that toggle are inside a fence exactly when `mdlint` is, and `cmdlint`
remembers the marker `mdlint` does. Neither is inductive alone: `Behind` places
every line a reader has taken behind the current one, so that a line taken now is
new to the others. `EveryBlockLineIsAccounted` and `CutOffIsAlwaysRefused` are about
what `cmdlint` makes of the lines inside, and rest on `Counted`, which holds as long
as the fences are backticks: `InStep` (its fence is the last one in the document,
without which a line's block could not be told from the one before), `TakenOnce`,
`OfOneBlock` (what is open is the run of lines just behind, all of this block) and
`NoneLost` (whoever continued is followed or was refused).

`HarnessProofs`. `TypeCorrect`; `RosterSaysWhatHappenedHolds`,
`RefusalsAreRealHolds`, `CleanRunIsCompleteHolds` and `NothingIsTakenBackHolds`,
from `HInv`. `Standing` says what a case at each point knows, `MutexHolds` that the
holder of a suite's mutex is the case between its lock and its unlock, `Kept` that
the stored outcome and words are those of a case that recorded, and at least those
of every case that finished recording; `Reported` and `OnTop` carry it over to the
lines read, once no case runs any more. Without the holder, two cases that compare
at once could lower an outcome. Any cases, suites and requirements,
any programs in which a case turns to its harness once.

`GatesProofs`. `ChainsAreAlwaysShortest`, for any module, any tree and any
declaration. The search is a function of the number of visits; `Iterated` shows
that there is one, from the least number for which there would be none
(`FromZero`), and `AfterUnfolds` and `ReachedUnfolds` step it. `Searched` is what
every visit keeps: `Swept` (what was followed has been followed all the way, one
package a visit), `InOrderOfChains` (the queue is in the order of distance and
covers one step of it) and `Shortest` (each chain is one, and no package is nearer
than its chain says). `Shortest` is not kept alone: that the head is nearer than
whatever was not seen (`Unseen`) needs the order of the queue. A package is
followed once, so the queue is empty after as many visits as there are packages
(`SearchEnds`).

`SilenceIsAlwaysAgreement`, whatever a run is given. `Heard` carries through the steps
that what a gate has read was accepted and that what it found is what its function
makes of it; what is left is a lemma on each function, without time. The import rules
and the register are set algebra. `ReasonsAreCounted` splits a comment at the slashes
it may have. `ReferenceIsAnIssue` needs `DigitsEnd`, where a run of digits stops.
A path is cleaned and followed by a recursive function each; `Stepped` shows that
there is what comes of a number of steps, and only one, so both can be taken a segment at
a time: `Same` relates what is cleaned to where it leads, through every step up, also
out of the tree (`SameStep`). The declaration of the invariants is read by a recursive
function too: `Recorded` is kept by every line, that each invariant line behind has its
record, closed or open, and that the record says what was said last (`SaidTo`).

`MarksAreAlwaysHonoured`: a file that builds on a platform alone, and that no platform
keeps out, builds on all of them without the mark (`BuiltOnAll`, adding a platform at a
time) and so is not marked; what `testreach` then finds nothing in stays inside, call by call
(`CallsStayInside`) and text by text (`TextsStayInside`). The text of a chain of
joined literals is a fold; `JoinedHoldsEach` finds every operand in it again.

`FloorsAreAlwaysCleared`: the code adds and rounds, the property multiplies. `Summed`
adds a set of blocks by taking one out, whichever it is, so that the total does not
depend on the order; `StatementsAddUp` uses it for the blocks of a profile,
`CountSaysIfEntered` for the lines of a block, which is entered when any of them was,
and `ClearsAsPrinted` is the rounding to tenths, ties either way. `Gauged` carries
what was found to the exit. A floor or a severity that is `NaN` is an exception the
property names.

`FormattingAlwaysSettles`: a transformation is a concatenation of pieces, one for each
byte or line, which may be empty. `From` says which piece each byte of the result came
from, in order, and `JoinedFrom` that there is always such an account. With it each
transformation has a lemma on what it leaves (`EndingsSettle`, `TrimSettles`,
`IndentSettles`, `EndSettles`), and `FormatAgain` puts them together: what one has
left, the later ones do not undo. `Rewritten` is the invariant on the disk: files behind
are formatted, files ahead are as they were.

`CommandProofs`. `CommandsAlwaysClose`, for commands of any number of lines, any
length and any nesting.
`Stands` is the relation between the walk and the shell: one quote and one depth stand
for a stack of substitutions alone, with a quote on top of them, or with a double quote
and one substitution more on top of that (`Outside`, `OnTop`, `Below`). `AlikeStep`
shows that an ordinary character keeps it, `JoinAlike` that a join does, a blank to one
and nothing to the other, and `TogetherAlways` that it holds after every character,
also behind a comment, where both stop. `WordsAlike` says that a word begins for both
at once, `KeptStep` that the operators the shell has standing last are those at the
end of the text the code kept, blanks aside (`Kept`, `TrimmedThere`). `EndRunTold` then
tells an operator the command ends in, which the code reads from that text and the
shell from its state.

Assumptions are on constants only, and each is checked by the runs: the values a
principal, an entry, a request, a configuration, a behaviour and a document may
have; that what a provider lists is finite; that there are arrays enough for the
holders; that the goroutines are distinct and finitely many; that a case calls
`Start` once; that a declaration is one `Capabilities.Validate` accepts; that a
package has one name; that the grace is longer than a header timeout by more than
one unit; that a run is given what its readers hand it (`RunsAssumption`: a declaration of
packages of the module, words and bytes that are strings, constraints over the tags,
numbers or what a floor has in their place, a comment with one second beginning at
most, paths without a segment named `outside`, documents of distinct names); that the
tags are finitely many; that a package has a path; that a word
and the name that carries it are a pair.

### Only model-checked

Liveness (`ContextEndsCalls`, `StopEnds`, `RunEnds`), which the prover cannot do
under fairness, and that nothing gets stuck, in the runs that check deadlock. Every
other property of a passing run is a theorem. The violated one,
`SignalsGiveTheGrace`, has its counterexample.

## Not modelled

`Decision.Detail`, messages of errors, `Sources` (a sorted list of what
`IdentityIn` answers), display names and addresses, which nothing maps from. The
digest and the vectors of the fake: only how many there are is kept.
`Capabilities.Refuse`, which nothing calls yet. The text of a liveness answer.
`build`, `scanfixture`, workflows and the retrieval that is decided and not
built. `audit`, a predicate over a record that nothing calls: there is no state,
no order and no caller to hold it against. How a line of prose is cut into
targets, spans and words, and how a declaration or a profile is cut into fields.
The syntax trees from which `testreach`, `invariants`, `sourcecheck` and the
register of adapters read calls and bindings, and most of the functions `testreach`
lists: one family of each kind is kept. The driver of `mdlint`, which is
`cmdlint`'s. An edit of a file between the moment `treefmt -write` read it and the
moment it writes it, which the command loses.

## Plan

Done, in this order: `Authz` and `AuthzPasses`, `FakeRuntime` with
`RuntimeContract`, `Kanzlei`, `Auth`, because they carry what the program promises
its users; then `LinkCheck`, `Readers`, `ContractSuite`, and `Gates` with the
operators it uses; then `Harness` with its proofs, and in `Gates` the marks, the
commands, the paths, the reasons and the request.

Next, in this order:

1. The cut of a link's target out of its line, which `linkcheck` and `doclint` do
   each in its own way: a target one of them reads is one the other reads.
2. `Capabilities.Refuse` against a `Requirement`, and `audit` with the reasons of
   `authz`, once something calls them.

Proofs: what the steps above will need. Of what there is, the refinement of `Evaluate`
by its passes and of the contract by the fake are done, and every invariant and action
property that a run checks is proved.
