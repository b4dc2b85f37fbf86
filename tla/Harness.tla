------------------------------- MODULE Harness ------------------------------
(***************************************************************************)
(* test/needs-real-hardware-or-services: one run of the marked test binary. *)
(* Its cases may run beside each other; each turns to the harness of its    *)
(* suite, which lets it run or refuses it and keeps what happened behind a  *)
(* mutex; after the cases the binary prints the roster and exits.           *)
(*                                                                         *)
(* A case is the sequence of what it does: "register" its suite, "start",   *)
(* the call of Start, and "body", the rest of it.  A requirement is met or   *)
(* not at each moment, as the environment has it, and what it says when it   *)
(* is not met is the requirement itself; NoWords is the empty refusal.       *)
(***************************************************************************)
EXTENDS Naturals, Sequences, FiniteSets

CONSTANTS
    Suites, Cases, Requirements,
    SuiteOf,      \* the suite a case belongs to
    Needs,        \* a suite's requirements, in the order they are asked
    Early,        \* the suites registered before the first case, in an init
    Programs,     \* what the cases may be
    NoWords, Nobody

Doings == {"register", "start", "body"}

ASSUME SuitesAssumption ==
    /\ SuiteOf \in [Cases -> Suites] /\ Early \subseteq Suites
    /\ Needs \in [Suites -> Seq(Requirements)]
ASSUME ProgramsAssumption == Programs \subseteq [Cases -> Seq(Doings)]
ASSUME OneStartAssumption ==      \* a case turns to its harness once
    \A program \in Programs, c \in Cases : \A i, j \in DOMAIN program[c] :
        program[c][i] = "start" /\ program[c][j] = "start" => i = j
ASSUME WordsAssumption == NoWords \notin Requirements /\ Nobody \notin Cases

\* Outcome, in its order.
NotAsked == 0
Refused  == 1
Ran      == 2
Outcomes == {NotAsked, Refused, Ran}

VARIABLES
    program, pc, at,             \* what each case is, and where it is
    need,                        \* the requirement its Start is at
    verdict, words, told,        \* what its Start found, and what it was refused with
    outcome, refusal, mu,        \* of each suite: kept, and who holds the mutex
    present,                     \* the requirements that are met
    roster,                      \* the suites registered
    main, toRead, lines, printed, code    \* TestMain and its report

caseVars == <<program, pc, at, need, verdict, words, told>>
suiteVars == <<outcome, refusal, mu>>
mainVars == <<main, toRead, lines, printed, code>>
vars == <<caseVars, suiteVars, present, roster, mainVars>>

Line == [outcome : Outcomes, refusal : Requirements \cup {NoWords}]
Fresh == [outcome |-> NotAsked, refusal |-> NoWords]

Init ==
    /\ program \in Programs
    /\ pc = [c \in Cases |-> "unselected"] /\ at = [c \in Cases |-> 1]
    /\ need = [c \in Cases |-> 1]
    /\ verdict = [c \in Cases |-> NotAsked]
    /\ words = [c \in Cases |-> NoWords] /\ told = [c \in Cases |-> NoWords]
    /\ outcome = [s \in Suites |-> NotAsked]
    /\ refusal = [s \in Suites |-> NoWords] /\ mu = [s \in Suites |-> Nobody]
    /\ present \in SUBSET Requirements
    /\ roster = Early
    /\ main = "cases" /\ toRead = {} /\ lines = [s \in Suites |-> Fresh]
    /\ printed = FALSE /\ code = 0

Goto(c, label) == pc' = [pc EXCEPT ![c] = label]

-----------------------------------------------------------------------------
(* The machine: a service comes up or goes away. *)

Change(r) ==
    /\ present' = IF r \in present THEN present \ {r} ELSE present \cup {r}
    /\ UNCHANGED <<caseVars, suiteVars, roster, mainVars>>

-----------------------------------------------------------------------------
(* A case *)

Does(c, doing) ==
    pc[c] = "running" /\ at[c] <= Len(program[c]) /\ program[c][at[c]] = doing

\* The run selects the case.
Select(c) ==
    /\ main = "cases" /\ pc[c] = "unselected"
    /\ Goto(c, "running")
    /\ UNCHANGED <<program, at, need, verdict, words, told, suiteVars, present, roster, mainVars>>

\* Register, of a suite that does not do it in an init.  The code appends to a
\* list; its order, and a line said twice, are left out.
Register(c) ==
    /\ Does(c, "register")
    /\ roster' = roster \cup {SuiteOf[c]}
    /\ at' = [at EXCEPT ![c] = @ + 1]
    /\ UNCHANGED <<program, pc, need, verdict, words, told, suiteVars, present, mainVars>>

Body(c) ==
    /\ Does(c, "body")
    /\ \/ at' = [at EXCEPT ![c] = @ + 1] /\ UNCHANGED pc
       \/ Goto(c, "failed") /\ UNCHANGED at
    /\ UNCHANGED <<program, need, verdict, words, told, suiteVars, present, roster, mainVars>>

Pass(c) ==
    /\ pc[c] = "running" /\ at[c] > Len(program[c])
    /\ Goto(c, "passed")
    /\ UNCHANGED <<program, at, need, verdict, words, told, suiteVars, present, roster, mainVars>>

Start(c) ==
    /\ Does(c, "start")
    /\ Goto(c, "checking")
    /\ UNCHANGED <<program, at, need, verdict, words, told, suiteVars, present, roster, mainVars>>

\* Missing, one requirement at a time and without the mutex.
Wanted(c) == Needs[SuiteOf[c]][need[c]]

Met(c) ==
    /\ pc[c] = "checking" /\ need[c] <= Len(Needs[SuiteOf[c]])
    /\ Wanted(c) \in present
    /\ need' = [need EXCEPT ![c] = @ + 1]
    /\ UNCHANGED <<program, pc, at, verdict, words, told, suiteVars, present, roster, mainVars>>

FindMissing(c) ==
    /\ pc[c] = "checking" /\ need[c] <= Len(Needs[SuiteOf[c]])
    /\ Wanted(c) \notin present
    /\ verdict' = [verdict EXCEPT ![c] = Refused]
    /\ words' = [words EXCEPT ![c] = Wanted(c)]
    /\ Goto(c, "lock")
    /\ UNCHANGED <<program, at, need, told, suiteVars, present, roster, mainVars>>

FindNothingMissing(c) ==
    /\ pc[c] = "checking" /\ need[c] > Len(Needs[SuiteOf[c]])
    /\ verdict' = [verdict EXCEPT ![c] = Ran]
    /\ Goto(c, "lock")
    /\ UNCHANGED <<program, at, need, words, told, suiteVars, present, roster, mainVars>>

\* record, under the mutex of the suite.
Free(s) == mu[s] = Nobody

\* Plausible slip: the mutex is not taken.
LockNothing(c) ==
    /\ pc[c] = "lock"
    /\ mu' = [mu EXCEPT ![SuiteOf[c]] = c]
    /\ Goto(c, "compare")
    /\ UNCHANGED <<program, at, need, verdict, words, told, outcome, refusal, present, roster, mainVars>>

Lock(c) ==
    /\ pc[c] = "lock" /\ Free(SuiteOf[c])
    /\ mu' = [mu EXCEPT ![SuiteOf[c]] = c]
    /\ Goto(c, "compare")
    /\ UNCHANGED <<program, at, need, verdict, words, told, outcome, refusal, present, roster, mainVars>>

\* Plausible slip: a refusal beside an outcome that stays is dropped.
CompareFirst(c) ==
    /\ pc[c] = "compare"
    /\ Goto(c, IF verdict[c] > outcome[SuiteOf[c]] THEN "raise" ELSE "unlock")
    /\ UNCHANGED <<program, at, need, verdict, words, told, suiteVars, present, roster, mainVars>>

Compare(c) ==
    /\ pc[c] = "compare"
    /\ Goto(c, IF verdict[c] > outcome[SuiteOf[c]] THEN "raise" ELSE "word")
    /\ UNCHANGED <<program, at, need, verdict, words, told, suiteVars, present, roster, mainVars>>

Raise(c) ==
    /\ pc[c] = "raise"
    /\ outcome' = [outcome EXCEPT ![SuiteOf[c]] = verdict[c]]
    /\ Goto(c, "word")
    /\ UNCHANGED <<program, at, need, verdict, words, told, refusal, mu, present, roster, mainVars>>

\* The first refusal of a suite is the one that is kept.
KeepWords(c) ==
    /\ pc[c] = "word"
    /\ refusal' = IF refusal[SuiteOf[c]] = NoWords
                  THEN [refusal EXCEPT ![SuiteOf[c]] = words[c]] ELSE refusal
    /\ Goto(c, "unlock")
    /\ UNCHANGED <<program, at, need, verdict, words, told, outcome, mu, present, roster, mainVars>>

\* Plausible slip: record returns without the mutex given back.
UnlockNothing(c) ==
    /\ pc[c] = "unlock"
    /\ Goto(c, IF verdict[c] = Refused THEN "skip" ELSE "running")
    /\ at' = IF verdict[c] = Refused THEN at ELSE [at EXCEPT ![c] = @ + 1]
    /\ UNCHANGED <<program, need, verdict, words, told, suiteVars, present, roster, mainVars>>

Unlock(c) ==
    /\ pc[c] = "unlock"
    /\ mu' = [mu EXCEPT ![SuiteOf[c]] = Nobody]
    /\ Goto(c, IF verdict[c] = Refused THEN "skip" ELSE "running")
    /\ at' = IF verdict[c] = Refused THEN at ELSE [at EXCEPT ![c] = @ + 1]
    /\ UNCHANGED <<program, need, verdict, words, told, outcome, refusal, present, roster, mainVars>>

\* The case is skipped with the refusal the suite keeps.
Skip(c) ==
    /\ pc[c] = "skip" /\ Free(SuiteOf[c])
    /\ told' = [told EXCEPT ![c] = refusal[SuiteOf[c]]]
    /\ Goto(c, "skipped")
    /\ UNCHANGED <<program, at, need, verdict, words, suiteVars, present, roster, mainVars>>

Step(c) ==
    /\ main = "cases"
    /\ \/ Register(c) \/ Body(c) \/ Pass(c) \/ Start(c)
       \/ Met(c) \/ FindMissing(c) \/ FindNothingMissing(c)
       \/ Compare(c) \/ Raise(c) \/ KeepWords(c) \/ Unlock(c)

Wait(c) == main = "cases" /\ (Lock(c) \/ Skip(c))

-----------------------------------------------------------------------------
(* TestMain *)

Over == {"passed", "failed", "skipped"}
Idle == Over \cup {"unselected"}

\* m.Run comes back: the cases it selected are over.
CasesEnd ==
    /\ main = "cases" /\ \A c \in Cases : pc[c] \in Idle
    /\ main' = "reporting" /\ toRead' = roster
    /\ code' = IF \E c \in Cases : pc[c] = "failed" THEN 1 ELSE 0
    /\ UNCHANGED <<caseVars, suiteVars, present, roster, lines, printed>>

\* A case panics, exits or outlasts the deadline of the run, and takes the
\* binary with it.
Die ==
    /\ main = "cases" /\ \E c \in Cases : pc[c] \notin Idle
    /\ main' = "ended" /\ code' = 2
    /\ UNCHANGED <<caseVars, suiteVars, present, roster, toRead, lines, printed>>

\* Report

\* Plausible slip: words are printed below "refused" only.
ReadOutcomeOnly(s) ==
    /\ main = "reporting" /\ s \in toRead /\ Free(s)
    /\ lines' = [lines EXCEPT ![s] =
           [outcome |-> outcome[s], refusal |-> IF outcome[s] = Refused THEN refusal[s] ELSE NoWords]]
    /\ toRead' = toRead \ {s}
    /\ UNCHANGED <<caseVars, suiteVars, present, roster, main, printed, code>>

ReadOutcome(s) ==
    /\ main = "reporting" /\ s \in toRead /\ Free(s)
    /\ lines' = [lines EXCEPT ![s] = [outcome |-> outcome[s], refusal |-> refusal[s]]]
    /\ toRead' = toRead \ {s}
    /\ UNCHANGED <<caseVars, suiteVars, present, roster, main, printed, code>>

Write ==
    /\ main = "reporting" /\ toRead = {}
    /\ main' = "ended" /\ printed' = TRUE
    /\ UNCHANGED <<caseVars, suiteVars, present, roster, toRead, lines, code>>

\* Plausible slip: only the cases decide about the exit.
WriteFailsQuietly ==
    /\ main = "reporting" /\ toRead = {}
    /\ main' = "ended"
    /\ UNCHANGED <<caseVars, suiteVars, present, roster, toRead, lines, printed, code>>

WriteFails ==
    /\ main = "reporting" /\ toRead = {}
    /\ main' = "ended"
    /\ code' = IF code = 0 THEN 1 ELSE code
    /\ UNCHANGED <<caseVars, suiteVars, present, roster, toRead, lines, printed>>

Report == (\E s \in Suites : ReadOutcome(s)) \/ Write \/ WriteFails

-----------------------------------------------------------------------------
Next ==
    \/ \E r \in Requirements : Change(r)
    \/ \E c \in Cases : Select(c) \/ Step(c) \/ Wait(c)
    \/ CasesEnd \/ Die \/ Report

Spec == Init /\ [][Next]_vars

\* A selected case proceeds, its body ends, and a mutex starves nobody.
Fairness ==
    /\ \A c \in Cases : WF_vars(Step(c)) /\ SF_vars(Wait(c))
    /\ WF_vars(CasesEnd) /\ WF_vars(Report)

FairSpec == Spec /\ Fairness

-----------------------------------------------------------------------------
(* Properties *)

Labels == {"unselected", "running", "checking", "lock", "compare", "raise", "word", "unlock", "skip"}
          \cup Over

\* Every variable keeps to its kind, and words are found with a refusal only.
TypeOK ==
    /\ program \in Programs /\ pc \in [Cases -> Labels]
    /\ at \in [Cases -> Nat \ {0}] /\ need \in [Cases -> Nat \ {0}]
    /\ verdict \in [Cases -> Outcomes]
    /\ words \in [Cases -> Requirements \cup {NoWords}]
    /\ told \in [Cases -> Requirements \cup {NoWords}]
    /\ \A c \in Cases : words[c] # NoWords <=> verdict[c] = Refused
    /\ outcome \in [Suites -> Outcomes] /\ refusal \in [Suites -> Requirements \cup {NoWords}]
    /\ mu \in [Suites -> Cases \cup {Nobody}]
    /\ present \subseteq Requirements /\ roster \subseteq Suites
    /\ main \in {"cases", "reporting", "ended"} /\ toRead \subseteq roster
    /\ lines \in [Suites -> Line] /\ printed \in BOOLEAN /\ code \in 0..2

Of(s) == {c \in Cases : SuiteOf[c] = s}

\* Nothing is taken back: however the cases of a suite come, and whatever comes
\* up or goes away between them, a suite never has a lesser outcome than it had,
\* and keeps the words it was first refused with (harness.go:118-129).
NothingIsTakenBack ==
    [][\A s \in Suites :
          /\ outcome'[s] >= outcome[s]
          /\ refusal[s] # NoWords => refusal'[s] = refusal[s]]_vars

\* A line of the roster says what the cases of the suite met with: "ran" if one
\* of them had everything it needs, "refused" if they were all turned away, "not
\* asked for" if none came, and beside either the words of one of them if any was
\* refused (harness.go:42-53, 168-185).
Says(line, cases) ==
    /\ \A c \in cases : verdict[c] <= line.outcome
    /\ line.outcome # NotAsked => \E c \in cases : verdict[c] = line.outcome
    /\ line.refusal = NoWords => \A c \in cases : verdict[c] # Refused
    /\ line.refusal # NoWords => \E c \in cases : words[c] = line.refusal

RosterSaysWhatHappened == printed => \A s \in roster : Says(lines[s], Of(s))

\* A case that was turned away prints what it missed or, once others of its
\* suite were turned away before it, what one of those had missed; so does the
\* roster, and in the same words (harness.go:99-116, 138-141).
RefusalsAreReal ==
    /\ \A c \in Cases : pc[c] = "skipped" =>
          /\ told[c] = refusal[SuiteOf[c]]
          /\ \E d \in Of(SuiteOf[c]) : verdict[d] = Refused /\ words[d] = told[c]
    /\ printed => \A c \in Cases : pc[c] = "skipped" /\ SuiteOf[c] \in roster =>
          lines[SuiteOf[c]].refusal = told[c]

\* An exit of zero comes with a roster that has every suite registered in an
\* init.  If the cases of such a suite call Start first, as they are told to, it
\* is not asked for only where none of its cases was selected
\* (harness.go:194-206, README.md:53-59).
StartsFirst(c) == program[c] # <<>> /\ program[c][1] = "start"

CleanRunIsComplete ==
    main = "ended" /\ code = 0 =>
        /\ printed /\ Early \subseteq roster
        /\ \A s \in Early : (\A c \in Of(s) : StartsFirst(c)) =>
              (lines[s].outcome = NotAsked <=> \A c \in Of(s) : pc[c] = "unselected")

\* The run ends: no case waits forever for the mutex of its suite.
RunEnds == <>(main = "ended")

=============================================================================
