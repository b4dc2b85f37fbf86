--------------------------- MODULE ContractSuite ----------------------------
(***************************************************************************)
(* The suite every adapter is handed to: which of its cases run against a  *)
(* subject, what each one refuses, and what the run reports.               *)
(*                                                                         *)
(* An adapter is the set of what is wrong with it, one flaw for each thing *)
(* a case looks at, and the goroutines it leaves behind when a generation  *)
(* is cancelled.  The case of the cancellation reads the goroutine count   *)
(* of the whole test binary, which other goroutines leave while it looks;  *)
(* that case is modelled reading by reading.                               *)
(***************************************************************************)
EXTENDS Integers, Sequences, FiniteSets

CONSTANTS
    Subjects,        \* what may be handed to Run
    MaxUnwinding,    \* goroutines of earlier cases that have yet to end
    MaxWorkers,      \* goroutines a cancelled generation may leave
    SettleWithin     \* settleWithin, in readings of the count

ASSUME BoundsAssumption ==
    MaxUnwinding \in Nat /\ MaxWorkers \in Nat /\ SettleWithin \in Nat \ {0}

VARIABLES
    subject, flaws,
    phase, turn,
    ran, declined, unreached,    \* the cases of each kind
    failed,                      \* the cases that reported a failure
    unwinding, workers, slow,    \* goroutines: others', the adapter's, and those that will end
    last, baseline, after,       \* the readings of the count
    waited,                      \* how many there were
    gone,                        \* how many of the others ended since the one that is kept
    there                        \* the goroutines of the adapter at the reading after

suiteVars == <<subject, flaws>>
countVars == <<ran, declined, unreached>>
goVars == <<unwinding, workers, slow>>
readVars == <<last, baseline, after, waited, gone, there>>
runVars == <<suiteVars, phase, turn, countVars, failed, goVars, readVars>>

-----------------------------------------------------------------------------
(* The suite *)

Conditions == {"healthy", "unreachable", "refusing", "malformed"}

Case(condition, needs, looksAt) ==
    [condition |-> condition, embeddings |-> needs, looksAt |-> looksAt]

\* In the order of the list, with what each case can find wrong.
Cases == <<
    Case("healthy", FALSE, {"no-capabilities", "invalid-declaration", "another-model"}),
    Case("healthy", FALSE, {"fails", "produces-nothing", "wrong-finish", "unattributed", "no-cost"}),
    Case("healthy", FALSE, {"loses-sink-error", "buffers-first"}),
    Case("healthy", FALSE, {"produces-nothing", "ignores-cancel", "cancel-unsaid"}),
    Case("healthy", FALSE, {"answers-too-long", "misnames"}),
    Case("healthy", FALSE, {"fails", "hides-bound"}),
    Case("healthy", TRUE, {"no-embedding", "wrong-batch", "wrong-dimension", "vectors-unattributed"}),
    Case("unreachable", FALSE, {"misnames", "unreachable-misreported"}),
    Case("refusing", FALSE, {"misnames", "refusal-misreported"}),
    Case("malformed", FALSE, {"misnames", "malformed-misreported"})>>

Cancellation == 4
Flaws == UNION {Cases[k].looksAt : k \in DOMAIN Cases}

\* cannot maps a condition to the number of words of its reason; fewer than two
\* is no reason.
Validate(s) ==
    /\ s.named /\ s.supplies /\ s.declares
    /\ \A c \in DOMAIN s.cannot : c # "healthy" /\ c \in Conditions /\ s.cannot[c] >= 2

SuiteInit ==
    /\ subject \in Subjects
    /\ \E f \in {{}} \cup {{g} : g \in Flaws} \cup {{"fails", "misnames", "wrong-batch"}} : flaws = f
    /\ phase = "start" /\ turn = 1
    /\ ran = {} /\ declined = {} /\ unreached = {} /\ failed = {}
    /\ unwinding \in 0..MaxUnwinding /\ workers = 0 /\ slow = 0
    /\ last = 0 /\ baseline = 0 /\ after = 0 /\ waited = 0 /\ gone = 0 /\ there = 0

Refuse ==
    /\ phase = "start" /\ ~Validate(subject)
    /\ phase' = "refused"
    /\ UNCHANGED <<suiteVars, turn, countVars, failed, goVars, readVars>>

Begin ==
    /\ phase = "start" /\ Validate(subject)
    /\ phase' = "pick"
    /\ UNCHANGED <<suiteVars, turn, countVars, failed, goVars, readVars>>

case == Cases[turn]
Declined == case.condition \in DOMAIN subject.cannot
Unreached == ~Declined /\ case.embeddings /\ ~subject.embeddings

Decline ==
    /\ phase = "pick" /\ turn <= Len(Cases) /\ Declined
    /\ declined' = declined \cup {turn}
    /\ turn' = turn + 1
    /\ UNCHANGED <<suiteVars, phase, ran, unreached, failed, goVars, readVars>>

PassOver ==
    /\ phase = "pick" /\ turn <= Len(Cases) /\ Unreached
    /\ unreached' = unreached \cup {turn}
    /\ turn' = turn + 1
    /\ UNCHANGED <<suiteVars, phase, ran, declined, failed, goVars, readVars>>

Verdict(refused) ==
    /\ failed' = failed \cup {k \in {turn} : refused}
    /\ turn' = turn + 1
    /\ phase' = "pick"

\* Plausible slip: a case that refused its adapter ends the run.
RunCaseStopping ==
    /\ phase = "pick" /\ turn <= Len(Cases) /\ ~Declined /\ ~Unreached
    /\ turn # Cancellation \/ ~subject.arranged
    /\ ran' = ran \cup {turn}
    /\ failed' = failed \cup {k \in {turn} : case.looksAt \cap flaws # {} \/ ~subject.arranged}
    /\ turn' = turn + 1
    /\ phase' = IF failed' # {} THEN "done" ELSE "pick"
    /\ UNCHANGED <<suiteVars, declined, unreached, goVars, readVars>>

\* A fresh adapter in the condition of the case; a subject may come back with
\* none, which fails the case.  A failure ends the case and never the run.
RunCase ==
    /\ phase = "pick" /\ turn <= Len(Cases) /\ ~Declined /\ ~Unreached
    /\ turn # Cancellation \/ ~subject.arranged
    /\ ran' = ran \cup {turn}
    /\ Verdict(case.looksAt \cap flaws # {} \/ ~subject.arranged)
    /\ UNCHANGED <<suiteVars, declined, unreached, goVars, readVars>>

FinishSuite ==
    /\ phase = "pick" /\ turn > Len(Cases)
    /\ phase' = "done"
    /\ UNCHANGED <<suiteVars, turn, countVars, failed, goVars, readVars>>

-----------------------------------------------------------------------------
(* The case of the cancellation *)

Count == unwinding + workers

\* quiesce begins with one reading.
TakeBaseline ==
    /\ phase = "pick" /\ turn = Cancellation /\ ~Declined /\ subject.arranged
    /\ ran' = ran \cup {turn}
    /\ last' = Count /\ waited' = 0 /\ gone' = 0
    /\ phase' = "quiesce"
    /\ UNCHANGED <<suiteVars, turn, declined, unreached, failed, goVars, baseline, after, there>>

\* Two readings that agree, or the last one when the time is up.
Quiesce ==
    /\ phase = "quiesce"
    /\ \/ waited < SettleWithin /\ Count # last
          /\ last' = Count /\ waited' = waited + 1 /\ gone' = 0 /\ UNCHANGED <<phase, baseline>>
       \/ waited < SettleWithin /\ Count = last
          /\ baseline' = Count /\ phase' = "generate" /\ gone' = 0 /\ UNCHANGED <<last, waited>>
       \/ waited >= SettleWithin
          /\ baseline' = last /\ phase' = "generate" /\ UNCHANGED <<last, waited, gone>>
    /\ UNCHANGED <<suiteVars, turn, countVars, failed, goVars, after, there>>

\* The generation is cancelled from its sink.  The goroutines it leaves are the
\* ones that end by themselves and the ones that do not.
Generate ==
    /\ phase = "generate"
    /\ IF case.looksAt \cap flaws # {}
       THEN Verdict(TRUE) /\ UNCHANGED <<goVars, waited>>
       ELSE /\ \E w \in 0..MaxWorkers : workers' = w /\ slow' \in 0..w
            /\ waited' = 0 /\ phase' = "settle"
            /\ UNCHANGED <<turn, failed, unwinding>>
    /\ UNCHANGED <<suiteVars, countVars, last, baseline, after, gone, there>>

\* The count is read again; it may be another by the time it is judged.
ReadCount ==
    /\ phase = "settle"
    /\ after' = Count /\ there' = workers
    /\ phase' = "judge"
    /\ UNCHANGED <<suiteVars, turn, countVars, failed, goVars, last, baseline, waited, gone>>

\* Plausible slip: what is still running when the time is up is let go.
SettleLeniently ==
    /\ phase = "judge"
    /\ \/ (after <= baseline \/ waited > SettleWithin) /\ Verdict(FALSE) /\ UNCHANGED waited
       \/ after > baseline /\ waited <= SettleWithin
          /\ waited' = waited + 1 /\ phase' = "settle" /\ UNCHANGED <<turn, failed>>
    /\ UNCHANGED <<suiteVars, countVars, goVars, last, baseline, after, gone, there>>

\* What was read has come down to the baseline, or has not in time.  After a
\* pause it is read once more.
Settle ==
    /\ phase = "judge"
    /\ \/ after <= baseline /\ Verdict(FALSE) /\ UNCHANGED waited
       \/ after > baseline /\ waited > SettleWithin /\ Verdict(TRUE) /\ UNCHANGED waited
       \/ after > baseline /\ waited <= SettleWithin
          /\ waited' = waited + 1 /\ phase' = "settle" /\ UNCHANGED <<turn, failed>>
    /\ UNCHANGED <<suiteVars, countVars, goVars, last, baseline, after, gone, there>>

\* Goroutines end when they please; none begins that the cases did not start.
Unwind ==
    /\ phase \in {"pick", "quiesce", "generate", "settle", "judge"} /\ unwinding > 0
    /\ unwinding' = unwinding - 1 /\ gone' = gone + 1
    /\ UNCHANGED <<suiteVars, phase, turn, countVars, failed, workers, slow, last, baseline, after,
                   waited, there>>

WorkerEnds ==
    /\ phase \in {"pick", "settle", "judge"} /\ slow > 0
    /\ slow' = slow - 1 /\ workers' = workers - 1
    /\ UNCHANGED <<suiteVars, phase, turn, countVars, failed, unwinding, readVars>>

Goroutines == Unwind \/ WorkerEnds

SuiteNext ==
    \/ Refuse \/ Begin \/ Decline \/ PassOver \/ RunCase \/ FinishSuite
    \/ TakeBaseline \/ Quiesce \/ Generate \/ ReadCount \/ Settle
    \/ Goroutines

SuiteSpec == SuiteInit /\ [][SuiteNext]_runVars

-----------------------------------------------------------------------------
(* Properties *)

\* Every case is run, excused or outside the declaration, and only one of them,
\* however many of those before it failed: the numbers of the last line add up
\* to the suite.  Green leaves a flaw unfound only in a case whose condition the
\* subject was excused from, and a healthy engine is no excuse, or that asks for
\* embeddings it does not declare (contract.go:120-208).
EveryCaseAccounted ==
    /\ ran \cap declined = {} /\ ran \cap unreached = {} /\ declined \cap unreached = {}
    /\ failed \subseteq ran
    /\ phase = "done" => ran \cup declined \cup unreached = DOMAIN Cases
    /\ phase = "done" /\ failed = {} =>
          \A k \in DOMAIN Cases : Cases[k].looksAt \cap flaws # {} =>
              \/ Cases[k].embeddings /\ ~subject.embeddings
              \/ Cases[k].condition \in DOMAIN subject.cannot \ {"healthy"}

\* A leak is told from what the cases before it left.  An adapter that nothing is
\* wrong with is only ever refused for a goroutine of its own that was there at
\* the last reading, though it may end before the refusal is said; and a
\* generation that left goroutines behind for good is refused, unless as many of
\* the others have ended since the count was taken (contract.go:345-348, 386-427).
LeaksAreToldApart ==
    [][/\ Cancellation \in failed' \ failed /\ subject.arranged /\ flaws = {} => there > 0
       /\ phase = "judge" /\ phase' = "pick" /\ Cancellation \notin failed' => workers - slow <= gone]_runVars

=============================================================================
