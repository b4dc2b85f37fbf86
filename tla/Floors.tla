------------------------------- MODULE Floors -------------------------------
(***************************************************************************)
(* internal/coverfloor and internal/scanfloor: a measurement against a     *)
(* number the tree holds.                                                  *)
(*                                                                         *)
(* Numbers are in hundredths.  NaN is a number to strconv.ParseFloat, and  *)
(* every comparison with it is false.                                      *)
(***************************************************************************)
EXTENDS SequencesExt, FiniteSetsExt, Integers, TLC

CONSTANTS
    NaN,
    Words   \* what strconv.ParseFloat refuses

IsNumber(value) == value # Words

Less(a, b) == a \in Int /\ b \in Int /\ a < b
AtLeast(a, b) == a \in Int /\ b \in Int /\ a >= b

-----------------------------------------------------------------------------
(* coverfloor.  A profile is a sequence of lines: a block, its statements,   *)
(* and how often one test binary entered it.                                 *)

Blocks(profile) == {line.block : line \in ToSet(profile)}
LinesOf(profile, block) == {i \in DOMAIN profile : profile[i].block = block}

\* The statements the block's last line gives; the counts of all, summed.
Statements(profile, block) == profile[Max(LinesOf(profile, block))].statements

\* Plausible slip: the count of the binary that was written last.
CountLast(profile, block) == profile[Max(LinesOf(profile, block))].count

Count(profile, block) == MapThenSumSet(LAMBDA i : profile[i].count, LinesOf(profile, block))

Entered(profile, block) == Count(profile, block) > 0

ParseLine(line) == line.parses /\ line.statements >= 0 /\ line.count >= 0

Measures(profile) == profile # <<>> /\ \A i \in DOMAIN profile : ParseLine(profile[i])

Total(profile) ==
    LET statements(blocks) == MapThenSumSet(LAMBDA b : Statements(profile, b), blocks)
    IN  [statements |-> statements(Blocks(profile)),
         covered |-> statements({b \in Blocks(profile) : Entered(profile, b)})]

\* The tenths of a percent that v hundredths, of 100 times t, may be printed as;
\* which of two is printed for a tie depends on the binary fraction.
Round1(v, t) == {m \in 0..1000 : 2 * (10 * m * t - v) \in (-10 * t)..(10 * t)}

Percent(total) ==
    IF total.statements = 0 THEN {0}
    ELSE Round1(10000 * total.covered, total.statements)

\* One number and the lines that explain it.
ReadsFloor(found) ==
    Len(found) = 1 /\ IsNumber(found[1]) /\ ~Less(found[1], 0) /\ ~Less(10000, found[1])

\* Whether the total clears the floor: one answer, or two where a tie is printed.
Clears(floor, total) ==
    IF floor = NaN THEN {TRUE}
    ELSE {measured >= rounded : measured \in Percent(total), rounded \in Round1(floor, 1)}

-----------------------------------------------------------------------------
(* scanfloor.  A document is a sequence of runs; a run, its rules with their *)
(* severities in the order they are declared, and the rules of its results.  *)

\* Words if none is declared.
SeverityOf(run, rule) ==
    LET said == {i \in DOMAIN run.rules : /\ run.rules[i].id = rule /\ rule # ""
                                          /\ IsNumber(run.rules[i].severity)}
    IN  IF said = {} THEN Words ELSE run.rules[Max(said)].severity

BlocksRun(run, rule, floor) ==
    ~IsNumber(SeverityOf(run, rule)) \/ AtLeast(SeverityOf(run, rule), floor)

Scans(document) == document # <<>>

Blocking(document, floor) ==
    UNION {{k} \X {i \in DOMAIN document[k].results :
                       BlocksRun(document[k], document[k].results[i], floor)} :
              k \in DOMAIN document}

\* The first line that is no comment.
ReadsScanFloor(found) == found # <<>> /\ IsNumber(found[1]) /\ ~Less(found[1], 0)

=============================================================================
