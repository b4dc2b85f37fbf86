----------------------------- MODULE Invariants -----------------------------
(***************************************************************************)
(* internal/invariants: the shapes invariants.txt forbids, and where they    *)
(* are written.                                                            *)
(*                                                                         *)
(* A declaration is the sequence of its lines, each a comment, blank, no     *)
(* pair, or a key and the words of its value.  A file is what TestReach      *)
(* reads, with the sets of names its test cases call.                        *)
(***************************************************************************)
EXTENDS SequencesExt, Integers, TLC

CONSTANTS
    Within,      \* the paths a directory is or lies below
    Carrying     \* pairs of a word and a name that carries it, in any case

ASSUME CarryingAssumption == Carrying \subseteq STRING \X STRING

Shapes == {"call-only-in", "named-string-literal", "constrained-test-calls", "literal-argument"}
Keys == {"shape", "reason", "names", "paths", "words", "constraint"}

-----------------------------------------------------------------------------
(* Parse *)

Invariant(id) == [key \in {"invariant"} \cup Keys |-> IF key = "invariant" THEN id ELSE <<>>]

\* What a record of each shape has to state.
validate(inv) ==
    /\ inv.reason # <<>>
    /\ inv.shape \in {<<shape>> : shape \in Shapes}
    /\ inv.names # <<>>
    /\ inv.shape = <<"call-only-in">> => inv.paths # <<>>
    /\ inv.shape = <<"constrained-test-calls">> => inv.constraint # <<>>
    /\ inv.shape = <<"literal-argument">> => inv.words # <<>>

Refuse(s) == [s EXCEPT !.refused = TRUE]

\* The record that is open, if any, comes to its end.
finish(s) ==
    IF ~s.open THEN s
    ELSE IF ~validate(s.current) \/ \E k \in DOMAIN s.out : s.out[k].invariant = s.current.invariant
    THEN Refuse(s)
    ELSE [s EXCEPT !.out = Append(@, s.current), !.open = FALSE]

\* A key that is written again takes the place of what was there.
ReadLine(s, line) ==
    IF s.refused THEN s ELSE
    CASE line.is = "comment" -> s
      [] line.is = "blank"   -> finish(s)
      [] line.is = "pair" /\ line.key = "invariant" /\ line.value # <<>> ->
            [finish(s) EXCEPT !.open = TRUE, !.current = Invariant(line.value)]
      [] line.is = "pair" /\ line.key \in Keys /\ s.open ->
            [s EXCEPT !.current[line.key] = line.value]
      [] OTHER -> Refuse(s)

Nothing == [out |-> <<>>, open |-> FALSE, current |-> Invariant(<<>>), refused |-> FALSE]

AfterLines(lines) ==
    LET after[i \in 0..Len(lines)] ==
            IF i = 0 THEN Nothing ELSE ReadLine(after[i - 1], lines[i])
    IN  finish(after[Len(lines)])

Declares(lines) == ~AfterLines(lines).refused /\ AfterLines(lines).out # <<>>

-----------------------------------------------------------------------------
(* Check: what each shape finds in a file *)

carries(words, name) == \E word \in ToSet(words) : <<word, name>> \in Carrying

Calls(f, names) == {w \in f.writings : w.is = "call" /\ w.fn \in ToSet(names)}

callOnlyIn(rule, f) == IF Within[f.dir] \cap ToSet(rule.paths) # {} THEN {} ELSE Calls(f, rule.names)

namedStringLiteral(rule, f) ==
    {w \in f.writings : w.is = "binding" /\ w.filled /\ carries(rule.names, w.name)}

literalArgument(rule, f) ==
    {w \in Calls(f, rule.names) :
        \E k \in DOMAIN w.args : w.args[k].form # "computed" /\ carries(rule.words, w.args[k].host)}

\* In the build the tag selects, alone, and out of the one without any; what is
\* more than one word is the name of no tag.
carriesConstraint(f, value) == Len(value) = 1 /\ {value[1]} \in f.built /\ {} \notin f.built

constrainedTestCalls(rule, f) ==
    IF ~carriesConstraint(f, rule.constraint) THEN {}
    ELSE {called \in f.cases : called \cap ToSet(rule.names) = {}}

Operator(rule, f) ==
    CASE rule.shape = <<"call-only-in">>           -> callOnlyIn(rule, f)
      [] rule.shape = <<"named-string-literal">>   -> namedStringLiteral(rule, f)
      [] rule.shape = <<"constrained-test-calls">> -> constrainedTestCalls(rule, f)
      [] rule.shape = <<"literal-argument">>       -> literalArgument(rule, f)

Violations(lines, files) ==
    UNION {{[rule |-> rule.invariant, file |-> f, what |-> w] : w \in Operator(rule, f)} :
             rule \in ToSet(AfterLines(lines).out), f \in files}

=============================================================================
