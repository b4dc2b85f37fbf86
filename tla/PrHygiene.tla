------------------------------ MODULE PrHygiene -----------------------------
(***************************************************************************)
(* internal/prhygiene: whether a pull request names the work it belongs to.  *)
(*                                                                         *)
(* A text is the sequence of its characters: "#", "0", another digit, a       *)
(* letter, or any other.  A line of the commit list has its parents counted, *)
(* a subject, and a tab between the two.                                    *)
(***************************************************************************)
EXTENDS SequencesExt, FiniteSetsExt, Integers

sizeWarning == 400

IsDigit(ch) == ch \in {"0", "digit"}
isLetterOrDigit(ch) == IsDigit(ch) \/ ch = "letter"

\* How many digits follow the character at i.
Digits(text, i) ==
    Max({n \in 0..(Len(text) - i) : \A k \in 1..n : IsDigit(text[i + k])})

HasReference(text) ==
    \E i \in DOMAIN text :
        LET after == i + 1 + Digits(text, i)
        IN  /\ text[i] = "#"
            /\ i > 1 => ~isLetterOrDigit(text[i - 1])
            /\ Digits(text, i) > 0 /\ text[i + 1] # "0"
            /\ after <= Len(text) => ~isLetterOrDigit(text[after])

\* A line with nothing on it but its tab is taken for an empty one.
Empty(line) == line.parents = 0 /\ line.subject = <<>>

Commits(log) == {k \in DOMAIN log : ~Empty(log[k])}

ParsesLog(log) == \A k \in Commits(log) : log[k].tab

\* What is refused, by its kind; merges are passed over, and no size refuses.
JudgeRequest(request) ==
    LET commits == Commits(request.log)
        merges == {k \in commits : request.log[k].parents > 1}
        subjects == {k \in commits \ merges : ~HasReference(request.log[k].subject)}
    IN  [refusals |-> {r \in {"body"} : ~HasReference(request.body)}
                      \cup {r \in {"subject"} : subjects # {}}
                      \cup {r \in {"range"} : commits = {}},
         warned   |-> request.changed > sizeWarning,
         skipped  |-> merges # {} \/ request.changed < 0]

=============================================================================
