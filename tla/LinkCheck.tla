----------------------------- MODULE LinkCheck ------------------------------
(***************************************************************************)
(* One run of cmd/linkcheck: the documents git lists are read, every       *)
(* address they point at off this machine is asked for, again while the    *)
(* answer says nothing, and the run ends green, red or failed.             *)
(*                                                                         *)
(* The other end is free to answer every request differently.  A document  *)
(* is a sequence of lines, each with the targets read from it.  A file is  *)
(* the number its name has in the order of names.                          *)
(***************************************************************************)
EXTENDS Integers, Sequences, SequencesExt, FiniteSets

CONSTANTS
    Targets,     \* what documents may point at
    URLs,        \* the addresses among that; the others are not external
    Trees,       \* the lists of documents a repository may track
    Budgets      \* what -attempts may be given

ASSUME BudgetsAssumption == Budgets \subseteq Int

ASSUME TreesAssumption ==
    /\ URLs \subseteq Targets
    /\ Trees \subseteq Seq([name : Nat,
                           lines : Seq([mark : {"prose", "indented", "fence"}, targets : Seq(Targets)])])

VARIABLES
    budget, files,         \* the arguments, and what git listed
    pc, links, at, attempt,
    judged, findings, report,
    outcome,               \* "none" while running, then how the process ends
    heard                  \* every answer an address has given, in order

inputVars == <<budget, files>>
loopVars == <<links, at, attempt>>
outVars == <<judged, findings, report>>
vars == <<inputVars, pc, loopVars, outVars, outcome, heard>>

-----------------------------------------------------------------------------
(* Reading a document *)

\* A line between an odd fence line and the next is inside a block.
Fenced(doc, n) == Cardinality({m \in 1..(n - 1) : doc[m].mark = "fence"}) % 2 = 1

Read(doc, n) == doc[n].mark = "prose" /\ ~Fenced(doc, n)

LinksOn(f, n) ==
    LET targets == files[f].lines[n].targets
    IN  FlattenSeq([k \in DOMAIN targets |->
            IF targets[k] \in URLs
            THEN <<[file |-> files[f].name, line |-> n, url |-> targets[k]]>> ELSE <<>>])

Links(f) ==
    LET doc == files[f].lines
    IN  FlattenSeq([n \in DOMAIN doc |-> IF Read(doc, n) THEN LinksOn(f, n) ELSE <<>>])

-----------------------------------------------------------------------------
(* What an answer says *)

\* "served" is any status Classify does not name, a refusal of the reader among
\* them; "failed" is every error but a name that does not resolve.
Answers == {"served", "absent", "busy", "unresolved", "failed"}
Verdicts == {"reachable", "transient", "gone"}

Classify(a) ==
    CASE a = "served" -> "reachable"
      [] a \in {"absent", "unresolved"} -> "gone"
      [] a \in {"busy", "failed"} -> "transient"

Attempts == IF budget < 1 THEN 1 ELSE budget

\* In the order of the files, then of the lines; two on a line stay as they are.
Sorted(fs) ==
    LET Before(j, k) == \/ fs[j].file < fs[k].file
                        \/ fs[j].file = fs[k].file /\ fs[j].line < fs[k].line
                        \/ fs[j].file = fs[k].file /\ fs[j].line = fs[k].line /\ j < k
        Rank(k) == Cardinality({j \in DOMAIN fs : Before(j, k)}) + 1
    IN  [r \in DOMAIN fs |-> fs[CHOOSE k \in DOMAIN fs : Rank(k) = r]]

-----------------------------------------------------------------------------
Nothing == [u \in {} |-> "transient"]

Init ==
    /\ budget \in Budgets /\ files = <<>>
    /\ pc = "list" /\ links = <<>> /\ at = 1 /\ attempt = 0
    /\ judged = Nothing /\ findings = <<>>
    /\ report = [reachable |-> 0, gone |-> 0, unjudged |-> 0]
    /\ outcome = "none"
    /\ heard = [u \in URLs |-> <<>>]

\* git may fail, a listed file may not be readable, and a tree may hold nothing.
ListFails ==
    /\ pc = "list"
    /\ pc' = "done" /\ outcome' = "failed"
    /\ UNCHANGED <<inputVars, loopVars, outVars, heard>>

List ==
    /\ pc = "list"
    /\ files' \in Trees /\ files' # <<>>
    /\ links' = FlattenSeq([f \in DOMAIN files' |-> Links(f)'])
    /\ pc' = "link"
    /\ UNCHANGED <<budget, at, attempt, outVars, outcome, heard>>

url == links[at].url
Judged == url \in DOMAIN judged

\* Plausible slip: what an address was judged is not looked up.
TakeForgetting ==
    /\ pc = "link" /\ at <= Len(links)
    /\ attempt' = 0
    /\ pc' = "probe"
    /\ UNCHANGED <<inputVars, links, at, outVars, outcome, heard>>

\* An address that was judged before is not asked again.
Take ==
    /\ pc = "link" /\ at <= Len(links)
    /\ attempt' = 0
    /\ pc' = IF Judged THEN "count" ELSE "probe"
    /\ UNCHANGED <<inputVars, links, at, outVars, outcome, heard>>

Keep(verdict) ==
    judged' = [u \in DOMAIN judged \cup {url} |-> IF u = url THEN verdict ELSE judged[u]]

\* Plausible slip: the attempts run out on any answer.
ProbeEach ==
    /\ pc = "probe"
    /\ \E a \in Answers :
           /\ heard' = [heard EXCEPT ![url] = Append(@, a)]
           /\ attempt' = attempt + 1
           /\ IF attempt + 1 < Attempts
              THEN pc' = "pause" /\ UNCHANGED judged
              ELSE pc' = "count" /\ Keep(Classify(a))
    /\ UNCHANGED <<inputVars, links, at, findings, report, outcome>>

\* A request ends within its timeout, so that every probe answers something.
Probe ==
    /\ pc = "probe"
    /\ \E a \in Answers :
           /\ heard' = [heard EXCEPT ![url] = Append(@, a)]
           /\ attempt' = attempt + 1
           /\ IF Classify(a) = "transient" /\ attempt + 1 < Attempts
              THEN pc' = "pause" /\ UNCHANGED judged
              ELSE pc' = "count" /\ Keep(Classify(a))
    /\ UNCHANGED <<inputVars, links, at, findings, report, outcome>>

Pause ==
    /\ pc = "pause"
    /\ pc' = "probe"
    /\ UNCHANGED <<inputVars, loopVars, outVars, outcome, heard>>

Finding(k, refused) ==
    [file |-> links[k].file, line |-> links[k].line, url |-> links[k].url, refused |-> refused]
Found(refused) == findings' = Append(findings, Finding(at, refused))

CountReachable ==
    /\ judged[url] = "reachable"
    /\ report' = [report EXCEPT !.reachable = @ + 1] /\ UNCHANGED findings

CountGone ==
    /\ judged[url] = "gone"
    /\ report' = [report EXCEPT !.gone = @ + 1] /\ Found(TRUE)

CountUnjudged ==
    /\ judged[url] = "transient"
    /\ report' = [report EXCEPT !.unjudged = @ + 1] /\ Found(FALSE)

Count ==
    /\ pc = "count"
    /\ CountReachable \/ CountGone \/ CountUnjudged
    /\ at' = at + 1 /\ pc' = "link"
    /\ UNCHANGED <<inputVars, links, attempt, judged, outcome, heard>>

\* Plausible slip: anything printed is a reason to be red.
FinishStrict ==
    /\ pc = "link" /\ at > Len(links)
    /\ findings' = Sorted(findings)
    /\ outcome' = IF findings # <<>> THEN "red" ELSE "green"
    /\ pc' = "done"
    /\ UNCHANGED <<inputVars, loopVars, judged, report, heard>>

\* Only a refusal is a reason to be red.
Finish ==
    /\ pc = "link" /\ at > Len(links)
    /\ findings' = Sorted(findings)
    /\ outcome' = IF \E k \in DOMAIN findings : findings[k].refused THEN "red" ELSE "green"
    /\ pc' = "done"
    /\ UNCHANGED <<inputVars, loopVars, judged, report, heard>>

Next == ListFails \/ List \/ Take \/ Probe \/ Pause \/ Count \/ Finish

Spec == Init /\ [][Next]_vars

-----------------------------------------------------------------------------
(* Properties *)

LinkOf == [file : Nat, line : Nat, url : URLs]
FindingOf == [file : Nat, line : Nat, url : URLs, refused : BOOLEAN]

Behind == 1..(at - 1)
\* Not found, gone, or a name nobody has.
Told(u) == heard[u] # <<>> /\ Last(heard[u]) \in {"absent", "unresolved"}

\* The numbers a run prints add up to the links behind it, each link counted
\* under what the last answer of its address says, whichever document it is
\* met in first, and whatever earlier answers said.  What it prints, in the order
\* of files and lines, are the links that were not reached, each with whether
\* the other end refused it (linkcheck.go:187-211).
Accounted ==
    LET Saying(v) == {k \in Behind : Classify(Last(heard[links[k].url])) = v}
        Unreached == Saying("gone") \cup Saying("transient")
    IN  /\ report = [reachable |-> Cardinality(Saying("reachable")),
                     gone |-> Cardinality(Saying("gone")),
                     unjudged |-> Cardinality(Saying("transient"))]
        /\ Len(findings) = Cardinality(Unreached)
        /\ ToSet(findings) = {Finding(k, Told(links[k].url)) : k \in Unreached}
        /\ outcome \in {"green", "red"} =>
              \A j, k \in DOMAIN findings : j < k =>
                  \/ findings[j].file < findings[k].file
                  \/ findings[j].file = findings[k].file /\ findings[j].line <= findings[k].line

\* A run is red only on the word of the other end: some address it was pointed
\* at said that it is not there.  No number of timeouts, resets and server
\* errors makes it so, and no such word is lost (main.go:76-91).
RedOnlyOnItsWord == outcome \in {"green", "red"} => (outcome = "red" <=> \E u \in URLs : Told(u))

\* An address is never asked more often than the attempts allow, never again
\* once an answer meant something, and never again for another document that
\* points at it (linkcheck.go:188-193, 215-236).
NeverAsksInVain ==
    [][\A u \in URLs : heard'[u] # heard[u] =>
           /\ Len(heard'[u]) <= Attempts
           /\ u \notin DOMAIN judged
           /\ \A k \in DOMAIN heard[u] : Classify(heard[u][k]) = "transient"]_vars

=============================================================================
