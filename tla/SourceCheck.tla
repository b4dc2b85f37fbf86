----------------------------- MODULE SourceCheck ----------------------------
(***************************************************************************)
(* internal/sourcecheck: a comment that switches an analyser off, and a call *)
(* whose result is thrown away, need a reason on their line.                *)
(*                                                                         *)
(* A file is the sequence of its lines.  A line has the assignment that     *)
(* begins on it, the names on its left and what stands on its right, and    *)
(* the line comment on it: the directive it begins with, what is written    *)
(* against the directive, and its further words.                           *)
(***************************************************************************)
EXTENDS Sequences, Integers

\* The two that take the identifier of a check as their next word.
Identified == {"lint:ignore", "lint:file-ignore"}

directives ==
    {"nolint", "errcheck:ignore", "staticcheck:ignore", "noinspection"} \cup Identified

minimumReasonWords == 3

Against(comment) == IF comment.against = "nothing" THEN <<>> ELSE <<comment.against>>

\* A directive is a word of its comment, with what is written against it.
words(comment) == Len(comment.words) + (IF comment.directive # "none" THEN 1 ELSE 0)

\* The words after what the tool reads.  A list that stands apart from its colon
\* is left among them.
split(comment) ==
    LET written == Against(comment) \o comment.words
        after == IF comment.against \in {":list", ":"} THEN comment.words
                 ELSE IF comment.directive \in Identified /\ written # <<>> THEN Tail(written)
                 ELSE written
    IN  IF after # <<>> /\ Head(after) = "//" THEN Tail(after) ELSE after

\* By its place alone: the last name is blank and a call stands on the right.
discardsACallResult(assign) ==
    /\ assign.left # <<>> /\ assign.left[Len(assign.left)] = "_"
    /\ \E k \in DOMAIN assign.right : assign.right[k] = "call"

Bare(lines) ==
    {n \in DOMAIN lines :
        \/ /\ lines[n].comment.directive \in directives
           /\ Len(split(lines[n].comment)) < minimumReasonWords
        \/ /\ discardsACallResult(lines[n].assign)
           /\ words(lines[n].comment) < minimumReasonWords}

BareInTree(files) == UNION {{[file |-> f, line |-> n] : n \in Bare(f.source)} : f \in files}

=============================================================================
