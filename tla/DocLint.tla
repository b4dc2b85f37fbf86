------------------------------- MODULE DocLint ------------------------------
(***************************************************************************)
(* internal/doclint: the paths the prose of a document names, and where     *)
(* they lead.  Which lines are prose is Readers' reading.                    *)
(*                                                                         *)
(* A path is the sequence of its segments, a slash at its end an empty one.  *)
(* A document has a path and what it writes: code spans and the targets of   *)
(* links, each a path, an address, a fragment or a phrase.                   *)
(***************************************************************************)
EXTENDS SequencesExt, Integers

\* A step up cancels the step before it, unless that was one up too.
Cleaner(at, segment) ==
    CASE segment \in {"", "."} -> at
      [] segment = ".." /\ at # <<>> /\ Last(at) # ".." -> Front(at)
      [] OTHER -> Append(at, segment)

Clean(path) ==
    LET cleaned[k \in 0..Len(path)] ==
            IF k = 0 THEN <<>> ELSE Cleaner(cleaned[k - 1], path[k])
    IN  cleaned[Len(path)]

-----------------------------------------------------------------------------
(* The tree a reference is resolved against *)

dirs(tracked) == UNION {{SubSeq(p, 1, k) : k \in 1..(Len(p) - 1)} : p \in tracked}

HasPath(tree, path) == Clean(path) \in tree.tracked \cup dirs(tree.tracked) \cup tree.planned

roots(tree) == {p[1] : p \in tree.tracked \cup tree.planned}

WithoutDot(path) == IF path[1] = "." THEN Tail(path) ELSE path

\* A code span is a path where its first segment is one the tree has.
NamesPath(tree, span) ==
    /\ span.is = "path"
    /\ Len(WithoutDot(span.path)) > 1 /\ WithoutDot(span.path)[1] \in roots(tree)

\* The path of a link into this repository is read without its fragment.
localTarget(target) == target.is = "path"

-----------------------------------------------------------------------------
(* References and Check *)

\* A span is read from the root, a link from the directory of its document.
References(tree, document) ==
    {[span |-> TRUE, text |-> w, path |-> Clean(WithoutDot(w.path))] :
        w \in {w \in document.spans : NamesPath(tree, w)}}
    \cup {[span |-> FALSE, text |-> w, path |-> Clean(Front(document.name) \o w.path)] :
            w \in {w \in document.links : localTarget(w)}}

Check(tree, documents) ==
    UNION {{[file |-> d.name, reference |-> r] :
              r \in {r \in References(tree, d) : ~HasPath(tree, r.path)}} : d \in documents}

=============================================================================
