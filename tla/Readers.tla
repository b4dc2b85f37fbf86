------------------------------ MODULE Readers -------------------------------
(***************************************************************************)
(* The readers of this repository's documents, side by side on the lines   *)
(* of one document: doclint and linkcheck, which read prose and toggle on  *)
(* every fence line; mdlint, which reads the shape of prose and refuses    *)
(* what would make the first two lose their place; and cmdlint, which      *)
(* reads the blocks.  They are separate programs that share nothing but    *)
(* the document: one step takes all of them past one line.                 *)
(*                                                                         *)
(* A line is a record of what the readers ask of it:                       *)
(*   mark       "tick" or "tilde" on a fence line, else "none"             *)
(*   shell      a fence line that names a shell                            *)
(*   indent     it begins with four spaces or a tab                        *)
(*   blank      nothing but space                                          *)
(*   continues  it ends in an unescaped backslash                          *)
(*   level      of a heading, else 0; closed, with a trailing hash run     *)
(*   under      nothing but equals signs or hyphens                        *)
(*   item       "hyphen" or "loose" where it opens a list item, else "none"*)
(***************************************************************************)
EXTENDS Integers, Sequences, FiniteSets

CONSTANT Documents

Marks == {"tick", "tilde"}

Lines == [mark : Marks \cup {"none"}, shell : BOOLEAN, indent : BOOLEAN, blank : BOOLEAN,
          continues : BOOLEAN, level : 0..6, closed : BOOLEAN, under : BOOLEAN,
          item : {"hyphen", "loose", "none"}]

ASSUME DocumentsAssumption == Documents \subseteq Seq(Lines)

VARIABLES
    doc, at, ended,
    fenced, read,                         \* doclint, linkcheck: the lines they read
    marker, openLine, prevLevel, prevBlank, prevItem, prose, departures,   \* mdlint
    fence, shell, inIndented, blocks, open, commands, passed, cut                  \* cmdlint

docVars == <<doc, at, ended>>
pathVars == <<fenced, read>>
shapeVars == <<marker, openLine, prevLevel, prevBlank, prevItem, prose, departures>>
commandVars == <<fence, shell, inIndented, blocks, open, commands, passed, cut>>
vars == <<docVars, pathVars, shapeVars, commandVars>>

line == doc[at]

Init ==
    /\ doc \in Documents /\ at = 1 /\ ended = FALSE
    /\ fenced = FALSE /\ read = {}
    /\ marker = "none" /\ openLine = 0 /\ prevLevel = 0 /\ prevBlank = TRUE /\ prevItem = FALSE
    /\ prose = {} /\ departures = {}
    /\ fence = "none" /\ shell = FALSE /\ inIndented = FALSE /\ blocks = {}
    /\ open = <<>> /\ commands = {} /\ passed = {} /\ cut = {}

IsFence == line.mark # "none"

-----------------------------------------------------------------------------
(* doclint, and linkcheck after it *)

Toggle == IsFence /\ fenced' = ~fenced /\ UNCHANGED read

PassBlock == ~IsFence /\ (fenced \/ line.indent) /\ UNCHANGED pathVars

ReadProse ==
    /\ ~IsFence /\ ~fenced /\ ~line.indent
    /\ read' = read \cup {at} /\ UNCHANGED fenced

-----------------------------------------------------------------------------
(* mdlint *)

Departure(n, rule) == [line |-> n, rule |-> rule]
Depart(rules) == departures' = departures \cup {Departure(at, r) : r \in rules}

Previous == prevBlank' = line.blank /\ prevItem' = (line.item # "none")

\* Plausible slip: a tilde fence is told from a backtick one and not refused.
OpenOrCloseQuietly ==
    /\ IsFence
    /\ UNCHANGED departures
    /\ \/ marker = "none" /\ marker' = line.mark /\ openLine' = at
       \/ marker # "none" /\ marker = line.mark /\ marker' = "none" /\ openLine' = 0
       \/ marker # "none" /\ marker # line.mark /\ UNCHANGED <<marker, openLine>>
    /\ Previous
    /\ UNCHANGED <<prevLevel, prose>>

\* A fence is closed by the marker that opened it.
OpenOrClose ==
    /\ IsFence
    /\ Depart(IF line.mark = "tilde" THEN {"fence-marker"} ELSE {})
    /\ \/ marker = "none" /\ marker' = line.mark /\ openLine' = at
       \/ marker # "none" /\ marker = line.mark /\ marker' = "none" /\ openLine' = 0
       \/ marker # "none" /\ marker # line.mark /\ UNCHANGED <<marker, openLine>>
    /\ Previous
    /\ UNCHANGED <<prevLevel, prose>>

PassFenced == ~IsFence /\ marker # "none" /\ UNCHANGED shapeVars

PassIndented ==
    /\ ~IsFence /\ marker = "none" /\ line.indent
    /\ Previous
    /\ UNCHANGED <<marker, openLine, prevLevel, prose, departures>>

InProse == ~IsFence /\ marker = "none" /\ ~line.indent

Heading ==
    /\ InProse /\ line.level > 0
    /\ prose' = prose \cup {at}
    /\ Depart(  {r \in {"closed-heading"} : line.closed}
           \cup {r \in {"heading-level-skip"} : prevLevel # 0 /\ line.level > prevLevel + 1}
           \cup {r \in {"heading-blank-line"} :
                     \/ at > 1 /\ ~prevBlank
                     \/ at < Len(doc) /\ ~doc[at + 1].blank})
    /\ prevLevel' = line.level
    /\ Previous
    /\ UNCHANGED <<marker, openLine>>

Body ==
    /\ InProse /\ line.level = 0
    /\ prose' = prose \cup {at}
    /\ Depart(  {r \in {"setext-heading"} : line.under /\ ~prevBlank /\ ~prevItem}
           \cup {r \in {"list-marker"} : line.item = "loose"})
    /\ Previous
    /\ UNCHANGED <<marker, openLine, prevLevel>>

-----------------------------------------------------------------------------
(* cmdlint *)

\* A block that ends mid-command is refused at the line the command began on.
CloseBlock ==
    /\ cut' = cut \cup ({open} \ {<<>>})
    /\ open' = <<>>

\* One line of a block: a command of its own, a part of one, or passed over.
PassOver(declared) ==
    /\ open = <<>> /\ ~declared /\ ~line.continues
    /\ passed' = passed \cup {at}
    /\ UNCHANGED <<open, commands>>

Continue(declared) ==
    /\ open # <<>> \/ declared \/ line.continues
    /\ line.continues
    /\ open' = Append(open, at)
    /\ UNCHANGED <<passed, commands>>

Judge(declared) ==
    /\ open # <<>> \/ declared
    /\ ~line.continues
    /\ commands' = commands \cup {Append(open, at)}
    /\ open' = <<>>
    /\ UNCHANGED passed

TakeLine(declared) ==
    /\ PassOver(declared) \/ Continue(declared) \/ Judge(declared)
    /\ UNCHANGED cut

OpenFence ==
    /\ IsFence /\ fence = "none"
    /\ CloseBlock
    /\ inIndented' = FALSE
    /\ fence' = line.mark /\ shell' = line.shell
    /\ blocks' = blocks \cup {n \in {at} : line.shell}
    /\ UNCHANGED <<commands, passed>>

\* Plausible slip: any fence line closes, whichever marker opened.
CloseAnyFence ==
    /\ IsFence /\ fence # "none"
    /\ CloseBlock
    /\ fence' = "none" /\ shell' = FALSE
    /\ UNCHANGED <<inIndented, blocks, commands, passed>>

CloseFence ==
    /\ IsFence /\ fence = line.mark
    /\ CloseBlock
    /\ fence' = "none" /\ shell' = FALSE
    /\ UNCHANGED <<inIndented, blocks, commands, passed>>

OtherFence == IsFence /\ fence # "none" /\ fence # line.mark /\ UNCHANGED commandVars

InFence ==
    /\ ~IsFence /\ fence # "none"
    /\ \/ shell /\ ~line.blank /\ TakeLine(TRUE)
       \/ (~shell \/ line.blank) /\ UNCHANGED <<open, commands, passed, cut>>
    /\ UNCHANGED <<fence, shell, inIndented, blocks>>

InBlock ==
    /\ ~IsFence /\ fence = "none" /\ line.indent
    /\ \/ /\ ~line.blank /\ inIndented' = TRUE /\ TakeLine(FALSE)
          /\ blocks' = blocks \cup {n \in {at} : ~inIndented}
       \/ line.blank /\ UNCHANGED <<inIndented, blocks, open, commands, passed, cut>>
    /\ UNCHANGED <<fence, shell>>

\* A blank line alone ends no block.
Between ==
    /\ ~IsFence /\ fence = "none" /\ ~line.indent /\ line.blank
    /\ UNCHANGED commandVars

\* Plausible slip: what is still continued is carried into the next block.
AfterBlockCarrying ==
    /\ ~IsFence /\ fence = "none" /\ ~line.indent /\ ~line.blank
    /\ inIndented' = FALSE
    /\ UNCHANGED <<fence, shell, blocks, open, commands, passed, cut>>

AfterBlock ==
    /\ ~IsFence /\ fence = "none" /\ ~line.indent /\ ~line.blank
    /\ CloseBlock
    /\ inIndented' = FALSE
    /\ UNCHANGED <<fence, shell, blocks, commands, passed>>

-----------------------------------------------------------------------------
ReadPaths == Toggle \/ PassBlock \/ ReadProse

ReadShape == OpenOrClose \/ PassFenced \/ PassIndented \/ Heading \/ Body

ReadCommands ==
    OpenFence \/ CloseFence \/ OtherFence \/ InFence \/ InBlock \/ Between \/ AfterBlock

ReadLine ==
    /\ at <= Len(doc)
    /\ ReadPaths /\ ReadShape /\ ReadCommands
    /\ at' = at + 1
    /\ UNCHANGED <<doc, ended>>

\* Plausible slip: only what follows a block ends it.
EndOfDocumentOpen ==
    /\ at > Len(doc) /\ ~ended
    /\ ended' = TRUE
    /\ departures' = departures \cup
           (IF marker = "none" THEN {} ELSE {Departure(openLine, "unclosed-fence")})
    /\ UNCHANGED <<doc, at, pathVars, marker, openLine, prevLevel, prevBlank, prevItem, prose,
                   commandVars>>

\* The fence mdlint still holds is refused at the line that opened it.
EndOfDocument ==
    /\ at > Len(doc) /\ ~ended
    /\ ended' = TRUE
    /\ departures' = departures \cup
           (IF marker = "none" THEN {} ELSE {Departure(openLine, "unclosed-fence")})
    /\ CloseBlock
    /\ UNCHANGED <<doc, at, pathVars, marker, openLine, prevLevel, prevBlank, prevItem, prose,
                   fence, shell, inIndented, blocks, commands, passed>>

Next == ReadLine \/ EndOfDocument

Spec == Init /\ [][Next]_vars

-----------------------------------------------------------------------------
(* Properties *)

\* doclint and linkcheck toggle where mdlint follows the marker.  As long as
\* mdlint has refused no tilde, no line of the document was read as prose by
\* one and passed over by the other, so that the path check never goes silent
\* over a document the gate lets through (mdlint.go:11-19, 163-165).
ReadersAgree == read # prose => \E d \in departures : d.rule = "fence-marker"

\* mdlint and cmdlint see the same fence at every line, so that no line is both
\* read as prose and taken for part of a command (mdlint.go:221-225,
\* cmdlint.go:166-169).
OneBoundary ==
    /\ marker = fence
    /\ \A n \in prose : n \notin passed /\ \A c \in commands \cup cut : n \notin {c[k] : k \in DOMAIN c}

\* The blocks of a document whose fences are all backticks, told from its lines
\* alone.
TicksOnly == \A n \in DOMAIN doc : doc[n].mark # "tilde"
FencesAbove(n) == {m \in 1..(n - 1) : doc[m].mark # "none"}
Enclosed(n) == Cardinality(FencesAbove(n)) % 2 = 1
OpenedBy(n) == CHOOSE m \in FencesAbove(n) : \A k \in FencesAbove(n) : k <= m
SameBlock(m, n) ==
    /\ FencesAbove(m) = FencesAbove(n)
    /\ Enclosed(m) \/ \A k \in m..n : doc[k].indent \/ doc[k].blank
BlockLine(n) ==
    /\ doc[n].mark = "none" /\ ~doc[n].blank
    /\ IF Enclosed(n) THEN doc[OpenedBy(n)].shell ELSE doc[n].indent

Of(c) == {c[k] : k \in DOMAIN c}
Taken == commands \cup cut \cup {open}

\* Each line of a block is taken into one command, finished, cut off or still
\* open, or is counted as passed over, and nothing else is: what a run says it
\* read and stepped over is all there was.  No command is carried from one block
\* into the next, whatever lies between them (cmdlint.go:48-50, 184-265).
EveryBlockLineAccounted ==
    TicksOnly =>
        /\ \A n \in 1..(at - 1) :
              Cardinality({c \in Taken : n \in Of(c)}) + (IF n \in passed THEN 1 ELSE 0)
                  = IF BlockLine(n) THEN 1 ELSE 0
        /\ \A c \in Taken \ {<<>>} : SameBlock(c[1], c[Len(c)])

\* A command that its block leaves continued is refused, however the block ends
\* (cmdlint.go:76-80).
CutOffIsRefused ==
    ended /\ TicksOnly =>
        \A n \in DOMAIN doc :
            BlockLine(n) /\ doc[n].continues =>
                \/ \E m \in (n + 1)..Len(doc) : BlockLine(m) /\ SameBlock(n, m)
                \/ \E c \in cut : c[Len(c)] = n

=============================================================================
