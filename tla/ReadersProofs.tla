---------------------------- MODULE ReadersProofs ---------------------------
(***************************************************************************)
(* Proofs about Readers, for every set of documents: the readers of prose  *)
(* keep one boundary unless mdlint refuses the document, no line is read   *)
(* both as prose and as part of a command, and cmdlint takes every line of *)
(* a block once, in a command of that block, and refuses what is cut off.  *)
(***************************************************************************)
EXTENDS Readers, FiniteSetTheorems, TLAPS

\* What places the lines each reader has taken: all of them are behind, and a
\* command is a sequence of line numbers.
Behind ==
    /\ doc \in Seq(Lines) /\ at \in Nat \ {0}
    /\ prose \subseteq 1..(at - 1) /\ passed \subseteq 1..(at - 1)
    /\ commands \cup cut \cup {open} \subseteq Seq(1..(at - 1))
    /\ marker \in Marks \cup {"none"}
    /\ fenced \in BOOLEAN

Refused == \E d \in departures : d.rule = "fence-marker"

\* Without a refused tilde there is one kind of fence, and a toggle follows it.
Aligned ==
    ~Refused => read = prose /\ marker # "tilde" /\ (fenced <=> marker # "none")

Boundary ==
    /\ marker = fence
    /\ \A n \in prose :
           n \notin passed /\ \A c \in commands \cup cut \cup {open} : n \notin {c[k] : k \in DOMAIN c}

\* The line being read is a line.
LEMMA LineTyped ==
    ASSUME doc \in Seq(Lines), at \in Nat \ {0}, at <= Len(doc)
    PROVE  /\ line \in Lines /\ line.mark \in Marks \cup {"none"}
           /\ line.shell \in BOOLEAN /\ line.indent \in BOOLEAN
           /\ line.blank \in BOOLEAN /\ line.continues \in BOOLEAN
<1>1. line \in Lines
    BY DEF line
<1> QED
    BY <1>1 DEF Lines

\* What a sequence over S holds is in S.
LEMMA SeqElements ==
    ASSUME NEW S, NEW s \in Seq(S)
    PROVE  \A k \in DOMAIN s : s[k] \in S
<1> QED
    OBVIOUS

\* A sequence over a set is one over every larger set.
LEMMA SeqWidens ==
    ASSUME NEW S, NEW T, S \subseteq T
    PROVE  Seq(S) \subseteq Seq(T)
<1> SUFFICES ASSUME NEW s \in Seq(S) PROVE s \in Seq(T)
    OBVIOUS
<1>1. \A k \in 1..Len(s) : s[k] \in T
    OBVIOUS
<1>2. Len(s) \in Nat /\ s \in [1..Len(s) -> T]
    BY <1>1
<1> QED
    BY <1>2

\* Before the first line the readers agree.
LEMMA InitHolds == Init => Behind /\ Aligned /\ Boundary
<1> SUFFICES ASSUME Init PROVE Behind /\ Aligned /\ Boundary
    OBVIOUS
<1>1. Behind
    <2>1. doc \in Seq(Lines) /\ at \in Nat \ {0}
        BY DocumentsAssumption DEF Init
    <2>2. commands \cup cut \cup {open} = {<<>>} /\ <<>> \in Seq(1..(at - 1))
        BY DEF Init
    <2>3. /\ prose = {} /\ passed = {}
          /\ marker \in Marks \cup {"none"}
          /\ fenced \in BOOLEAN
        BY DEF Init
    <2> QED
        BY <2>1, <2>2, <2>3 DEF Behind
<1>2. Aligned
    BY DEF Init, Aligned, Refused
<1>3. Boundary
    BY DEF Init, Boundary
<1> QED
    BY <1>1, <1>2, <1>3

\* What mdlint and the prose readers make of a line, as far as it matters here.
LEMMA ProseStep ==
    ASSUME ReadPaths, ReadShape
    PROVE  /\ read' = IF ~IsFence /\ ~fenced /\ ~line.indent THEN read \cup {at} ELSE read
           /\ fenced' = IF IsFence THEN ~fenced ELSE fenced
           /\ prose' = IF InProse THEN prose \cup {at} ELSE prose
           /\ marker' = IF ~IsFence THEN marker
                        ELSE IF marker = "none" THEN line.mark
                        ELSE IF marker = line.mark THEN "none" ELSE marker
           /\ IsFence /\ line.mark = "tilde" => Refused'
           /\ departures \subseteq departures'
<1>1. /\ read' = IF ~IsFence /\ ~fenced /\ ~line.indent THEN read \cup {at} ELSE read
      /\ fenced' = IF IsFence THEN ~fenced ELSE fenced
    BY DEF ReadPaths, Toggle, PassBlock, ReadProse, pathVars
<1>2. /\ prose' = IF InProse THEN prose \cup {at} ELSE prose
      /\ marker' = IF ~IsFence THEN marker
                   ELSE IF marker = "none" THEN line.mark
                   ELSE IF marker = line.mark THEN "none" ELSE marker
    BY DEF ReadShape, OpenOrClose, PassFenced, PassIndented, Heading, Body, InProse, IsFence,
           shapeVars
<1>3. departures \subseteq departures'
    BY DEF ReadShape, OpenOrClose, PassFenced, PassIndented, Heading, Body, Depart, shapeVars
<1>4. IsFence /\ line.mark = "tilde" => Refused'
    <2> SUFFICES ASSUME IsFence, line.mark = "tilde" PROVE Refused'
        OBVIOUS
    <2>1. departures' = departures \cup {Departure(at, r) : r \in {"fence-marker"}}
        BY DEF ReadShape, OpenOrClose, PassFenced, PassIndented, Heading, Body, InProse, Depart
    <2>2. Departure(at, "fence-marker") \in departures'
        BY <2>1
    <2> QED
        BY <2>2 DEF Refused, Departure
<1> QED
    BY <1>1, <1>2, <1>3, <1>4

\* What cmdlint makes of a line: it takes none that mdlint reads as prose.
LEMMA CommandStep ==
    ASSUME ReadCommands
    PROVE  /\ fence' = IF ~IsFence THEN fence
                       ELSE IF fence = "none" THEN line.mark
                       ELSE IF fence = line.mark THEN "none" ELSE fence
           /\ \A n : n \in passed' => n \in passed \/ (n = at /\ (fence # "none" \/ line.indent))
           /\ \A c \in commands' \cup cut' \cup {open'} :
                  \/ c \in commands \cup cut \cup {open} \/ c = <<>>
                  \/ c = Append(open, at) /\ (fence # "none" \/ line.indent)
<1> DEFINE FenceStep == fence' = IF ~IsFence THEN fence
                                 ELSE IF fence = "none" THEN line.mark
                                 ELSE IF fence = line.mark THEN "none" ELSE fence
           PassStep == \A n : n \in passed' =>
                           n \in passed \/ (n = at /\ (fence # "none" \/ line.indent))
           TakeStep == \A c \in commands' \cup cut' \cup {open'} :
                           \/ c \in commands \cup cut \cup {open} \/ c = <<>>
                           \/ c = Append(open, at) /\ (fence # "none" \/ line.indent)
<1>1. CASE OpenFence \/ CloseFence \/ AfterBlock
    BY <1>1 DEF OpenFence, CloseFence, AfterBlock, CloseBlock, IsFence
<1>2. CASE OtherFence \/ Between
    BY <1>2 DEF OtherFence, Between, commandVars, IsFence
<1>3. ASSUME NEW declared \in BOOLEAN, TakeLine(declared), fence # "none" \/ line.indent
      PROVE  PassStep /\ TakeStep
    BY <1>3 DEF TakeLine, PassOver, Continue, Judge
<1>4. CASE InFence
    <2>1. CASE shell /\ ~line.blank /\ TakeLine(TRUE)
        <3>1. PassStep /\ TakeStep
            BY <1>3, <1>4, <2>1 DEF InFence
        <3> QED
            BY <3>1, <1>4 DEF InFence
    <2>2. CASE UNCHANGED <<open, commands, passed, cut>>
        BY <1>4, <2>2 DEF InFence
    <2> QED
        BY <1>4, <2>1, <2>2 DEF InFence
<1>5. CASE InBlock
    <2>1. CASE ~line.blank /\ TakeLine(FALSE)
        <3>1. PassStep /\ TakeStep
            BY <1>3, <1>5, <2>1 DEF InBlock
        <3> QED
            BY <3>1, <1>5 DEF InBlock
    <2>2. CASE UNCHANGED <<open, commands, passed, cut>>
        BY <1>5, <2>2 DEF InBlock
    <2> QED
        BY <1>5, <2>1, <2>2 DEF InBlock
<1> QED
    BY <1>1, <1>2, <1>4, <1>5 DEF ReadCommands

-----------------------------------------------------------------------------
\* One more line keeps the readers where each other are.
LEMMA ReadLineKeeps ==
    ASSUME Behind, Aligned, Boundary, ReadLine
    PROVE  Behind' /\ Aligned' /\ Boundary'
<1>0. /\ at <= Len(doc) /\ ReadPaths /\ ReadShape /\ ReadCommands
      /\ at' = at + 1 /\ doc' = doc
    BY DEF ReadLine
<1>1. /\ line.mark \in Marks \cup {"none"} /\ line.indent \in BOOLEAN
      /\ at \in Nat \ {0} /\ at' \in Nat \ {0}
    BY <1>0, LineTyped DEF Behind
<1>2. at \notin 1..(at - 1) /\ at \in 1..(at' - 1) /\ 1..(at - 1) \subseteq 1..(at' - 1)
    BY <1>0, <1>1
<1>3. /\ Seq(1..(at - 1)) \subseteq Seq(1..(at' - 1))
      /\ open \in Seq(1..(at' - 1)) /\ Append(open, at) \in Seq(1..(at' - 1)) /\ <<>> \in Seq(1..(at' - 1))
    <2>0. Seq(1..(at - 1)) \subseteq Seq(1..(at' - 1))
        BY <1>2, SeqWidens
    <2>1. open \in Seq(1..(at - 1))
        BY DEF Behind
    <2>2. open \in Seq(1..(at' - 1))
        BY <2>1, <2>0
    <2> QED
        BY <1>2, <2>0, <2>2
<1>4. Behind'
    <2>1. prose' \subseteq 1..(at' - 1)
        BY <1>0, <1>2, ProseStep DEF Behind
    <2>2. passed' \subseteq 1..(at' - 1)
        <3>1. \A n \in passed' : n \in passed \/ n = at
            BY <1>0, CommandStep
        <3> QED
            BY <3>1, <1>2 DEF Behind
    <2>3. \A c \in commands' \cup cut' \cup {open'} : c \in Seq(1..(at' - 1))
        <3> SUFFICES ASSUME NEW c \in commands' \cup cut' \cup {open'} PROVE c \in Seq(1..(at' - 1))
            OBVIOUS
        <3>1. CASE c \in commands \cup cut \cup {open}
            <4>1. c \in Seq(1..(at - 1))
                BY <3>1 DEF Behind
            <4> QED
                BY <4>1, <1>3
        <3>2. CASE c = <<>> \/ c = Append(open, at)
            BY <3>2, <1>3
        <3> QED
            BY <1>0, <3>1, <3>2, CommandStep
    <2>4. fenced' \in BOOLEAN
        <3>1. fenced' = fenced \/ fenced' = ~fenced
            BY <1>0, ProseStep
        <3> QED
            BY <3>1, Zenon DEF Behind
    <2>5. marker' \in Marks \cup {"none"}
        BY <1>0, <1>1, ProseStep DEF Behind
    <2>6. doc' \in Seq(Lines)
        BY <1>0 DEF Behind
    <2> QED
        BY <2>1, <2>2, <2>3, <2>4, <2>5, <2>6, <1>1 DEF Behind
<1>5. Aligned'
    <2> SUFFICES ASSUME ~Refused'
                 PROVE  read' = prose' /\ marker' # "tilde" /\ (fenced' <=> marker' # "none")
        BY DEF Aligned
    <2>1. ~Refused
        BY <1>0, ProseStep DEF Refused
    <2>2. read = prose /\ marker # "tilde" /\ (fenced <=> marker # "none")
        BY <2>1 DEF Aligned
    <2>3. IsFence => line.mark = "tick"
        BY <1>0, <1>1, ProseStep DEF IsFence, Marks
    <2>4. marker \in {"tick", "none"}
        BY <2>2 DEF Behind, Marks
    <2>5. read' = prose' /\ marker' # "tilde"
        BY <1>0, <2>2, <2>3, <2>4, ProseStep DEF InProse
    <2>6. fenced' <=> marker' # "none"
        <3>1. CASE IsFence
            <4>1. marker' # "none" <=> marker = "none"
                BY <1>0, <2>3, <2>4, <3>1, ProseStep
            <4>2. fenced' = ~fenced
                BY <1>0, <3>1, ProseStep
            <4> QED
                BY <4>1, <4>2, <2>2, Zenon
        <3>2. CASE ~IsFence
            <4>1. fenced' = fenced /\ marker' = marker
                BY <1>0, <3>2, ProseStep
            <4> QED
                BY <4>1, <2>2
        <3> QED
            BY <3>1, <3>2
    <2> QED
        BY <2>5, <2>6
<1>6. Boundary'
    <2>1. marker' = fence'
        BY <1>0, ProseStep, CommandStep DEF Boundary
    <2>2. ASSUME NEW n \in prose'
          PROVE  /\ n \notin passed'
                 /\ \A c \in commands' \cup cut' \cup {open'} : n \notin {c[k] : k \in DOMAIN c}
        <3>1. CASE n = at /\ InProse
            <4>1. fence = "none" /\ ~line.indent
                BY <3>1 DEF InProse, Boundary
            <4>2. n \notin passed'
                BY <1>0, <1>2, <3>1, <4>1, CommandStep DEF Behind
            <4>3. ASSUME NEW c \in commands' \cup cut' \cup {open'}
                  PROVE  n \notin {c[k] : k \in DOMAIN c}
                <5>1. c \in Seq(1..(at - 1))
                    <6>1. c \in commands \cup cut \cup {open} \/ c = <<>>
                        BY <1>0, <4>1, CommandStep
                    <6>2. <<>> \in Seq(1..(at - 1))
                        OBVIOUS
                    <6> QED
                        BY <6>1, <6>2 DEF Behind
                <5>2. \A k \in DOMAIN c : c[k] \in 1..(at - 1)
                    BY <5>1, SeqElements
                <5> QED
                    BY <5>2, <1>2, <3>1
            <4> QED
                BY <4>2, <4>3
        <3>2. CASE n \in prose
            <4>1. n # at
                BY <3>2, <1>2 DEF Behind
            <4>2. n \notin passed'
                BY <1>0, <3>2, <4>1, CommandStep DEF Boundary
            <4>3. ASSUME NEW c \in commands' \cup cut' \cup {open'}
                  PROVE  n \notin {c[k] : k \in DOMAIN c}
                <5>1. CASE c \in commands \cup cut \cup {open}
                    BY <5>1, <3>2 DEF Boundary
                <5>2. CASE c = <<>>
                    BY <5>2
                <5>3. CASE c = Append(open, at)
                    <6>1. \A k \in DOMAIN c : c[k] = at \/ (k \in DOMAIN open /\ c[k] = open[k])
                        <7>1. open \in Seq(1..(at' - 1)) /\ at \in 1..(at' - 1)
                            BY <1>2, <1>3
                        <7> QED
                            BY <5>3, <7>1
                    <6>2. n \notin {open[k] : k \in DOMAIN open}
                        BY <3>2 DEF Boundary
                    <6> QED
                        BY <6>1, <6>2, <4>1
                <5> QED
                    BY <1>0, <5>1, <5>2, <5>3, CommandStep
            <4> QED
                BY <4>2, <4>3
        <3> QED
            BY <1>0, <3>1, <3>2, ProseStep
    <2> QED
        BY <2>1, <2>2 DEF Boundary
<1> QED
    BY <1>4, <1>5, <1>6

\* So does the end of the document.
LEMMA EndKeeps ==
    ASSUME Behind, Aligned, Boundary, EndOfDocument
    PROVE  Behind' /\ Aligned' /\ Boundary'
<1>1. /\ UNCHANGED <<doc, at, fenced, read, marker, prose, fence, commands, passed>>
      /\ departures \subseteq departures'
      /\ \A c \in commands' \cup cut' \cup {open'} : c \in commands \cup cut \cup {open} \/ c = <<>>
    BY DEF EndOfDocument, CloseBlock, pathVars
<1>2. Behind'
    <2>1. <<>> \in Seq(1..(at - 1))
        OBVIOUS
    <2> QED
        BY <1>1, <2>1 DEF Behind
<1>3. Aligned'
    BY <1>1 DEF Aligned, Refused
<1>4. Boundary'
    BY <1>1 DEF Boundary
<1> QED
    BY <1>2, <1>3, <1>4

\* The invariant of the readers is inductive.
LEMMA NextKeeps == Behind /\ Aligned /\ Boundary /\ [Next]_vars => Behind' /\ Aligned' /\ Boundary'
<1> SUFFICES ASSUME Behind, Aligned, Boundary, [Next]_vars
             PROVE  Behind' /\ Aligned' /\ Boundary'
    OBVIOUS
<1>1. CASE ReadLine
    BY <1>1, ReadLineKeeps
<1>2. CASE EndOfDocument
    BY <1>2, EndKeeps
<1>3. CASE UNCHANGED vars
    BY <1>3 DEF vars, docVars, pathVars, shapeVars, commandVars, Behind, Aligned, Refused, Boundary
<1> QED
    BY <1>1, <1>2, <1>3 DEF Next

\* The invariant of the readers holds throughout.
LEMMA Invariant == Spec => [](Behind /\ Aligned /\ Boundary)
<1> QED
    BY InitHolds, NextKeeps, PTL DEF Spec

\* Whatever the document, doclint and linkcheck read as prose the lines that
\* mdlint reads as prose, unless mdlint has refused a tilde fence.
THEOREM ReadersAgreeHolds == Spec => []ReadersAgree
<1>1. Aligned => ReadersAgree
    BY DEF Aligned, Refused, ReadersAgree
<1> QED
    BY <1>1, Invariant, PTL

\* Whatever the document, mdlint and cmdlint keep one boundary, and no line of
\* prose is passed over, judged or cut off as a command.
THEOREM OneBoundaryHolds == Spec => []OneBoundary
<1>1. Boundary => OneBoundary
    BY DEF Boundary, OneBoundary
<1> QED
    BY <1>1, Invariant, PTL

-----------------------------------------------------------------------------
(* What cmdlint has taken, in a document whose fences are all backticks *)

\* The block of line n goes on up to the line being read.
Current(n) ==
    /\ FencesAbove(n) = FencesAbove(at)
    /\ Enclosed(at) \/ \A k \in n..(at - 1) : doc[k].indent \/ doc[k].blank

\* cmdlint is in the block the lines behind it leave it in.
InStep ==
    /\ fence = IF Enclosed(at) THEN "tick" ELSE "none"
    /\ Enclosed(at) => shell = doc[OpenedBy(at)].shell
    /\ at <= Len(doc) + 1
    /\ ended => at > Len(doc) /\ open = <<>>

\* What it has taken are lines of blocks, each of them once, and all of them.
TakenOnce ==
    /\ \A n \in passed : BlockLine(n)
    /\ \A c \in Taken : \A n \in Of(c) : BlockLine(n) /\ n \notin passed
    /\ \A c, d \in Taken : \A n \in Of(c) : n \in Of(d) => c = d
    /\ \A n \in 1..(at - 1) : BlockLine(n) => n \in passed \/ \E c \in Taken : n \in Of(c)

\* A command is of one block, and the one still open is of the current block.
OfOneBlock ==
    /\ \A c \in Taken \ {<<>>} : SameBlock(c[1], c[Len(c)])
    /\ \A n \in Of(open) : Current(n)
    /\ open # <<>> => open \notin commands \cup cut

\* A line that continues is followed in its block, cut off, or the last taken.
Followed(n) ==
    \/ \E m \in (n + 1)..(at - 1) : BlockLine(m) /\ SameBlock(n, m)
    \/ \E c \in cut : c[Len(c)] = n
    \/ open # <<>> /\ open[Len(open)] = n

NoneLost == \A n \in 1..(at - 1) : BlockLine(n) /\ doc[n].continues => Followed(n)

Counted == TicksOnly => InStep /\ TakenOnce /\ OfOneBlock /\ NoneLost

\* One more line is one more fence above the next one, or none.
LEMMA FencesGrow ==
    ASSUME NEW n \in Nat \ {0}
    PROVE  /\ FencesAbove(n + 1) = FencesAbove(n) \cup {m \in {n} : doc[m].mark # "none"}
           /\ IsFiniteSet(FencesAbove(n)) /\ n \notin FencesAbove(n)
           /\ \A m \in FencesAbove(n) : m \in 1..(n - 1)
<1>1. FencesAbove(n + 1) = FencesAbove(n) \cup {m \in {n} : doc[m].mark # "none"}
    BY DEF FencesAbove
<1>2. IsFiniteSet(FencesAbove(n))
    <2>1. IsFiniteSet(1..(n - 1))
        BY FS_Interval
    <2> QED
        BY <2>1, FS_Subset DEF FencesAbove
<1> QED
    BY <1>1, <1>2 DEF FencesAbove

\* A fence line turns what encloses the lines after it over; no other line does.
LEMMA Enclosing ==
    ASSUME NEW n \in Nat \ {0}
    PROVE  /\ doc[n].mark # "none" => (Enclosed(n + 1) <=> ~Enclosed(n)) /\ OpenedBy(n + 1) = n
           /\ doc[n].mark = "none" =>
                /\ FencesAbove(n + 1) = FencesAbove(n)
                /\ Enclosed(n + 1) <=> Enclosed(n)
                /\ OpenedBy(n + 1) = OpenedBy(n)
<1>1. ASSUME doc[n].mark # "none"
      PROVE  (Enclosed(n + 1) <=> ~Enclosed(n)) /\ OpenedBy(n + 1) = n
    <2>1. FencesAbove(n + 1) = FencesAbove(n) \cup {n}
        BY <1>1, FencesGrow
    <2>2. /\ Cardinality(FencesAbove(n)) \in Nat
          /\ Cardinality(FencesAbove(n + 1)) = Cardinality(FencesAbove(n)) + 1
        BY <2>1, FencesGrow, FS_AddElement, FS_CardinalityType
    <2>3. Enclosed(n + 1) <=> ~Enclosed(n)
        BY <2>2 DEF Enclosed
    <2>4. \A m \in FencesAbove(n + 1) :
              (\A k \in FencesAbove(n + 1) : k <= m) <=> m = n
        BY <2>1, FencesGrow
    <2>5. OpenedBy(n + 1) = n
        BY <2>1, <2>4 DEF OpenedBy
    <2> QED
        BY <2>3, <2>5
<1>2. ASSUME doc[n].mark = "none"
      PROVE  /\ FencesAbove(n + 1) = FencesAbove(n)
             /\ Enclosed(n + 1) <=> Enclosed(n)
             /\ OpenedBy(n + 1) = OpenedBy(n)
    <2>0. {m \in {n} : doc[m].mark # "none"} = {}
        BY <1>2
    <2>1. FencesAbove(n + 1) = FencesAbove(n)
        BY <2>0, FencesGrow
    <2>2. (Enclosed(n + 1) <=> Enclosed(n)) /\ OpenedBy(n + 1) = OpenedBy(n)
        BY <2>1, Zenon DEF Enclosed, OpenedBy
    <2> QED
        BY <2>1, <2>2
<1> QED
    BY <1>1, <1>2

\* What is said of the document alone stays.
LEMMA DocStays ==
    ASSUME doc' = doc
    PROVE  /\ TicksOnly' <=> TicksOnly
           /\ \A n : FencesAbove(n)' = FencesAbove(n)
           /\ \A n : Enclosed(n)' <=> Enclosed(n)
           /\ \A n : OpenedBy(n)' = OpenedBy(n)
           /\ \A n : BlockLine(n)' <=> BlockLine(n)
           /\ \A m, n : SameBlock(m, n)' <=> SameBlock(m, n)
<1>1. TicksOnly' <=> TicksOnly
    BY DEF TicksOnly
<1>2. ASSUME NEW n PROVE FencesAbove(n)' = FencesAbove(n)
    BY DEF FencesAbove
<1>3. ASSUME NEW n PROVE Enclosed(n)' <=> Enclosed(n)
    BY <1>2, Zenon DEF Enclosed
<1>4. ASSUME NEW n PROVE OpenedBy(n)' = OpenedBy(n)
    BY <1>2, Zenon DEF OpenedBy
<1>5. ASSUME NEW n PROVE BlockLine(n)' <=> BlockLine(n)
    BY <1>3, <1>4, Zenon DEF BlockLine
<1>6. ASSUME NEW m, NEW n PROVE SameBlock(m, n)' <=> SameBlock(m, n)
    BY <1>2, <1>3, Zenon DEF SameBlock
<1> QED
    BY <1>1, <1>2, <1>3, <1>4, <1>5, <1>6, Zenon

-----------------------------------------------------------------------------
\* What a line can do to what is taken: nothing, end a block, or be taken.
Rests == /\ ~BlockLine(at) /\ ~IsFence
         /\ Enclosed(at) \/ line.indent \/ line.blank
         /\ UNCHANGED <<open, commands, passed, cut>>
Ends == ~BlockLine(at) /\ CloseBlock /\ UNCHANGED <<commands, passed>>
Passes == /\ BlockLine(at) /\ ~line.continues /\ open = <<>>
          /\ passed' = passed \cup {at} /\ UNCHANGED <<open, commands, cut>>
Continues == /\ BlockLine(at) /\ line.continues
             /\ open' = Append(open, at) /\ UNCHANGED <<commands, passed, cut>>
Judges == /\ BlockLine(at) /\ ~line.continues
          /\ commands' = commands \cup {Append(open, at)} /\ open' = <<>>
          /\ UNCHANGED <<passed, cut>>

\* Every line does one of these, and leaves cmdlint in step.
LEMMA Effect ==
    ASSUME Behind, TicksOnly, InStep, at <= Len(doc), ReadCommands
    PROVE  /\ fence' = IF Enclosed(at + 1) THEN "tick" ELSE "none"
           /\ Enclosed(at + 1) => shell' = doc[OpenedBy(at + 1)].shell
           /\ Rests \/ Ends \/ Passes \/ Continues \/ Judges
<1>1. /\ line.mark \in {"tick", "none"} /\ at \in Nat \ {0}
      /\ line.shell \in BOOLEAN /\ line.indent \in BOOLEAN
      /\ line.blank \in BOOLEAN /\ line.continues \in BOOLEAN
    BY LineTyped DEF Behind, TicksOnly, line, Marks
<1>2. /\ IsFence => (Enclosed(at + 1) <=> ~Enclosed(at)) /\ OpenedBy(at + 1) = at
      /\ ~IsFence => /\ Enclosed(at + 1) <=> Enclosed(at)
                     /\ OpenedBy(at + 1) = OpenedBy(at)
    BY <1>1, Enclosing DEF IsFence, line
<1>3. /\ fence = IF Enclosed(at) THEN "tick" ELSE "none"
      /\ Enclosed(at) => shell = doc[OpenedBy(at)].shell
    BY DEF InStep
<1>4. BlockLine(at) <=> /\ ~IsFence /\ ~line.blank
                        /\ IF Enclosed(at) THEN shell ELSE line.indent
    BY <1>3 DEF BlockLine, IsFence, line
<1>5. ASSUME UNCHANGED <<fence, shell>>, ~IsFence
      PROVE  /\ fence' = IF Enclosed(at + 1) THEN "tick" ELSE "none"
             /\ Enclosed(at + 1) => shell' = doc[OpenedBy(at + 1)].shell
    BY <1>2, <1>3, <1>5
<1>6. ASSUME NEW declared \in BOOLEAN, TakeLine(declared), BlockLine(at)
      PROVE  Passes \/ Continues \/ Judges
    BY <1>6, <1>1 DEF TakeLine, PassOver, Continue, Judge, Passes, Continues, Judges
<1>7. CASE OpenFence
    <2>1. IsFence /\ ~Enclosed(at) /\ line.mark = "tick"
        BY <1>7, <1>1, <1>3 DEF OpenFence, IsFence
    <2>2. fence' = "tick" /\ shell' = doc[at].shell /\ Ends
        BY <1>7, <1>4, <2>1 DEF OpenFence, Ends, line
    <2> QED
        BY <1>2, <2>1, <2>2
<1>8. CASE CloseFence
    <2>1. IsFence /\ Enclosed(at)
        BY <1>8, <1>1, <1>3 DEF CloseFence, IsFence
    <2>2. fence' = "none" /\ Ends
        BY <1>8, <1>4, <2>1 DEF CloseFence, Ends
    <2> QED
        BY <1>2, <2>1, <2>2
<1>9. CASE OtherFence
    BY <1>9, <1>1, <1>3 DEF OtherFence, IsFence
<1>10. CASE InFence
    <2>1. ~IsFence /\ Enclosed(at) /\ UNCHANGED <<fence, shell>>
        BY <1>10, <1>3 DEF InFence
    <2>2. CASE shell /\ ~line.blank /\ TakeLine(TRUE)
        BY <1>4, <1>5, <1>6, <2>1, <2>2
    <2>3. CASE (~shell \/ line.blank) /\ UNCHANGED <<open, commands, passed, cut>>
        BY <1>4, <1>5, <2>1, <2>3 DEF Rests
    <2> QED
        BY <1>10, <2>2, <2>3 DEF InFence
<1>11. CASE InBlock
    <2>1. ~IsFence /\ ~Enclosed(at) /\ line.indent /\ UNCHANGED <<fence, shell>>
        BY <1>11, <1>3 DEF InBlock
    <2>2. CASE ~line.blank /\ TakeLine(FALSE)
        BY <1>4, <1>5, <1>6, <2>1, <2>2
    <2>3. CASE line.blank /\ UNCHANGED <<open, commands, passed, cut>>
        BY <1>4, <1>5, <2>1, <2>3 DEF Rests
    <2> QED
        BY <1>11, <2>2, <2>3 DEF InBlock
<1>12. CASE Between
    <2>1. ~IsFence /\ ~Enclosed(at) /\ ~line.indent /\ line.blank
        BY <1>12, <1>3 DEF Between
    <2>2. UNCHANGED <<fence, shell>> /\ UNCHANGED <<open, commands, passed, cut>>
        BY <1>12 DEF Between, commandVars
    <2> QED
        BY <1>4, <1>5, <2>1, <2>2 DEF Rests
<1>13. CASE AfterBlock
    <2>1. ~IsFence /\ ~Enclosed(at) /\ ~line.indent /\ UNCHANGED <<fence, shell>>
        BY <1>13, <1>3 DEF AfterBlock
    <2>2. Ends
        BY <1>13, <1>4, <2>1 DEF AfterBlock, Ends
    <2> QED
        BY <1>5, <2>1, <2>2
<1> QED
    BY <1>7, <1>8, <1>9, <1>10, <1>11, <1>12, <1>13 DEF ReadCommands

\* What stands above the line that is read next.
LEMMA AtNext ==
    ASSUME doc' = doc, at' = at + 1
    PROVE  /\ FencesAbove(at)' = FencesAbove(at + 1)
           /\ Enclosed(at)' <=> Enclosed(at + 1)
           /\ OpenedBy(at)' = OpenedBy(at + 1)
<1>1. FencesAbove(at)' = FencesAbove(at + 1)
    BY DEF FencesAbove
<1>2. (Enclosed(at)' <=> Enclosed(at + 1)) /\ OpenedBy(at)' = OpenedBy(at + 1)
    BY <1>1, Zenon DEF Enclosed, OpenedBy
<1> QED
    BY <1>1, <1>2

\* What the lines of the next step are, and what one more line has to say.
LEMMA NextLine ==
    ASSUME Behind, at <= Len(doc), doc' = doc, at' = at + 1
    PROVE  /\ at \in Nat \ {0} /\ at' \in Nat \ {0}
           /\ 1..(at' - 1) = 1..(at - 1) \cup {at} /\ at \notin 1..(at - 1)
           /\ \A c \in Taken : Of(c) \subseteq 1..(at - 1)
           /\ \A n : BlockLine(n)' <=> BlockLine(n)
           /\ \A m, n : SameBlock(m, n)' <=> SameBlock(m, n)
<1>1. at \in Nat \ {0}
    BY DEF Behind
<1>2. ASSUME NEW c \in Taken PROVE Of(c) \subseteq 1..(at - 1)
    <2>1. c \in Seq(1..(at - 1))
        BY <1>2 DEF Taken, Behind
    <2> QED
        BY <2>1, SeqElements DEF Of
<1> QED
    BY <1>1, <1>2, DocStays

\* The block goes on past a line that is no fence and does not end it.
LEMMA CurrentStays ==
    ASSUME Behind, at <= Len(doc), doc' = doc, at' = at + 1,
           ~IsFence, Enclosed(at) \/ line.indent \/ line.blank
    PROVE  /\ \A n \in 1..(at - 1) : Current(n) => Current(n)'
           /\ \A n : n = at => Current(n)'
<1>1. at \in Nat \ {0}
    BY DEF Behind
<1>2. FencesAbove(at + 1) = FencesAbove(at) /\ (Enclosed(at + 1) <=> Enclosed(at))
    BY <1>1, Enclosing DEF IsFence, line
<1>3. ASSUME NEW n \in 1..at, FencesAbove(n) = FencesAbove(at),
             Enclosed(at) \/ \A k \in n..at : doc[k].indent \/ doc[k].blank
      PROVE  Current(n)'
    <2>1. FencesAbove(n)' = FencesAbove(n) /\ FencesAbove(at)' = FencesAbove(at + 1)
          /\ (Enclosed(at)' <=> Enclosed(at + 1))
        BY DocStays, AtNext
    <2>2. FencesAbove(n)' = FencesAbove(at)' /\ (Enclosed(at)' <=> Enclosed(at))
        BY <1>2, <1>3, <2>1
    <2>3. at' - 1 = at
        BY <1>1
    <2> QED
        BY <1>3, <2>2, <2>3 DEF Current
<1>4. ASSUME NEW n \in 1..(at - 1), Current(n) PROVE Current(n)'
    <2>1. \A k \in n..at : k \in n..(at - 1) \/ k = at
        BY <1>1
    <2> QED
        BY <1>1, <1>3, <1>4, <2>1 DEF Current, line
<1>5. ASSUME NEW n, n = at PROVE Current(n)'
    <2>1. n \in 1..at /\ FencesAbove(n) = FencesAbove(at) /\ \A k \in n..at : k = at
        BY <1>1, <1>5
    <2> QED
        BY <1>3, <2>1 DEF line
<1> QED
    BY <1>4, <1>5

\* A line of a block is in the block of what is current.
LEMMA CurrentIs ==
    ASSUME Behind, at <= Len(doc), BlockLine(at)
    PROVE  /\ ~IsFence /\ (Enclosed(at) \/ line.indent)
           /\ \A n \in 1..(at - 1) : Current(n) => SameBlock(n, at)
           /\ SameBlock(at, at)
<1>1. at \in Nat \ {0}
    BY DEF Behind
<1>2. ~IsFence /\ (Enclosed(at) \/ line.indent)
    BY DEF BlockLine, IsFence, line
<1>3. ASSUME NEW n \in 1..(at - 1), Current(n) PROVE SameBlock(n, at)
    <2>1. FencesAbove(n) = FencesAbove(at)
        BY <1>3 DEF Current
    <2>2. Enclosed(n) <=> Enclosed(at)
        BY <2>1, Zenon DEF Enclosed
    <2>3. \A k \in n..at : k \in n..(at - 1) \/ k = at
        BY <1>1
    <2> QED
        BY <1>2, <1>3, <2>1, <2>2, <2>3 DEF Current, SameBlock, line
<1>4. SameBlock(at, at)
    BY <1>1, <1>2 DEF SameBlock, line
<1> QED
    BY <1>2, <1>3, <1>4

\* A line taken up is taken once, and into a command of its own block.
LEMMA TakenUp ==
    ASSUME Behind, TakenOnce, OfOneBlock, NoneLost, BlockLine(at), at <= Len(doc),
           doc' = doc, at' = at + 1, UNCHANGED <<passed, cut>>,
           Append(open, at) \in Taken', commands \subseteq commands',
           \A c \in Taken' : c \in commands \cup cut \/ c = Append(open, at) \/ c = <<>>
    PROVE  /\ TakenOnce'
           /\ \A c \in Taken' \ {<<>>} : SameBlock(c[1], c[Len(c)])'
           /\ \A n \in 1..(at - 1) : BlockLine(n) /\ doc[n].continues => Followed(n)'
           /\ Append(open, at) \notin commands \cup cut
           /\ \A n \in Of(Append(open, at)) : n = at \/ n \in Of(open)
           /\ Len(Append(open, at)) > 0 /\ Append(open, at)[Len(Append(open, at))] = at
<1> DEFINE more == Append(open, at)
<1>1. /\ at \in Nat \ {0} /\ 1..(at' - 1) = 1..(at - 1) \cup {at} /\ at \notin 1..(at - 1)
      /\ \A c \in Taken : Of(c) \subseteq 1..(at - 1)
      /\ \A n : BlockLine(n)' <=> BlockLine(n)
      /\ \A m, n : SameBlock(m, n)' <=> SameBlock(m, n)
    BY NextLine
<1>2. /\ open \in Seq(1..(at - 1)) /\ open \in Seq(Nat)
      /\ commands \cup cut \subseteq Taken /\ open \in Taken /\ <<>> \notin {more}
      /\ passed \subseteq 1..(at - 1)
    <2>1. open \in Seq(1..(at - 1)) /\ 1..(at - 1) \subseteq Nat
        BY <1>1 DEF Behind
    <2>2. open \in Seq(Nat)
        BY <2>1, SeqWidens
    <2>3. Len(more) = Len(open) + 1 /\ Len(<<>>) = 0 /\ Len(open) \in Nat
        BY <1>1, <2>2
    <2> QED
        BY <2>1, <2>2, <2>3 DEF Behind, Taken
<1>3. /\ Of(more) = Of(open) \cup {at}
      /\ Len(more) = Len(open) + 1 /\ more[Len(more)] = at
      /\ more[1] = IF open = <<>> THEN at ELSE open[1]
      /\ open # <<>> => open[1] \in Of(open) /\ open[Len(open)] \in Of(open)
    <2>1. /\ DOMAIN more = DOMAIN open \cup {Len(open) + 1}
          /\ \A k \in DOMAIN open : more[k] = open[k]
          /\ more[Len(open) + 1] = at /\ Len(more) = Len(open) + 1
        BY <1>1, <1>2
    <2>2. Of(more) = Of(open) \cup {at}
        BY <2>1 DEF Of
    <2>3. open # <<>> => 1 \in DOMAIN open /\ Len(open) \in DOMAIN open
        BY <1>2
    <2>4. open = <<>> => Len(open) + 1 = 1
        BY <1>2
    <2> QED
        BY <2>1, <2>2, <2>3, <2>4 DEF Of
<1>4. at \notin Of(open) /\ \A c \in commands \cup cut : at \notin Of(c)
    BY <1>1, <1>2
<1>5. more \notin commands \cup cut
    BY <1>3, <1>4
<1>6. Of(<<>>) = {}
    BY DEF Of
<1> HIDE DEF more
<1>7. \A c \in Taken' : \A n \in Of(c) : c \in commands \cup cut \/ c = more
    BY <1>6 DEF more
<1>8. more \in Taken' /\ commands \cup cut \subseteq Taken'
    BY DEF more, Taken
<1>9. \A c : Of(c)' = Of(c)
    BY DEF Of
<1>10. TakenOnce'
    <2>1. \A n \in passed : BlockLine(n)
        BY DEF TakenOnce
    <2>2. ASSUME NEW c \in Taken', NEW n \in Of(c) PROVE BlockLine(n) /\ n \notin passed
        <3>1. CASE c \in commands \cup cut \/ n \in Of(open)
            BY <1>2, <3>1, <2>2 DEF TakenOnce
        <3>2. CASE n = at
            BY <1>1, <1>2, <3>2
        <3> QED
            BY <1>3, <1>7, <2>2, <3>1, <3>2 DEF more
    <2>3. ASSUME NEW c \in Taken', NEW d \in Taken', NEW n \in Of(c), n \in Of(d)
          PROVE  c = d
        <3>1. ASSUME NEW e \in commands \cup cut, n \in Of(e) PROVE n \notin Of(more)
            <4>1. n # at
                BY <1>4, <3>1
            <4>2. n \notin Of(open)
                <5> SUFFICES ASSUME n \in Of(open) PROVE FALSE
                    OBVIOUS
                <5>1. e = open
                    BY <1>2, <3>1 DEF TakenOnce
                <5>2. open # <<>>
                    BY <1>6
                <5> QED
                    BY <3>1, <5>1, <5>2 DEF OfOneBlock
            <4> QED
                BY <1>3, <4>1, <4>2 DEF more
        <3>2. ASSUME c \in commands \cup cut, d \in commands \cup cut PROVE c = d
            BY <1>2, <2>3, <3>2 DEF TakenOnce
        <3> QED
            BY <1>7, <2>3, <3>1, <3>2
    <2>4. ASSUME NEW n \in 1..(at' - 1), BlockLine(n)
          PROVE  n \in passed \/ \E c \in Taken' : n \in Of(c)
        <3>1. CASE n = at
            BY <1>3, <1>8, <3>1 DEF more
        <3>2. CASE n \in 1..(at - 1)
            <4>1. n \in passed \/ \E c \in Taken : n \in Of(c)
                BY <2>4, <3>2 DEF TakenOnce
            <4>2. \A c \in Taken : c \in commands \cup cut \/ c = open
                BY DEF Taken
            <4>3. Of(open) \subseteq Of(more)
                BY <1>3 DEF more
            <4> QED
                BY <1>8, <4>1, <4>2, <4>3
        <3> QED
            BY <1>1, <2>4, <3>1, <3>2
    <2> QED
        BY <1>1, <1>9, <2>1, <2>2, <2>3, <2>4 DEF TakenOnce
<1>11. ASSUME NEW c \in Taken' \ {<<>>} PROVE SameBlock(c[1], c[Len(c)])'
    <2>1. CASE c \in commands \cup cut
        BY <1>1, <1>2, <1>11, <2>1 DEF OfOneBlock
    <2>2. CASE c = more
        <3>1. SameBlock(at, at)
            BY CurrentIs
        <3>2. open # <<>> => SameBlock(open[1], at)
            BY <1>1, <1>2, <1>3, CurrentIs DEF OfOneBlock
        <3>3. SameBlock(more[1], more[Len(more)])
            BY <1>3, <3>1, <3>2 DEF more
        <3> QED
            BY <1>1, <2>2, <3>3
    <2> QED
        BY <1>11, <2>1, <2>2 DEF more
<1>12. ASSUME NEW n \in 1..(at - 1), BlockLine(n), doc[n].continues PROVE Followed(n)'
    <2>1. ASSUME NEW m \in (n + 1)..(at' - 1), BlockLine(m), SameBlock(n, m) PROVE Followed(n)'
        BY <1>1, <2>1 DEF Followed
    <2>2. CASE \E m \in (n + 1)..(at - 1) : BlockLine(m) /\ SameBlock(n, m)
        <3>1. (n + 1)..(at - 1) \subseteq (n + 1)..(at' - 1)
            BY <1>1
        <3> QED
            BY <2>1, <2>2, <3>1
    <2>3. CASE \E c \in cut : c[Len(c)] = n
        BY <2>3 DEF Followed
    <2>4. CASE open # <<>> /\ open[Len(open)] = n
        <3>1. SameBlock(n, at)
            BY <1>1, <1>2, <1>3, <2>4, CurrentIs DEF OfOneBlock
        <3>2. at \in (n + 1)..(at' - 1)
            BY <1>1
        <3> QED
            BY <2>1, <3>1, <3>2
    <2> QED
        BY <1>12, <2>2, <2>3, <2>4 DEF NoneLost, Followed
<1> QED
    BY <1>2, <1>3, <1>5, <1>10, <1>11, <1>12 DEF more

\* Taken together: a line read leaves everything behind it accounted for.
LEMMA LineCounts ==
    ASSUME Behind, TakenOnce, OfOneBlock, NoneLost, at <= Len(doc), doc' = doc, at' = at + 1,
           Rests \/ Ends \/ Passes \/ Continues \/ Judges
    PROVE  TakenOnce' /\ OfOneBlock' /\ NoneLost'
<1>1. /\ at \in Nat \ {0} /\ 1..(at' - 1) = 1..(at - 1) \cup {at} /\ at \notin 1..(at - 1)
      /\ \A c \in Taken : Of(c) \subseteq 1..(at - 1)
      /\ \A n : BlockLine(n)' <=> BlockLine(n)
      /\ \A m, n : SameBlock(m, n)' <=> SameBlock(m, n)
    BY NextLine
<1>2. /\ \A c : Of(c)' = Of(c)
      /\ Of(<<>>) = {}
    BY DEF Of
<1>3. \A m, n : m \in (n + 1)..(at - 1) /\ n \in 1..(at - 1) => m \in (n + 1)..(at' - 1)
    BY <1>1
<1>4. Of(open) \subseteq 1..(at - 1)
    BY <1>1 DEF Taken
<1>5. CASE Rests
    <2>1. UNCHANGED <<open, commands, passed, cut>> /\ Taken' = Taken /\ ~BlockLine(at)
        BY <1>5 DEF Rests, Taken
    <2>2. TakenOnce'
        BY <1>1, <1>2, <2>1 DEF TakenOnce
    <2>3. OfOneBlock'
        <3>1. \A n \in 1..(at - 1) : Current(n) => Current(n)'
            BY <1>5, CurrentStays DEF Rests
        <3>2. Of(open)' = Of(open)
            BY <2>1 DEF Of
        <3> QED
            BY <1>1, <1>4, <2>1, <3>1, <3>2 DEF OfOneBlock
    <2>4. NoneLost'
        BY <1>1, <1>3, <2>1 DEF NoneLost, Followed
    <2> QED
        BY <2>2, <2>3, <2>4
<1>6. CASE Ends
    <2>1. /\ open' = <<>> /\ cut' = cut \cup ({open} \ {<<>>}) /\ UNCHANGED <<commands, passed>>
          /\ ~BlockLine(at)
        BY <1>6 DEF Ends, CloseBlock
    <2>2. Taken' \ {<<>>} = Taken \ {<<>>} /\ <<>> \in Taken'
        BY <2>1 DEF Taken
    <2>3. TakenOnce'
        <3>1. ASSUME NEW c \in Taken', NEW n \in Of(c) PROVE c \in Taken
            BY <1>2, <2>2, <3>1
        <3>2. ASSUME NEW c \in Taken, NEW n \in Of(c) PROVE c \in Taken'
            BY <1>2, <2>2, <3>2
        <3> QED
            BY <1>1, <1>2, <2>1, <3>1, <3>2 DEF TakenOnce
    <2>4. OfOneBlock'
        <3>1. Of(open)' = {}
            BY <2>1 DEF Of
        <3> QED
            BY <1>1, <2>1, <2>2, <3>1 DEF OfOneBlock
    <2>5. NoneLost'
        BY <1>1, <1>3, <2>1 DEF NoneLost, Followed
    <2> QED
        BY <2>3, <2>4, <2>5
<1>7. CASE Passes
    <2>1. /\ open = <<>> /\ UNCHANGED <<open, commands, cut>> /\ Taken' = Taken
          /\ passed' = passed \cup {at} /\ BlockLine(at) /\ ~doc[at].continues
        BY <1>7 DEF Passes, Taken, line
    <2>2. TakenOnce'
        BY <1>1, <1>2, <2>1 DEF TakenOnce
    <2>3. OfOneBlock'
        <3>1. Of(open)' = {}
            BY <2>1 DEF Of
        <3> QED
            BY <1>1, <2>1, <3>1 DEF OfOneBlock
    <2>4. NoneLost'
        BY <1>1, <1>3, <2>1 DEF NoneLost, Followed
    <2> QED
        BY <2>2, <2>3, <2>4
<1>8. CASE Continues
    <2>1. /\ open' = Append(open, at) /\ UNCHANGED <<commands, passed, cut>> /\ BlockLine(at)
        BY <1>8 DEF Continues
    <2>2. Taken' = commands \cup cut \cup {Append(open, at)}
        BY <2>1 DEF Taken
    <2>3. /\ TakenOnce'
          /\ \A c \in Taken' \ {<<>>} : SameBlock(c[1], c[Len(c)])'
          /\ \A n \in 1..(at - 1) : BlockLine(n) /\ doc[n].continues => Followed(n)'
          /\ open' \notin commands \cup cut
          /\ \A n \in Of(open') : n = at \/ n \in Of(open)
          /\ Len(open') > 0 /\ open'[Len(open')] = at
        BY <2>1, <2>2, TakenUp
    <2>4. open' # <<>>
        BY <2>3
    <2>5. OfOneBlock'
        <3>1. \A n \in Of(open') : Current(n)'
            BY <1>4, <2>1, <2>3, CurrentIs, CurrentStays DEF OfOneBlock
        <3>2. Of(open)' = Of(open')
            BY DEF Of
        <3> QED
            BY <2>1, <2>3, <3>1, <3>2 DEF OfOneBlock
    <2>6. NoneLost'
        <3>1. \A n : n = at => Followed(n)'
            BY <2>3, <2>4 DEF Followed
        <3> QED
            BY <1>1, <2>3, <3>1 DEF NoneLost
    <2> QED
        BY <2>3, <2>5, <2>6
<1>9. CASE Judges
    <2>1. /\ open' = <<>> /\ commands' = commands \cup {Append(open, at)}
          /\ UNCHANGED <<passed, cut>> /\ BlockLine(at) /\ ~doc[at].continues
        BY <1>9 DEF Judges, line
    <2>2. Taken' = commands \cup cut \cup {Append(open, at), <<>>}
        BY <2>1 DEF Taken
    <2>3. /\ TakenOnce'
          /\ \A c \in Taken' \ {<<>>} : SameBlock(c[1], c[Len(c)])'
          /\ \A n \in 1..(at - 1) : BlockLine(n) /\ doc[n].continues => Followed(n)'
        BY <2>1, <2>2, TakenUp
    <2>4. OfOneBlock'
        <3>1. Of(open)' = {}
            BY <2>1 DEF Of
        <3> QED
            BY <2>1, <2>3, <3>1 DEF OfOneBlock
    <2>5. NoneLost'
        BY <1>1, <2>1, <2>3 DEF NoneLost
    <2> QED
        BY <2>3, <2>4, <2>5
<1> QED
    BY <1>5, <1>6, <1>7, <1>8, <1>9

\* Before the first line nothing is above and nothing is taken.
LEMMA InitCounts == Init => Counted
<1> SUFFICES ASSUME Init PROVE InStep /\ TakenOnce /\ OfOneBlock /\ NoneLost
    BY DEF Counted
<1>1. /\ doc \in Seq(Lines) /\ at = 1 /\ ended = FALSE /\ fence = "none" /\ open = <<>>
      /\ passed = {} /\ Taken = {<<>>} /\ cut = {}
    BY DocumentsAssumption DEF Init, Taken
<1>2. ~Enclosed(at) /\ at <= Len(doc) + 1
    <2>1. FencesAbove(at) = {}
        BY <1>1 DEF FencesAbove
    <2>2. Len(doc) \in Nat
        BY <1>1
    <2> QED
        BY <1>1, <2>1, <2>2, FS_EmptySet DEF Enclosed
<1>3. Of(<<>>) = {} /\ 1..(at - 1) = {}
    BY <1>1 DEF Of
<1>4. InStep
    BY <1>1, <1>2 DEF InStep
<1>5. TakenOnce
    BY <1>1, <1>3 DEF TakenOnce
<1>6. OfOneBlock
    BY <1>1, <1>3 DEF OfOneBlock
<1>7. NoneLost
    BY <1>3 DEF NoneLost
<1> QED
    BY <1>4, <1>5, <1>6, <1>7

\* A line read keeps the count.
LEMMA ReadLineCounts ==
    ASSUME Behind, Counted, ReadLine
    PROVE  Counted'
<1>1. /\ at <= Len(doc) /\ ReadCommands /\ at' = at + 1 /\ doc' = doc /\ ended' = ended
    BY DEF ReadLine
<1> SUFFICES ASSUME TicksOnly PROVE (InStep /\ TakenOnce /\ OfOneBlock /\ NoneLost)'
    BY <1>1, DocStays DEF Counted
<1>2. InStep /\ TakenOnce /\ OfOneBlock /\ NoneLost
    BY DEF Counted
<1>3. /\ fence' = IF Enclosed(at + 1) THEN "tick" ELSE "none"
      /\ Enclosed(at + 1) => shell' = doc[OpenedBy(at + 1)].shell
      /\ Rests \/ Ends \/ Passes \/ Continues \/ Judges
    BY <1>1, <1>2, Effect
<1>4. InStep'
    <2>1. ~ended /\ at' <= Len(doc') + 1
        <3>1. at \in Nat /\ Len(doc) \in Nat
            BY DEF Behind
        <3> QED
            BY <1>1, <1>2, <3>1 DEF InStep
    <2>2. (Enclosed(at)' <=> Enclosed(at + 1)) /\ OpenedBy(at)' = OpenedBy(at + 1)
        BY <1>1, AtNext
    <2> QED
        BY <1>1, <1>3, <2>1, <2>2 DEF InStep
<1> QED
    BY <1>1, <1>2, <1>3, <1>4, LineCounts

\* So does the end of the document, which leaves no command open.
LEMMA EndCounts ==
    ASSUME Behind, Counted, EndOfDocument
    PROVE  Counted'
<1>1. /\ UNCHANGED <<doc, at, fence, shell, commands, passed>> /\ at > Len(doc)
      /\ open' = <<>> /\ cut' = cut \cup ({open} \ {<<>>})
    BY DEF EndOfDocument, CloseBlock
<1> SUFFICES ASSUME TicksOnly PROVE (InStep /\ TakenOnce /\ OfOneBlock /\ NoneLost)'
    BY <1>1, DocStays DEF Counted
<1>2. InStep /\ TakenOnce /\ OfOneBlock /\ NoneLost
    BY DEF Counted
<1>3. /\ \A n : BlockLine(n)' <=> BlockLine(n)
      /\ \A m, n : SameBlock(m, n)' <=> SameBlock(m, n)
      /\ \A c : Of(c)' = Of(c)
      /\ Of(<<>>) = {} /\ Of(open)' = {}
    BY <1>1, DocStays DEF Of
<1>4. Taken' \ {<<>>} = Taken \ {<<>>} /\ <<>> \in Taken'
    BY <1>1 DEF Taken
<1>5. InStep'
    <2>1. (Enclosed(at)' <=> Enclosed(at)) /\ OpenedBy(at)' = OpenedBy(at)
        BY <1>1 DEF Enclosed, OpenedBy, FencesAbove
    <2> QED
        BY <1>1, <1>2, <2>1 DEF InStep
<1>6. TakenOnce'
    <2>1. ASSUME NEW c \in Taken', NEW n \in Of(c) PROVE c \in Taken
        BY <1>3, <1>4, <2>1
    <2>2. ASSUME NEW c \in Taken, NEW n \in Of(c) PROVE c \in Taken'
        BY <1>3, <1>4, <2>2
    <2> QED
        BY <1>1, <1>2, <1>3, <2>1, <2>2 DEF TakenOnce
<1>7. OfOneBlock'
    BY <1>1, <1>2, <1>3, <1>4 DEF OfOneBlock
<1>8. NoneLost'
    BY <1>1, <1>2, <1>3 DEF NoneLost, Followed
<1> QED
    BY <1>5, <1>6, <1>7, <1>8

\* Nothing but a line or the end changes what is counted.
LEMMA StillCounts ==
    ASSUME Counted, UNCHANGED vars
    PROVE  Counted'
<1>1. UNCHANGED <<doc, at, ended, fence, shell, open, commands, passed, cut>>
    BY DEF vars, docVars, commandVars
<1>2. /\ TicksOnly' <=> TicksOnly
      /\ \A n : BlockLine(n)' <=> BlockLine(n)
      /\ \A m, n : SameBlock(m, n)' <=> SameBlock(m, n)
      /\ \A n : FencesAbove(n)' = FencesAbove(n)
    BY <1>1, DocStays
<1>3. FencesAbove(at)' = FencesAbove(at) /\ (Enclosed(at)' <=> Enclosed(at)) /\ OpenedBy(at)' = OpenedBy(at)
    BY <1>1 DEF Enclosed, OpenedBy, FencesAbove
<1>4. Taken' = Taken /\ (\A c : Of(c)' = Of(c)) /\ Of(open)' = Of(open)
    BY <1>1 DEF Taken, Of
<1>5. \A n : Current(n)' <=> Current(n)
    BY <1>1, <1>2, <1>3 DEF Current
<1>6. InStep' <=> InStep
    BY <1>1, <1>3 DEF InStep
<1>7. TakenOnce' <=> TakenOnce
    BY <1>1, <1>2, <1>4 DEF TakenOnce
<1>8. OfOneBlock' <=> OfOneBlock
    BY <1>1, <1>2, <1>4, <1>5 DEF OfOneBlock
<1>9. NoneLost' <=> NoneLost
    BY <1>1, <1>2 DEF NoneLost, Followed
<1> QED
    BY <1>2, <1>6, <1>7, <1>8, <1>9 DEF Counted

\* What cmdlint takes is accounted for throughout.
LEMMA CountInvariant == Spec => []Counted
<1>1. Behind /\ Counted /\ [Next]_vars => Counted'
    BY ReadLineCounts, EndCounts, StillCounts DEF Next
<1> QED
    BY <1>1, InitCounts, Invariant, PTL DEF Spec

\* Whatever the document, if its fences are all backticks every line of a block
\* behind is in exactly one command or is passed over, no other line is in
\* either, and no command reaches from one block into the next.
THEOREM EveryBlockLineIsAccounted == Spec => []EveryBlockLineAccounted
<1>1. Behind /\ Counted => EveryBlockLineAccounted
    <2> SUFFICES ASSUME Behind, Counted, TicksOnly
                 PROVE  /\ \A n \in 1..(at - 1) :
                               Cardinality({c \in Taken : n \in Of(c)})
                                   + (IF n \in passed THEN 1 ELSE 0)
                                   = IF BlockLine(n) THEN 1 ELSE 0
                        /\ \A c \in Taken \ {<<>>} : SameBlock(c[1], c[Len(c)])
        BY DEF EveryBlockLineAccounted
    <2>1. TakenOnce /\ OfOneBlock
        BY DEF Counted
    <2>2. ASSUME NEW n \in 1..(at - 1)
          PROVE  Cardinality({c \in Taken : n \in Of(c)}) + (IF n \in passed THEN 1 ELSE 0)
                     = IF BlockLine(n) THEN 1 ELSE 0
        <3>1. CASE \A c \in Taken : n \notin Of(c)
            <4>1. Cardinality({c \in Taken : n \in Of(c)}) = 0
                <5>1. {c \in Taken : n \in Of(c)} = {}
                    BY <3>1
                <5> QED
                    BY <5>1, FS_EmptySet
            <4>2. n \in passed <=> BlockLine(n)
                BY <2>1, <3>1 DEF TakenOnce
            <4> QED
                BY <4>1, <4>2
        <3>2. ASSUME NEW c \in Taken, n \in Of(c)
              PROVE  Cardinality({d \in Taken : n \in Of(d)}) + (IF n \in passed THEN 1 ELSE 0)
                         = IF BlockLine(n) THEN 1 ELSE 0
            <4>1. Cardinality({d \in Taken : n \in Of(d)}) = 1
                <5>1. {d \in Taken : n \in Of(d)} = {c}
                    BY <2>1, <3>2 DEF TakenOnce
                <5> QED
                    BY <5>1, FS_Singleton
            <4>2. n \notin passed /\ BlockLine(n)
                BY <2>1, <3>2 DEF TakenOnce
            <4> QED
                BY <4>1, <4>2
        <3> QED
            BY <3>1, <3>2
    <2> QED
        BY <2>1, <2>2 DEF OfOneBlock
<1> QED
    BY <1>1, Invariant, CountInvariant, PTL

\* Whatever the document, if its fences are all backticks a line that continues
\* is followed by a line of its own block or refused by the time cmdlint is done.
THEOREM CutOffIsAlwaysRefused == Spec => []CutOffIsRefused
<1>1. Behind /\ Counted => CutOffIsRefused
    <2> SUFFICES ASSUME Behind, Counted, TicksOnly, ended,
                        NEW n \in DOMAIN doc, BlockLine(n), doc[n].continues
                 PROVE  \/ \E m \in (n + 1)..Len(doc) : BlockLine(m) /\ SameBlock(n, m)
                        \/ \E c \in cut : c[Len(c)] = n
        BY DEF CutOffIsRefused
    <2>1. InStep /\ NoneLost
        BY DEF Counted
    <2>2. at > Len(doc) /\ open = <<>>
        BY <2>1 DEF InStep
    <2>3. n \in 1..(at - 1) /\ at - 1 = Len(doc)
        BY <2>1, <2>2 DEF Behind, InStep
    <2>4. Followed(n)
        BY <2>1, <2>3 DEF NoneLost
    <2> QED
        BY <2>2, <2>3, <2>4 DEF Followed
<1> QED
    BY <1>1, Invariant, CountInvariant, PTL

=============================================================================
