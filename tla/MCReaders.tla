----------------------------- MODULE MCReaders ------------------------------
(* Every document of at most five lines of the kinds that make blocks, four  *)
(* of those that make shapes, and three of all.                              *)
EXTENDS Readers

Text == [mark |-> "none", shell |-> FALSE, indent |-> FALSE, blank |-> FALSE,
         continues |-> FALSE, level |-> 0, closed |-> FALSE, under |-> FALSE, item |-> "none"]
Blank == [Text EXCEPT !.blank = TRUE]
Tick == [Text EXCEPT !.mark = "tick"]
Shell == [Tick EXCEPT !.shell = TRUE]
Tilde == [Text EXCEPT !.mark = "tilde"]
Command == [Text EXCEPT !.indent = TRUE]
Continued == [Command EXCEPT !.continues = TRUE]
Half == [Text EXCEPT !.continues = TRUE]
Top == [Text EXCEPT !.level = 1]
Deep == [Text EXCEPT !.level = 3, !.closed = TRUE]
Rule == [Text EXCEPT !.under = TRUE]
Star == [Text EXCEPT !.item = "loose"]

BlockLines == {Text, Blank, Tick, Shell, Command, Continued}
ShapeLines == {Text, Blank, Tick, Tilde, Command, Top, Rule}
AllLines == BlockLines \cup ShapeLines \cup {Half, Deep, Star}

UpTo(n, S) == UNION {[1..k -> S] : k \in 1..n}

MCDocuments == UpTo(5, BlockLines) \cup UpTo(4, ShapeLines) \cup UpTo(3, AllLines)

=============================================================================
