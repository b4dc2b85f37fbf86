---------------------------- MODULE MCLinkCheck -----------------------------
(* Three documents: an address met twice, one met in two documents, and one *)
(* that only a block shows; listed in the order of git, and in another.     *)
EXTENDS LinkCheck

CONSTANTS here, there, shown, local

Prose(targets) == [mark |-> "prose", targets |-> targets]
Fence == [mark |-> "fence", targets |-> <<>>]

Guide == [name |-> 1, lines |-> <<Prose(<<here, local>>), Fence, Prose(<<shown>>), Fence, Prose(<<there, here>>)>>]
Notes == [name |-> 2, lines |-> <<Prose(<<there>>), [mark |-> "indented", targets |-> <<shown>>]>>]

MCTrees == {<<>>, <<Guide, Notes>>, <<Notes, Guide>>, <<Notes>>, <<[name |-> 3, lines |-> <<Fence>>]>>}
MCBudgets == {0, 1, 2}

=============================================================================
