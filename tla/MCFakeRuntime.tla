--------------------------- MODULE MCFakeRuntime ---------------------------
(* The fake with a declaration of two dimensions, three-word answers, one    *)
(* misbehaviour at a time and, beside them, two that New refuses.            *)
EXTENDS FakeRuntime

MCDeclared == [model |-> "declared", context |-> 2, embeddings |-> TRUE, dimension |-> 2]

Behaves == [unreachable |-> FALSE, refuse |-> FALSE, hang |-> FALSE, chunks |-> 0,
            overLimit |-> FALSE, dimension |-> 0, model |-> None]

MCBehaviours ==
    {Behaves,
     [Behaves EXCEPT !.unreachable = TRUE],
     [Behaves EXCEPT !.refuse = TRUE],
     [Behaves EXCEPT !.hang = TRUE],
     [Behaves EXCEPT !.overLimit = TRUE]}
    \cup {[Behaves EXCEPT !.chunks = n] : n \in {-1, 1, 2, 3}}
    \cup {[Behaves EXCEPT !.dimension = n] : n \in {-1, 1, 2, 3}}
    \cup {[Behaves EXCEPT !.model = m] : m \in {"declared", "another"}}

Asks == [op |-> "generate", messages |-> 1, known |-> TRUE, bound |-> 3, input |-> 1, texts |-> 0]

MCRequests ==
    {[Asks EXCEPT !.bound = b] : b \in {0, 1, 2, 3, 4}}
    \cup {[Asks EXCEPT !.messages = 0], [Asks EXCEPT !.known = FALSE], [Asks EXCEPT !.input = 3]}
    \cup {[Asks EXCEPT !.op = "embed", !.texts = n] : n \in {0, 2}}
    \cup {[Asks EXCEPT !.op = "capabilities"]}

\* A bound below the answer, so that a generation may end in every way.
MCOneGenerate == {[Asks EXCEPT !.bound = 2]}

=============================================================================
