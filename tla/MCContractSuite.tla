-------------------------- MODULE MCContractSuite ---------------------------
(* A subject that arranges everything, one with an excuse, one without       *)
(* embeddings, one that comes back with no adapter, and those that the suite *)
(* does not take.                                                            *)
EXTENDS ContractSuite

Whole == [named |-> TRUE, supplies |-> TRUE, declares |-> TRUE, embeddings |-> TRUE,
          arranged |-> TRUE, cannot |-> [c \in {} |-> 0]]
Excused == [Whole EXCEPT !.cannot = [malformed |-> 3, refusing |-> 2]]

MCSubjects ==
    {Whole, Excused, [Whole EXCEPT !.embeddings = FALSE], [Whole EXCEPT !.arranged = FALSE],
     [Whole EXCEPT !.cannot = [healthy |-> 4]], [Whole EXCEPT !.cannot = [refusing |-> 1]],
     [Whole EXCEPT !.cannot = [flaky |-> 2]], [Whole EXCEPT !.named = FALSE],
     [Whole EXCEPT !.declares = FALSE]}

=============================================================================
