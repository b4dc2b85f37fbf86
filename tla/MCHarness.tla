------------------------------ MODULE MCHarness -----------------------------
(* Two cases of a suite with two requirements, registered early, one of which *)
(* may turn to its harness last, and one of a suite registered by its case.   *)
EXTENDS Harness

CONSTANTS c1, c2, c3, r1, r2

MCSuiteOf == [c \in Cases |-> IF c = c3 THEN "identity" ELSE "engine"]
MCNeeds == [s \in Suites |-> IF s = "engine" THEN <<r1, r2>> ELSE <<r1>>]

MCPrograms ==
    {[c \in Cases |->
        IF c = c3 THEN <<"register", "start">>
        ELSE IF c = c2 THEN second ELSE <<"start", "body">>] :
            second \in {<<"start", "body">>, <<"body", "start">>}}

=============================================================================
