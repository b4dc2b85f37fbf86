-------------------------- MODULE RuntimeContract --------------------------
(***************************************************************************)
(* What a caller of the Runtime interface in internal/runtime/runtime.go is  *)
(* promised of one Generate, whoever implements it: the text reaches the     *)
(* sink before the return and never after it, and the way a call ended can   *)
(* be told from what it returned.  The promises are the ones the cases of    *)
(* internal/runtime/contract/contract.go refuse an adapter for breaking.     *)
(***************************************************************************)
EXTENDS Naturals

CONSTANTS
    Calls,        \* the generations made on one runtime
    Bounds        \* the values MaxOutputTokens takes in them

VARIABLES
    ctx,          \* each call's context: "live", or why it ended
    stage,        \* "idle", "open" while the call runs, "returned"
    bound,        \* the call's MaxOutputTokens
    told,         \* how many chunks the sink has taken
    answer        \* what the call returned

contractVars == <<ctx, stage, bound, told, answer>>

None == "none"          \* the zero value of a reason, an error or a name

Endings == {"canceled", "deadline"}
Kinds == {"unreachable", "refused", "over-limit", "malformed"}

\* A result says why the answer stopped and what it cost; err is the kind of
\* the failure, the context's own error, or "sink" for the sink's.
Unanswered == [finish |-> None, tokens |-> 0, err |-> None]
Failure(e) == [finish |-> None, tokens |-> 0, err |-> e]

Init ==
    /\ ctx = [c \in Calls |-> "live"]
    /\ stage = [c \in Calls |-> "idle"]
    /\ bound = [c \in Calls |-> 0]
    /\ told = [c \in Calls |-> 0]
    /\ answer = [c \in Calls |-> Unanswered]

EndContext(c) ==
    /\ ctx[c] = "live"
    /\ \E why \in Endings : ctx' = [ctx EXCEPT ![c] = why]
    /\ UNCHANGED <<stage, bound, told, answer>>

Open(c) ==
    /\ stage[c] = "idle"
    /\ stage' = [stage EXCEPT ![c] = "open"]
    /\ \E b \in Bounds : bound' = [bound EXCEPT ![c] = b]
    /\ UNCHANGED <<ctx, told, answer>>

\* A chunk is handed over while the answer is being produced.
Deliver(c) ==
    /\ stage[c] = "open"
    /\ told[c] < bound[c]
    /\ told' = [told EXCEPT ![c] = @ + 1]
    /\ UNCHANGED <<ctx, stage, bound, answer>>

Return(c, a) ==
    /\ stage[c] = "open"
    /\ stage' = [stage EXCEPT ![c] = "returned"]
    /\ answer' = [answer EXCEPT ![c] = a]
    /\ UNCHANGED <<ctx, bound, told>>

\* The engine stopped on its own, or the bound was reached, and says which.
Complete(c) ==
    /\ told[c] > 0
    /\ Return(c, [finish |-> "complete", tokens |-> told[c], err |-> None])

StopAtBound(c) ==
    /\ told[c] > 0 /\ told[c] = bound[c]
    /\ Return(c, [finish |-> "output-limit", tokens |-> told[c], err |-> None])

\* The context ended first: what was produced, and the context's own error.
Cancel(c) ==
    /\ ctx[c] # "live"
    /\ Return(c, [finish |-> "cancelled", tokens |-> told[c], err |-> ctx[c]])

\* The sink refused a chunk: the call is over, with the sink's own error.
SinkRefuses(c) == Return(c, Failure("sink"))

\* A request that did not fit, that was declined or that reached no engine
\* produced nothing; a stream that stopped part way is malformed.  None of
\* them leaves a result behind.
Fail(c) ==
    \/ told[c] = 0 /\ \E k \in Kinds : Return(c, Failure(k))
    \/ Return(c, Failure("malformed"))
    \/ ctx[c] # "live" /\ told[c] = 0 /\ Return(c, Failure(ctx[c]))

Next ==
    \E c \in Calls :
        \/ EndContext(c) \/ Open(c) \/ Deliver(c) \/ Complete(c) \/ StopAtBound(c)
        \/ Cancel(c) \/ SinkRefuses(c) \/ Fail(c)

Spec == Init /\ [][Next]_contractVars

=============================================================================
