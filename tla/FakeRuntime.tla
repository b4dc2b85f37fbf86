---------------------------- MODULE FakeRuntime ----------------------------
(***************************************************************************)
(* internal/runtime/fake: one fake engine driven from several goroutines.    *)
(* Every call runs in its own goroutine under its own context, which its     *)
(* caller may cancel and whose deadline may pass between any two steps; what *)
(* the calls share is the count of cancelled generations, behind a mutex.    *)
(*                                                                         *)
(* A message is reduced to what a guard reads: how many there are, whether   *)
(* every role is known, and how many tokens they hold.  The digest that      *)
(* chooses the words is left out: an answer is AnswerWords words long.       *)
(***************************************************************************)
EXTENDS Integers, FiniteSets

CONSTANTS
    Calls,         \* the calls made, each in a goroutine of its own
    Observers,     \* goroutines that ask Cancellations, again and again
    Free,          \* the mutex when nobody holds it
    Requests,      \* what a call may ask
    Behaviours,    \* the misbehaviours New may be handed
    Declared,      \* the capabilities New is handed
    AnswerWords    \* answerWords, the length of an unbounded answer

None == "none"     \* the empty string: no reason, no error, no name set

ASSUME ActorsAssumption ==
    /\ IsFiniteSet(Calls)
    /\ Calls \cap Observers = {}
    /\ Free \notin Calls \cup Observers

ASSUME RequestsAssumption ==
    Requests \subseteq [op : {"generate", "embed", "capabilities"}, messages : Nat,
                        known : BOOLEAN, bound : Int, input : Nat, texts : Nat]

ASSUME BehavioursAssumption ==
    Behaviours \subseteq [unreachable : BOOLEAN, refuse : BOOLEAN, hang : BOOLEAN,
                          chunks : Int, overLimit : BOOLEAN, dimension : Int, model : STRING]

\* What Capabilities.Validate asks of a declaration before New takes it.
ASSUME DeclaredAssumption ==
    /\ Declared \in [model : STRING \ {None}, context : Nat \ {0}, embeddings : BOOLEAN,
                     dimension : Nat]
    /\ Declared.embeddings <=> Declared.dimension > 0

ASSUME AnswerWordsAssumption == AnswerWords \in Nat \ {0}

VARIABLES
    behaviour,     \* what this engine does wrong, fixed by New
    mu, cancelled, \* the mutex and the count behind it
    ctx,           \* each call's context: "live", or why it ended
    pc, req,       \* where each call is and what it asked
    at,            \* the index of the loop over words or texts
    out,           \* OutputTokens: the chunks the sink has taken
    tmp,           \* the value r.cancelled++ has loaded
    result, err,   \* what a call returned
    opc, seen,     \* where each observer is, what Cancellations told it
    before         \* the calls that had come back cancelled when it asked

engine == <<behaviour, mu, cancelled>>
callVars == <<pc, req, at, out, tmp, result, err>>
obsVars == <<opc, seen, before>>
vars == <<engine, ctx, callVars, obsVars>>

Endings == {"canceled", "deadline"}
Finishes == {"complete", "output-limit", "cancelled"}

\* A failure carries its kind and what it wraps; the context's own error and
\* the sink's are returned bare.
NoError == [kind |-> None, cause |-> None]
Failed(kind) == [kind |-> kind, cause |-> None]
ContextError(c) == [kind |-> "context", cause |-> ctx[c]]
Errors == [kind : {None, "context", "sink", "unreachable", "refused", "over-limit", "malformed"},
           cause : Endings \cup {None}]

NoResult == [finish |-> None, tokens |-> 0, model |-> None, vectors |-> 0, dimension |-> 0]

NoRequest == [op |-> "none", messages |-> 0, known |-> FALSE, bound |-> 0, input |-> 0,
              texts |-> 0]

\* The model identifier the engine reports, and the dimension it embeds at.
Serving == IF behaviour.model # None THEN behaviour.model ELSE Declared.model
Dimension == IF behaviour.dimension # 0 THEN behaviour.dimension ELSE Declared.dimension

\* The answer is cut to the bound the request set.
Words(c) == IF AnswerWords > req[c].bound THEN req[c].bound ELSE AnswerWords

-----------------------------------------------------------------------------
(* New refuses a misbehaviour that is not one. *)

\* Plausible slip: an answer of AnswerWords words survives that many chunks.
NewAcceptsOffByOne(b) ==
    /\ b.chunks >= 0 /\ b.chunks <= AnswerWords
    /\ b.dimension >= 0
    /\ b.dimension # 0 => b.dimension # Declared.dimension
    /\ b.model # None => b.model # Declared.model

NewAccepts(b) ==
    /\ b.chunks >= 0 /\ b.chunks < AnswerWords
    /\ b.dimension >= 0
    /\ b.dimension # 0 => b.dimension # Declared.dimension
    /\ b.model # None => b.model # Declared.model

Accepted == {b \in Behaviours : NewAccepts(b)}

Init ==
    /\ behaviour \in Accepted
    /\ mu = Free
    /\ cancelled = 0
    /\ ctx = [c \in Calls |-> "live"]
    /\ pc = [c \in Calls |-> "idle"]
    /\ req = [c \in Calls |-> NoRequest]
    /\ at = [c \in Calls |-> 0]
    /\ out = [c \in Calls |-> 0]
    /\ tmp = [c \in Calls |-> 0]
    /\ result = [c \in Calls |-> NoResult]
    /\ err = [c \in Calls |-> NoError]
    /\ opc = [o \in Observers |-> "idle"]
    /\ seen = [o \in Observers |-> 0]
    /\ before = [o \in Observers |-> {}]

\* The caller cancels, or the deadline passes.  A context ends once.
EndContext(c) ==
    /\ ctx[c] = "live"
    /\ \E why \in Endings : ctx' = [ctx EXCEPT ![c] = why]
    /\ UNCHANGED <<engine, callVars, obsVars>>

Goto(c, next) == pc' = [pc EXCEPT ![c] = next]

Answer(c, r, e) ==
    /\ Goto(c, "done")
    /\ result' = [result EXCEPT ![c] = r]
    /\ err' = [err EXCEPT ![c] = e]
    /\ UNCHANGED <<engine, ctx, req, at, out, tmp, obsVars>>

-----------------------------------------------------------------------------
(* reach: the part of every operation that is about getting to an engine.   *)

Call(c) ==
    /\ pc[c] = "idle"
    /\ Goto(c, "reach")
    /\ \E r \in Requests : req' = [req EXCEPT ![c] = r]
    /\ UNCHANGED <<engine, ctx, at, out, tmp, result, err, obsVars>>

ReachEnded(c) ==
    /\ pc[c] = "reach" /\ ctx[c] # "live"
    /\ Answer(c, NoResult, ContextError(c))

\* A hanging engine blocks on the context and nothing else.
ReachHangs(c) ==
    /\ pc[c] = "reach" /\ ctx[c] = "live" /\ behaviour.hang
    /\ Goto(c, "hang")
    /\ UNCHANGED <<engine, ctx, req, at, out, tmp, result, err, obsVars>>

\* Plausible slip: the engine hangs until a deadline, whoever cancels.
HangEndsAtDeadline(c) ==
    /\ pc[c] = "hang" /\ ctx[c] = "deadline"
    /\ Answer(c, NoResult, [kind |-> "unreachable", cause |-> ctx[c]])

HangEnds(c) ==
    /\ pc[c] = "hang" /\ ctx[c] # "live"
    /\ Answer(c, NoResult, [kind |-> "unreachable", cause |-> ctx[c]])

ReachFails(c) ==
    /\ pc[c] = "reach" /\ ctx[c] = "live" /\ ~behaviour.hang
    /\ \/ behaviour.unreachable /\ Answer(c, NoResult, Failed("unreachable"))
       \/ /\ ~behaviour.unreachable /\ behaviour.refuse
          /\ Answer(c, NoResult, Failed("refused"))

Reached(c, op) ==
    /\ pc[c] = "reach" /\ ctx[c] = "live"
    /\ ~behaviour.hang /\ ~behaviour.unreachable /\ ~behaviour.refuse
    /\ req[c].op = op

TellCapabilities(c) ==
    /\ Reached(c, "capabilities")
    /\ Answer(c, [NoResult EXCEPT !.model = Serving, !.dimension = Declared.dimension], NoError)

-----------------------------------------------------------------------------
(* Generate *)

Askable(c) == req[c].messages > 0 /\ req[c].known /\ req[c].bound > 0

TooLong(c) == behaviour.overLimit \/ req[c].input > Declared.context

RefuseGenerate(c) ==
    /\ Reached(c, "generate") /\ ~Askable(c)
    /\ Answer(c, NoResult, Failed("refused"))

RefuseTooLong(c) ==
    /\ Reached(c, "generate") /\ Askable(c) /\ TooLong(c)
    /\ Answer(c, NoResult, Failed("over-limit"))

StartGenerate(c) ==
    /\ Reached(c, "generate") /\ Askable(c) /\ ~TooLong(c)
    /\ Goto(c, "word")
    /\ UNCHANGED <<engine, ctx, req, at, out, tmp, result, err, obsVars>>

StreamBreaks(c) == behaviour.chunks > 0 /\ at[c] = behaviour.chunks

\* The context is read once per word, before the word is handed over.
NoticeEnd(c) ==
    /\ pc[c] = "word" /\ at[c] < Words(c) /\ ctx[c] # "live"
    /\ Goto(c, "lock")
    /\ UNCHANGED <<engine, ctx, req, at, out, tmp, result, err, obsVars>>

\* Plausible slip: a stream that breaks is counted as one that was cancelled.
BreakStreamCounted(c) ==
    /\ pc[c] = "word" /\ at[c] < Words(c) /\ ctx[c] = "live"
    /\ StreamBreaks(c)
    /\ Goto(c, "lock")
    /\ UNCHANGED <<engine, ctx, req, at, out, tmp, result, err, obsVars>>

BreakStream(c) ==
    /\ pc[c] = "word" /\ at[c] < Words(c) /\ ctx[c] = "live"
    /\ StreamBreaks(c)
    /\ Answer(c, NoResult, Failed("malformed"))

Emit(c) ==
    /\ pc[c] = "word" /\ at[c] < Words(c) /\ ctx[c] = "live"
    /\ ~StreamBreaks(c)
    /\ Goto(c, "sink")
    /\ UNCHANGED <<engine, ctx, req, at, out, tmp, result, err, obsVars>>

\* The sink is the caller's code: it takes the chunk or returns an error.
SinkTakes(c) ==
    /\ pc[c] = "sink"
    /\ Goto(c, "word")
    /\ at' = [at EXCEPT ![c] = @ + 1]
    /\ out' = [out EXCEPT ![c] = @ + 1]
    /\ UNCHANGED <<engine, ctx, req, tmp, result, err, obsVars>>

\* Plausible slip: what the sink took so far comes back beside its error.
SinkFailsHalfway(c) ==
    /\ pc[c] = "sink"
    /\ Answer(c, [NoResult EXCEPT !.tokens = out[c]], Failed("sink"))

SinkFails(c) ==
    /\ pc[c] = "sink"
    /\ Answer(c, NoResult, Failed("sink"))

\* The loop is over.  The context is not read again, so a generation whose
\* context ended under the last chunk is a finished one.
Finish(c) ==
    /\ pc[c] = "word" /\ at[c] = Words(c)
    /\ Answer(c, [NoResult EXCEPT
                    !.finish = IF AnswerWords > req[c].bound THEN "output-limit" ELSE "complete",
                    !.tokens = out[c], !.model = Serving],
              NoError)

-----------------------------------------------------------------------------
(* r.mu.Lock(); r.cancelled++; r.mu.Unlock(): the increment is a load and a  *)
(* store, which the mutex keeps together.                                    *)

Lock(c) ==
    /\ pc[c] = "lock" /\ mu = Free
    /\ mu' = c
    /\ Goto(c, "load")
    /\ UNCHANGED <<behaviour, cancelled, ctx, req, at, out, tmp, result, err, obsVars>>

Load(c) ==
    /\ pc[c] = "load"
    /\ tmp' = [tmp EXCEPT ![c] = cancelled]
    /\ Goto(c, "store")
    /\ UNCHANGED <<engine, ctx, req, at, out, result, err, obsVars>>

\* Plausible slip: the count is kept as a flag.
StoreFlag(c) ==
    /\ pc[c] = "store"
    /\ cancelled' = 1
    /\ Goto(c, "unlock")
    /\ UNCHANGED <<behaviour, mu, ctx, req, at, out, tmp, result, err, obsVars>>

Store(c) ==
    /\ pc[c] = "store"
    /\ cancelled' = tmp[c] + 1
    /\ Goto(c, "unlock")
    /\ UNCHANGED <<behaviour, mu, ctx, req, at, out, tmp, result, err, obsVars>>

\* What was produced comes back with the context's error beside it.
Unlock(c) ==
    /\ pc[c] = "unlock"
    /\ mu' = Free
    /\ Goto(c, "done")
    /\ result' = [result EXCEPT ![c] = [NoResult EXCEPT
                     !.finish = "cancelled", !.tokens = out[c], !.model = Serving]]
    /\ err' = [err EXCEPT ![c] = ContextError(c)]
    /\ UNCHANGED <<behaviour, cancelled, ctx, req, at, out, tmp, obsVars>>

-----------------------------------------------------------------------------
(* Embed: the context is read once per text, and an end leaves no vectors.  *)

RefuseEmbed(c) ==
    /\ Reached(c, "embed") /\ (~Declared.embeddings \/ req[c].texts = 0)
    /\ Answer(c, NoResult, Failed("refused"))

StartEmbed(c) ==
    /\ Reached(c, "embed") /\ Declared.embeddings /\ req[c].texts > 0
    /\ Goto(c, "text")
    /\ UNCHANGED <<engine, ctx, req, at, out, tmp, result, err, obsVars>>

EmbedEnded(c) ==
    /\ pc[c] = "text" /\ at[c] < req[c].texts /\ ctx[c] # "live"
    /\ Answer(c, NoResult, ContextError(c))

EmbedText(c) ==
    /\ pc[c] = "text" /\ at[c] < req[c].texts /\ ctx[c] = "live"
    /\ at' = [at EXCEPT ![c] = @ + 1]
    /\ UNCHANGED <<engine, ctx, pc, req, out, tmp, result, err, obsVars>>

EmbedDone(c) ==
    /\ pc[c] = "text" /\ at[c] = req[c].texts
    /\ Answer(c, [NoResult EXCEPT !.model = Serving, !.vectors = at[c], !.dimension = Dimension],
              NoError)

-----------------------------------------------------------------------------
(* Cancellations: a read under the mutex. *)

CameBackCancelled == {c \in Calls : result[c].finish = "cancelled"}

Ask(o) ==
    /\ opc[o] = "idle"
    /\ opc' = [opc EXCEPT ![o] = "want"]
    /\ before' = [before EXCEPT ![o] = CameBackCancelled]
    /\ UNCHANGED <<engine, ctx, callVars, seen>>

ObserverLock(o) ==
    /\ opc[o] = "want" /\ mu = Free
    /\ mu' = o
    /\ opc' = [opc EXCEPT ![o] = "read"]
    /\ UNCHANGED <<behaviour, cancelled, ctx, callVars, seen, before>>

\* Plausible slip: an observer is told what it was told before.
ObserverReadCached(o) ==
    /\ opc[o] = "read"
    /\ opc' = [opc EXCEPT ![o] = "release"]
    /\ UNCHANGED <<engine, ctx, callVars, seen, before>>

ObserverRead(o) ==
    /\ opc[o] = "read"
    /\ seen' = [seen EXCEPT ![o] = cancelled]
    /\ opc' = [opc EXCEPT ![o] = "release"]
    /\ UNCHANGED <<engine, ctx, callVars, before>>

ObserverUnlock(o) ==
    /\ opc[o] = "release"
    /\ mu' = Free
    /\ opc' = [opc EXCEPT ![o] = "idle"]
    /\ UNCHANGED <<behaviour, cancelled, ctx, callVars, seen, before>>

-----------------------------------------------------------------------------

\* What a call does once it runs and its sink answers.
Step(c) ==
    \/ ReachEnded(c) \/ ReachHangs(c) \/ HangEnds(c) \/ ReachFails(c) \/ TellCapabilities(c)
    \/ RefuseGenerate(c) \/ RefuseTooLong(c) \/ StartGenerate(c)
    \/ NoticeEnd(c) \/ BreakStream(c) \/ Emit(c) \/ SinkTakes(c) \/ SinkFails(c) \/ Finish(c)
    \/ Load(c) \/ Store(c) \/ Unlock(c)
    \/ RefuseEmbed(c) \/ StartEmbed(c) \/ EmbedEnded(c) \/ EmbedText(c) \/ EmbedDone(c)

Observe(o) == Ask(o) \/ ObserverLock(o) \/ ObserverRead(o) \/ ObserverUnlock(o)

Next ==
    \/ \E c \in Calls : Call(c) \/ EndContext(c) \/ Step(c) \/ Lock(c)
    \/ \E o \in Observers : Observe(o)

Spec == Init /\ [][Next]_vars

\* A goroutine that can run is run, the caller's sink answers, and a sync.Mutex
\* starves nobody; nobody has to make a call, end a context or ask again.
Fairness ==
    /\ \A c \in Calls : WF_vars(Step(c)) /\ SF_vars(Lock(c))
    /\ \A o \in Observers : WF_vars(ObserverRead(o) \/ ObserverUnlock(o))

FairSpec == Spec /\ Fairness

-----------------------------------------------------------------------------

\* The types; a generation that is about to count its ending, or is counting
\* it, has a context that ended (fake.go:98-104, 182-297).
TypeOK ==
    /\ behaviour \in Accepted
    /\ mu \in Calls \cup Observers \cup {Free}
    /\ cancelled \in Nat
    /\ ctx \in [Calls -> Endings \cup {"live"}]
    /\ pc \in [Calls -> {"idle", "reach", "hang", "word", "sink", "lock", "load", "store",
                         "unlock", "text", "done"}]
    /\ req \in [Calls -> Requests \cup {NoRequest}]
    /\ at \in [Calls -> Nat]
    /\ out \in [Calls -> Nat]
    /\ tmp \in [Calls -> Nat]
    /\ result \in [Calls -> [finish : Finishes \cup {None}, tokens : Nat,
                             model : {None, Declared.model, behaviour.model},
                             vectors : Nat, dimension : Int]]
    /\ err \in [Calls -> Errors]
    /\ \A c \in Calls : pc[c] \in {"lock", "load", "store", "unlock"} => ctx[c] # "live"
    /\ opc \in [Observers -> {"idle", "want", "read", "release"}]
    /\ seen \in [Observers -> Nat]
    /\ before \in [Observers -> SUBSET Calls]

\* The generations whose increment has been stored.
Counted == {c \in Calls : pc[c] = "unlock" \/ result[c].finish = "cancelled"}

Holds(c) == pc[c] \in {"load", "store", "unlock"}
ObserverHolds(o) == opc[o] \in {"read", "release"}

\* The mutex has the holder the program counters say, and a value loaded for
\* the increment is still the count when it is stored.
MutexHolds ==
    /\ \A c \in Calls : Holds(c) <=> mu = c
    /\ \A o \in Observers : ObserverHolds(o) <=> mu = o
    /\ \A c \in Calls : pc[c] = "store" => tmp[c] = cancelled

\* No increment of the shared count is lost and none is made twice, however
\* many generations end at once (fake.go:218-224).
CountIsExact == cancelled = Cardinality(Counted)

\* A caller that saw a generation come back cancelled, and then asks, is told
\* of it: Cancellations is never behind what has been returned, and never ahead
\* of what has been counted (fake.go:139-149, 218-224).
CancellationIsVisible ==
    \A o \in Observers :
        /\ opc[o] = "release" => seen[o] >= Cardinality(before[o])
        /\ seen[o] <= Cardinality(Counted)

\* A test that configured a misbehaviour gets it: an engine told to fail answers
\* nothing, one told to name another model names it in every answer, and one told
\* another dimension embeds at it.  The exception is a stream told to break after
\* so many chunks: asked for no more words than that it ends at the bound of the
\* request, before the break, as one that behaves would; it is never complete
\* (fake.go:72-76, 106-137, 197-239).
MisbehaviourShows ==
    \A c \in Calls : pc[c] = "done" /\ err[c].kind = None =>
        /\ ~behaviour.unreachable /\ ~behaviour.refuse /\ ~behaviour.hang
        /\ behaviour.model # None => result[c].model # Declared.model
        /\ behaviour.dimension # 0 /\ req[c].op = "embed" =>
              result[c].dimension # Declared.dimension
        /\ req[c].op = "generate" =>
              /\ ~behaviour.overLimit
              /\ behaviour.chunks > 0 =>
                    result[c].finish = "output-limit" /\ req[c].bound <= behaviour.chunks

\* An operation returns once its context ends, and on any engine but a hanging
\* one it returns without that (fake.go:182-297): no lock, no loop and no
\* other caller keeps it.
ContextEndsCalls ==
    \A c \in Calls :
        /\ (pc[c] # "idle" /\ ctx[c] # "live") ~> pc[c] = "done"
        /\ (pc[c] # "idle" /\ ~behaviour.hang) ~> pc[c] = "done"

\* Every Generate of the fake is one the contract allows, step by step.
Generates(c) == req[c].op = "generate"

Contract == INSTANCE RuntimeContract WITH
    Bounds <- {r.bound : r \in Requests},
    stage  <- [c \in Calls |-> IF ~Generates(c) THEN "idle"
                               ELSE IF pc[c] = "done" THEN "returned" ELSE "open"],
    bound  <- [c \in Calls |-> IF Generates(c) THEN req[c].bound ELSE 0],
    told   <- [c \in Calls |-> IF Generates(c) THEN out[c] ELSE 0],
    answer <- [c \in Calls |->
                 IF ~Generates(c) THEN [finish |-> None, tokens |-> 0, err |-> None]
                 ELSE [finish |-> result[c].finish, tokens |-> result[c].tokens,
                       err |-> IF err[c].kind = "context" THEN err[c].cause ELSE err[c].kind]]

ImplementsContract == Contract!Spec

=============================================================================
