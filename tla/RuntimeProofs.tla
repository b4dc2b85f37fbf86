--------------------------- MODULE RuntimeProofs ---------------------------
(***************************************************************************)
(* The fake engine, for any number of callers and observers, any declaration *)
(* and any misbehaviours: the types, the mutex and the count behind it, what *)
(* a caller sees of a misbehaviour, and the contract every call keeps.       *)
(* Then the suite that holds adapters to that contract, for any adapter and  *)
(* any number of goroutines.                                                 *)
(***************************************************************************)
EXTENDS FakeRuntime, ContractSuite, FiniteSetTheorems, TLAPS

USE DEF None, engine, callVars, obsVars

PCs == {"idle", "reach", "hang", "word", "sink", "lock", "load", "store", "unlock", "text", "done"}

Results == [finish : Finishes \cup {None}, tokens : Nat,
            model : {None, Declared.model, behaviour.model}, vectors : Nat, dimension : Int]

\* The name served and the dimension used are of their kinds.
LEMMA ServingTypes ==
    ASSUME TypeOK
    PROVE  Serving \in {Declared.model, behaviour.model} /\ Dimension \in Int /\ Declared.dimension \in Int
<1>1. behaviour \in Behaviours
    BY Zenon DEF TypeOK, Accepted
<1>2. behaviour.dimension \in Int
    BY <1>1, BehavioursAssumption
<1>3. Declared.dimension \in Int
    BY DeclaredAssumption
<1>4. QED
    BY <1>2, <1>3 DEF Serving, Dimension

FailureKinds == {"sink", "unreachable", "refused", "over-limit", "malformed"}

\* Every error the fake makes is one of the errors.
LEMMA ErrorTypes ==
    ASSUME TypeOK, NEW c \in Calls
    PROVE  /\ NoError \in Errors
           /\ \A k \in FailureKinds : Failed(k) \in Errors
           /\ ctx[c] # "live" => ContextError(c) \in Errors
           /\ ctx[c] # "live" => [kind |-> "unreachable", cause |-> ctx[c]] \in Errors
<1>1. ctx[c] \in Endings \cup {"live"}
    BY DEF TypeOK
<1>2. \A k \in FailureKinds : Failed(k) \in Errors
    BY DEF Failed, Errors, FailureKinds
<1>3. NoError \in Errors
    BY DEF NoError, Errors
<1>4. ctx[c] # "live" => ContextError(c) \in Errors
    BY <1>1 DEF ContextError, Errors, Endings
<1>5. ctx[c] # "live" => [kind |-> "unreachable", cause |-> ctx[c]] \in Errors
    BY <1>1 DEF Errors, Endings
<1>6. QED
    BY <1>2, <1>3, <1>4, <1>5, Zenon

\* What stands beside an error is a result.
LEMMA NoResultTypes == NoResult \in Results
    BY DEF NoResult, Results, Finishes

\* A step that returns keeps the types when what it returns has its type.
LEMMA AnswerTypes ==
    ASSUME TypeOK, NEW c \in Calls, NEW r \in Results, NEW e \in Errors, Answer(c, r, e)
    PROVE  TypeOK'
    BY DEF TypeOK, Answer, Goto, Results

\* A step that only moves on keeps the types.
LEMMA GotoTypes ==
    ASSUME TypeOK, NEW c \in Calls, NEW next \in PCs, Goto(c, next),
           next \in {"lock", "load", "store", "unlock"} => ctx[c] # "live",
           UNCHANGED <<engine, ctx, req, at, out, tmp, result, err, obsVars>>
    PROVE  TypeOK'
    BY DEF TypeOK, Goto, PCs

\* A call, the end of a context and the mutex keep the types.
LEMMA CallTypes ==
    ASSUME TypeOK, NEW c \in Calls, Call(c) \/ EndContext(c) \/ Lock(c)
    PROVE  TypeOK'
<1>1. CASE Call(c)
    BY <1>1 DEF TypeOK, Call, Goto
<1>2. CASE EndContext(c)
    BY <1>2 DEF TypeOK, EndContext
<1>3. CASE Lock(c)
    BY <1>3 DEF TypeOK, Lock, Goto
<1>4. QED
    BY <1>1, <1>2, <1>3

\* Every step of an operation keeps the types.
LEMMA StepTypes ==
    ASSUME TypeOK, NEW c \in Calls, Step(c)
    PROVE  TypeOK'
<1> USE ServingTypes, ErrorTypes, NoResultTypes DEF FailureKinds
<1>1. CASE ReachEnded(c) \/ HangEnds(c) \/ ReachFails(c) \/ RefuseGenerate(c)
           \/ RefuseTooLong(c) \/ BreakStream(c) \/ SinkFails(c) \/ RefuseEmbed(c)
           \/ EmbedEnded(c)
    <2>1. \E e \in Errors : Answer(c, NoResult, e)
        BY <1>1 DEF ReachEnded, HangEnds, ReachFails, RefuseGenerate, RefuseTooLong,
                    BreakStream, SinkFails, RefuseEmbed, EmbedEnded
    <2>2. QED
        BY <2>1, AnswerTypes
<1>2. CASE TellCapabilities(c)
    <2>1. [NoResult EXCEPT !.model = Serving, !.dimension = Declared.dimension] \in Results
        BY DEF NoResult, Results, Finishes
    <2>2. QED
        BY <1>2, <2>1, AnswerTypes DEF TellCapabilities
<1>3. CASE Finish(c)
    <2>1. [NoResult EXCEPT
             !.finish = IF AnswerWords > req[c].bound THEN "output-limit" ELSE "complete",
             !.tokens = out[c], !.model = Serving] \in Results
        BY DEF NoResult, Results, Finishes, TypeOK
    <2>2. QED
        BY <1>3, <2>1, AnswerTypes DEF Finish
<1>4. CASE EmbedDone(c)
    <2>1. [NoResult EXCEPT !.model = Serving, !.vectors = at[c], !.dimension = Dimension]
             \in Results
        BY DEF NoResult, Results, Finishes, TypeOK
    <2>2. QED
        BY <1>4, <2>1, AnswerTypes DEF EmbedDone
<1>5. CASE ReachHangs(c) \/ StartGenerate(c) \/ NoticeEnd(c) \/ Emit(c) \/ StartEmbed(c)
    <2>1. PICK next \in PCs : /\ Goto(c, next)
                              /\ next \in {"lock", "load", "store", "unlock"} =>
                                    ctx[c] # "live"
        BY <1>5 DEF ReachHangs, StartGenerate, NoticeEnd, Emit, StartEmbed, PCs
    <2>2. UNCHANGED <<engine, ctx, req, at, out, tmp, result, err, obsVars>>
        BY <1>5 DEF ReachHangs, StartGenerate, NoticeEnd, Emit, StartEmbed
    <2>3. QED
        BY <2>1, <2>2, GotoTypes
<1>6. CASE SinkTakes(c)
    BY <1>6 DEF TypeOK, SinkTakes, Goto
<1>7. CASE EmbedText(c)
    BY <1>7 DEF TypeOK, EmbedText
<1>8. CASE Load(c)
    BY <1>8 DEF TypeOK, Load, Goto
<1>9. CASE Store(c)
    BY <1>9 DEF TypeOK, Store, Goto
<1>10. CASE Unlock(c)
    <2> DEFINE r == [NoResult EXCEPT !.finish = "cancelled", !.tokens = out[c],
                                     !.model = Serving]
    <2>1. r \in Results
        BY DEF NoResult, Results, Finishes, TypeOK
    <2>2. ContextError(c) \in Errors
        BY <1>10 DEF Unlock, TypeOK
    <2>3. QED
        BY <1>10, <2>1, <2>2 DEF TypeOK, Unlock, Goto, Results, Errors
<1>11. QED
    BY <1>1, <1>2, <1>3, <1>4, <1>5, <1>6, <1>7, <1>8, <1>9, <1>10 DEF Step

\* Asking for the count keeps the types.
LEMMA ObserveTypes ==
    ASSUME TypeOK, NEW o \in Observers, Observe(o)
    PROVE  TypeOK'
<1>1. CASE Ask(o)
    <2>1. CameBackCancelled \in SUBSET Calls
        BY DEF CameBackCancelled
    <2>2. QED
        BY <1>1, <2>1 DEF TypeOK, Ask
<1>2. CASE ObserverLock(o)
    BY <1>2 DEF TypeOK, ObserverLock
<1>3. CASE ObserverRead(o)
    BY <1>3 DEF TypeOK, ObserverRead
<1>4. CASE ObserverUnlock(o)
    BY <1>4 DEF TypeOK, ObserverUnlock
<1>5. QED
    BY <1>1, <1>2, <1>3, <1>4 DEF Observe

\* The fake New returns is of its type.
LEMMA InitTypes == Init => TypeOK
<1> SUFFICES ASSUME Init
             PROVE  TypeOK
    OBVIOUS
<1>1. NoResult \in Results
    BY NoResultTypes
<1>2. NoError \in Errors
    BY DEF NoError, Errors
<1>3. QED
    BY <1>1, <1>2 DEF Init, TypeOK, Results, Endings

\* The type invariant is inductive.
LEMMA NextTypes == TypeOK /\ [Next]_vars => TypeOK'
<1> SUFFICES ASSUME TypeOK, [Next]_vars
             PROVE  TypeOK'
    OBVIOUS
<1>1. CASE UNCHANGED vars
    BY <1>1 DEF TypeOK, vars
<1>2. ASSUME NEW c \in Calls, Call(c) \/ EndContext(c) \/ Step(c) \/ Lock(c)
      PROVE  TypeOK'
    BY <1>2, CallTypes, StepTypes
<1>3. ASSUME NEW o \in Observers, Observe(o)
      PROVE  TypeOK'
    BY <1>3, ObserveTypes
<1>4. QED
    BY <1>1, <1>2, <1>3 DEF Next

\* The engine, its calls and its observers keep their types, and a generation
\* is at the count only once its context has ended.
THEOREM TypeCorrect == Spec => []TypeOK
<1>1. QED
    BY InitTypes, NextTypes, PTL DEF Spec

-----------------------------------------------------------------------------
(* The mutex and the count.  A value read, and the calls that had come back  *)
(* when it was asked for, stay behind the count because nothing that came    *)
(* back cancelled is ever taken back.                                        *)

Settled ==
    /\ \A c \in Calls : pc[c] # "done" => result[c].finish # "cancelled"
    /\ \A o \in Observers : before[o] \subseteq CameBackCancelled

CountInv == TypeOK /\ MutexHolds /\ CountIsExact /\ CancellationIsVisible /\ Settled

\* The generations counted are finitely many, those that came back among them.
LEMMA CountedFinite ==
    /\ IsFiniteSet(Counted)
    /\ Cardinality(Counted) \in Nat
    /\ CameBackCancelled \subseteq Counted
    /\ IsFiniteSet(CameBackCancelled)
    /\ Cardinality(CameBackCancelled) <= Cardinality(Counted)
<1>1. IsFiniteSet(Counted)
    BY ActorsAssumption, FS_Subset DEF Counted
<1>2. CameBackCancelled \subseteq Counted
    BY DEF CameBackCancelled, Counted
<1>3. QED
    BY <1>1, <1>2, FS_Subset, FS_CardinalityType

\* A step that neither enters nor leaves the critical section, counts nothing
\* and brings no cancelled generation back, beside which observers stand still.
Quiet ==
    /\ UNCHANGED <<mu, cancelled, tmp, obsVars>>
    /\ \A d \in Calls :
          /\ pc'[d] = "load" <=> pc[d] = "load"
          /\ pc'[d] = "store" <=> pc[d] = "store"
          /\ pc'[d] = "unlock" <=> pc[d] = "unlock"
          /\ pc[d] = "done" => pc'[d] = "done"
          /\ result'[d].finish = "cancelled" <=> result[d].finish = "cancelled"

\* A step that touches neither the count nor the mutex keeps the invariant.
LEMMA QuietKeepsCount ==
    ASSUME CountInv, TypeOK', Quiet
    PROVE  CountInv'
<1>1. Counted' = Counted /\ CameBackCancelled' = CameBackCancelled
    BY DEF Counted, CameBackCancelled, Quiet
<1>2. MutexHolds'
    BY DEF CountInv, MutexHolds, Holds, ObserverHolds, Quiet
<1>3. CountIsExact'
    BY <1>1 DEF CountInv, CountIsExact, Quiet
<1>4. CancellationIsVisible'
    BY <1>1 DEF CountInv, CancellationIsVisible, Quiet
<1>5. Settled'
    BY <1>1 DEF CountInv, Settled, Quiet
<1>6. QED
    BY <1>2, <1>3, <1>4, <1>5 DEF CountInv

\* A call that returns anything but a cancelled generation, from outside the
\* critical section, is quiet.
LEMMA AnswerIsQuiet ==
    ASSUME CountInv, NEW c \in Calls, NEW r, NEW e, Answer(c, r, e),
           r.finish # "cancelled",
           pc[c] \notin {"load", "store", "unlock", "done"}
    PROVE  Quiet
<1>1. result \in [Calls -> Results] /\ pc \in [Calls -> PCs]
    BY DEF CountInv, TypeOK, Results, PCs
<1>2. result[c].finish # "cancelled"
    BY DEF CountInv, Settled
<1>3. UNCHANGED <<mu, cancelled, tmp, obsVars>>
    BY DEF Answer
<1>4. ASSUME NEW d \in Calls
      PROVE  /\ pc'[d] = "load" <=> pc[d] = "load"
             /\ pc'[d] = "store" <=> pc[d] = "store"
             /\ pc'[d] = "unlock" <=> pc[d] = "unlock"
             /\ pc[d] = "done" => pc'[d] = "done"
    BY <1>1 DEF Answer, Goto
<1>5. ASSUME NEW d \in Calls
      PROVE  result'[d].finish = "cancelled" <=> result[d].finish = "cancelled"
    BY <1>1, <1>2 DEF Answer
<1>6. QED
    BY <1>3, <1>4, <1>5 DEF Quiet

\* Moving on outside the critical section is such a step.
LEMMA GotoIsQuiet ==
    ASSUME CountInv, NEW c \in Calls, NEW next, Goto(c, next),
           UNCHANGED <<mu, cancelled, tmp, result, obsVars>>,
           pc[c] \notin {"load", "store", "unlock", "done"},
           next \notin {"load", "store", "unlock", "done"}
    PROVE  Quiet
<1>1. pc \in [Calls -> PCs]
    BY DEF CountInv, TypeOK, PCs
<1>2. ASSUME NEW d \in Calls
      PROVE  /\ pc'[d] = "load" <=> pc[d] = "load"
             /\ pc'[d] = "store" <=> pc[d] = "store"
             /\ pc'[d] = "unlock" <=> pc[d] = "unlock"
             /\ pc[d] = "done" => pc'[d] = "done"
    BY <1>1 DEF Goto
<1>3. QED
    BY <1>2 DEF Quiet

\* Outside the critical section a call changes nothing the count rests on.
LEMMA OutsideKeepsCount ==
    ASSUME CountInv, TypeOK', NEW c \in Calls, Call(c) \/ EndContext(c) \/ Step(c),
           ~Load(c), ~Store(c), ~Unlock(c)
    PROVE  CountInv'
<1>1. CASE ReachEnded(c) \/ HangEnds(c) \/ ReachFails(c) \/ RefuseGenerate(c)
           \/ RefuseTooLong(c) \/ BreakStream(c) \/ SinkFails(c) \/ RefuseEmbed(c)
           \/ EmbedEnded(c)
    <2>1. PICK e : Answer(c, NoResult, e)
        BY <1>1 DEF ReachEnded, HangEnds, ReachFails, RefuseGenerate, RefuseTooLong,
                    BreakStream, SinkFails, RefuseEmbed, EmbedEnded
    <2>2. pc[c] \in {"reach", "hang", "word", "sink", "text"}
        BY <1>1 DEF ReachEnded, HangEnds, ReachFails, RefuseGenerate, RefuseTooLong,
                    BreakStream, SinkFails, RefuseEmbed, EmbedEnded, Reached
    <2>3. NoResult.finish # "cancelled"
        BY DEF NoResult
    <2>4. QED
        BY <2>1, <2>2, <2>3, AnswerIsQuiet, QuietKeepsCount
<1>2. CASE TellCapabilities(c) \/ Finish(c) \/ EmbedDone(c)
    <2> DEFINE told == [NoResult EXCEPT !.model = Serving, !.dimension = Declared.dimension]
               said == [NoResult EXCEPT
                          !.finish = IF AnswerWords > req[c].bound THEN "output-limit"
                                     ELSE "complete",
                          !.tokens = out[c], !.model = Serving]
               made == [NoResult EXCEPT !.model = Serving, !.vectors = at[c],
                                        !.dimension = Dimension]
    <2>3. /\ told.finish # "cancelled" /\ said.finish # "cancelled"
          /\ made.finish # "cancelled"
        BY DEF NoResult
    <2>4. \/ Answer(c, told, NoError) \/ Answer(c, said, NoError) \/ Answer(c, made, NoError)
        BY <1>2, Zenon DEF TellCapabilities, Finish, EmbedDone
    <2> HIDE DEF told, said, made
    <2>1. PICK r : Answer(c, r, NoError) /\ r.finish # "cancelled"
        BY <2>3, <2>4, Zenon
    <2>2. pc[c] \in {"reach", "word", "text"}
        BY <1>2 DEF TellCapabilities, Finish, EmbedDone, Reached
    <2>5. QED
        BY <2>1, <2>2, AnswerIsQuiet, QuietKeepsCount
<1>3. CASE Call(c) \/ ReachHangs(c) \/ StartGenerate(c) \/ NoticeEnd(c) \/ Emit(c)
           \/ SinkTakes(c) \/ StartEmbed(c)
    <2>1. PICK next : /\ Goto(c, next)
                      /\ next \notin {"load", "store", "unlock", "done"}
        BY <1>3 DEF Call, ReachHangs, StartGenerate, NoticeEnd, Emit, SinkTakes, StartEmbed
    <2>2. /\ UNCHANGED <<mu, cancelled, tmp, result, obsVars>>
          /\ pc[c] \in {"idle", "reach", "word", "sink"}
        BY <1>3 DEF Call, ReachHangs, StartGenerate, NoticeEnd, Emit, SinkTakes, StartEmbed,
                    Reached
    <2>3. QED
        BY <2>1, <2>2, GotoIsQuiet, QuietKeepsCount
<1>4. CASE EndContext(c) \/ EmbedText(c)
    <2>1. Quiet
        BY <1>4 DEF Quiet, EndContext, EmbedText
    <2>2. QED
        BY <2>1, QuietKeepsCount
<1>5. QED
    BY <1>1, <1>2, <1>3, <1>4 DEF Step

\* Taking the mutex and loading the count keep the invariant.
LEMMA LockKeepsCount ==
    ASSUME CountInv, TypeOK', NEW c \in Calls, Lock(c) \/ Load(c)
    PROVE  CountInv'
<1>1. pc \in [Calls -> PCs] /\ tmp \in [Calls -> Nat]
    BY DEF CountInv, TypeOK, PCs
<1>2. /\ UNCHANGED <<cancelled, result, obsVars>>
      /\ pc[c] \in {"lock", "load"} /\ pc' = [pc EXCEPT ![c] = IF pc[c] = "lock" THEN "load" ELSE "store"]
    BY DEF Lock, Load, Goto
<1>3. Counted' = Counted /\ CameBackCancelled' = CameBackCancelled
    BY <1>1, <1>2 DEF Counted, CameBackCancelled
<1>4. MutexHolds'
    <2>1. CASE Lock(c)
        BY <1>1, <2>1, ActorsAssumption DEF CountInv, MutexHolds, Holds, ObserverHolds, Lock, Goto
    <2>2. CASE Load(c)
        BY <1>1, <2>2, ActorsAssumption DEF CountInv, MutexHolds, Holds, ObserverHolds, Load, Goto
    <2>3. QED
        BY <2>1, <2>2
<1>5. CountIsExact'
    BY <1>2, <1>3 DEF CountInv, CountIsExact
<1>6. CancellationIsVisible'
    BY <1>2, <1>3 DEF CountInv, CancellationIsVisible
<1>7. Settled'
    BY <1>1, <1>2, <1>3 DEF CountInv, Settled
<1>8. QED
    BY <1>4, <1>5, <1>6, <1>7 DEF CountInv

\* The store adds the call to what is counted, and nothing else.
LEMMA StoreKeepsCount ==
    ASSUME CountInv, TypeOK', NEW c \in Calls, Store(c)
    PROVE  CountInv'
<1>1. /\ pc \in [Calls -> PCs] /\ tmp \in [Calls -> Nat] /\ cancelled \in Nat
      /\ seen \in [Observers -> Nat]
    BY DEF CountInv, TypeOK, PCs
<1>2. /\ pc[c] = "store" /\ pc' = [pc EXCEPT ![c] = "unlock"]
      /\ UNCHANGED <<mu, tmp, result, obsVars>>
    BY DEF Store, Goto
<1>3. mu = c /\ cancelled' = cancelled + 1
    BY <1>2 DEF CountInv, MutexHolds, Holds, Store
<1>4. c \notin Counted /\ Counted' = Counted \cup {c}
    BY <1>1, <1>2 DEF CountInv, Settled, Counted
<1>5. CameBackCancelled' = CameBackCancelled
    BY <1>2 DEF CameBackCancelled
<1>6. Cardinality(Counted') = Cardinality(Counted) + 1
    BY <1>4, CountedFinite, FS_AddElement
<1>7. MutexHolds'
    BY <1>1, <1>2, <1>3, ActorsAssumption DEF CountInv, MutexHolds, Holds, ObserverHolds
<1>8. CountIsExact'
    BY <1>3, <1>6 DEF CountInv, CountIsExact
<1>9. CancellationIsVisible'
    BY <1>1, <1>2, <1>6, CountedFinite DEF CountInv, CancellationIsVisible
<1>10. Settled'
    BY <1>1, <1>2, <1>5 DEF CountInv, Settled
<1>11. QED
    BY <1>7, <1>8, <1>9, <1>10 DEF CountInv

\* The call comes back cancelled as it leaves what is being counted.
LEMMA UnlockKeepsCount ==
    ASSUME CountInv, TypeOK', NEW c \in Calls, Unlock(c)
    PROVE  CountInv'
<1>1. pc \in [Calls -> PCs] /\ result \in [Calls -> Results]
    BY DEF CountInv, TypeOK, PCs, Results
<1>2. /\ pc[c] = "unlock" /\ pc' = [pc EXCEPT ![c] = "done"] /\ mu' = Free
      /\ UNCHANGED <<cancelled, tmp, obsVars>>
    BY DEF Unlock, Goto
<1>3. PICK r : result' = [result EXCEPT ![c] = r] /\ r.finish = "cancelled"
    <2> DEFINE r == [NoResult EXCEPT !.finish = "cancelled", !.tokens = out[c],
                                     !.model = Serving]
    <2>1. r.finish = "cancelled"
        BY DEF NoResult
    <2>2. result' = [result EXCEPT ![c] = r]
        BY Zenon DEF Unlock
    <2> HIDE DEF r
    <2>3. QED
        BY <2>1, <2>2, Zenon
<1>4. Counted' = Counted
    BY <1>1, <1>2, <1>3 DEF Counted
<1>5. CameBackCancelled \subseteq CameBackCancelled'
    BY <1>1, <1>3 DEF CameBackCancelled
<1>6. MutexHolds'
    BY <1>1, <1>2, ActorsAssumption DEF CountInv, MutexHolds, Holds, ObserverHolds
<1>7. CountIsExact'
    BY <1>2, <1>4 DEF CountInv, CountIsExact
<1>8. CancellationIsVisible'
    BY <1>2, <1>4 DEF CountInv, CancellationIsVisible
<1>9. Settled'
    BY <1>1, <1>2, <1>3, <1>5 DEF CountInv, Settled
<1>10. QED
    BY <1>6, <1>7, <1>8, <1>9 DEF CountInv

\* Whoever asks for the count disturbs neither it nor its holder.
LEMMA ObserveKeepsCount ==
    ASSUME CountInv, TypeOK', NEW o \in Observers, Observe(o)
    PROVE  CountInv'
<1>1. /\ opc \in [Observers -> {"idle", "want", "read", "release"}]
      /\ seen \in [Observers -> Nat] /\ before \in [Observers -> SUBSET Calls]
      /\ cancelled \in Nat
    BY DEF CountInv, TypeOK
<1>2. UNCHANGED <<cancelled, pc, tmp, result>>
    BY DEF Observe, Ask, ObserverLock, ObserverRead, ObserverUnlock
<1>3. Counted' = Counted /\ CameBackCancelled' = CameBackCancelled
    BY <1>2 DEF Counted, CameBackCancelled
<1>4. MutexHolds'
    <2>1. CASE Ask(o)
        BY <1>1, <1>2, <2>1 DEF CountInv, MutexHolds, Holds, ObserverHolds, Ask
    <2>2. CASE ObserverLock(o)
        BY <1>1, <1>2, <2>2, ActorsAssumption
            DEF CountInv, MutexHolds, Holds, ObserverHolds, ObserverLock
    <2>3. CASE ObserverRead(o)
        BY <1>1, <1>2, <2>3 DEF CountInv, MutexHolds, Holds, ObserverHolds, ObserverRead
    <2>4. CASE ObserverUnlock(o)
        BY <1>1, <1>2, <2>4, ActorsAssumption
            DEF CountInv, MutexHolds, Holds, ObserverHolds, ObserverUnlock
    <2>5. QED
        BY <2>1, <2>2, <2>3, <2>4 DEF Observe
<1>5. CountIsExact'
    BY <1>2, <1>3 DEF CountInv, CountIsExact
<1>6. CancellationIsVisible'
    <2>1. CASE ObserverRead(o)
        <3>1. Cardinality(before[o]) <= Cardinality(Counted)
            <4>1. before[o] \subseteq Counted
                BY CountedFinite DEF CountInv, Settled
            <4>2. QED
                BY <4>1, CountedFinite, FS_Subset
        <3>2. seen' = [seen EXCEPT ![o] = cancelled] /\ before' = before
              /\ opc' = [opc EXCEPT ![o] = "release"]
            BY <2>1 DEF ObserverRead
        <3>3. cancelled = Cardinality(Counted)
            BY DEF CountInv, CountIsExact
        <3>4. QED
            BY <1>1, <1>3, <3>1, <3>2, <3>3 DEF CountInv, CancellationIsVisible
    <2>2. CASE Ask(o) \/ ObserverLock(o) \/ ObserverUnlock(o)
        <3>1. /\ seen' = seen
              /\ \A p \in Observers : opc'[p] = "release" =>
                    opc[p] = "release" /\ before'[p] = before[p]
            BY <1>1, <2>2 DEF Ask, ObserverLock, ObserverUnlock
        <3>2. QED
            BY <1>3, <3>1 DEF CountInv, CancellationIsVisible
    <2>3. QED
        BY <2>1, <2>2 DEF Observe
<1>7. Settled'
    BY <1>1, <1>2, <1>3 DEF CountInv, Settled, Observe, Ask, ObserverLock, ObserverRead,
                            ObserverUnlock
<1>8. QED
    BY <1>4, <1>5, <1>6, <1>7 DEF CountInv

\* Nothing is counted at first.
LEMMA InitCount == Init => CountInv
<1> SUFFICES ASSUME Init
             PROVE  CountInv
    OBVIOUS
<1>1. Counted = {} /\ CameBackCancelled = {}
    BY DEF Init, Counted, CameBackCancelled, NoResult
<1>2. Cardinality({}) = 0
    BY FS_EmptySet
<1>3. MutexHolds
    BY ActorsAssumption DEF Init, MutexHolds, Holds, ObserverHolds
<1>4. CountIsExact
    BY <1>1, <1>2 DEF Init, CountIsExact
<1>5. CancellationIsVisible
    BY <1>1, <1>2 DEF Init, CancellationIsVisible
<1>6. Settled
    BY <1>1 DEF Init, Settled, NoResult
<1>7. QED
    BY <1>3, <1>4, <1>5, <1>6, InitTypes DEF CountInv

\* The invariant of the count is inductive.
LEMMA NextCount == CountInv /\ [Next]_vars => CountInv'
<1> SUFFICES ASSUME CountInv, [Next]_vars
             PROVE  CountInv'
    OBVIOUS
<1>1. TypeOK'
    BY NextTypes DEF CountInv
<1>2. CASE UNCHANGED vars
    <2>1. Quiet
        BY <1>2 DEF vars, Quiet
    <2>2. QED
        BY <1>1, <2>1, QuietKeepsCount
<1>3. ASSUME NEW c \in Calls, Call(c) \/ EndContext(c) \/ Step(c) \/ Lock(c)
      PROVE  CountInv'
    BY <1>1, <1>3, OutsideKeepsCount, LockKeepsCount, StoreKeepsCount, UnlockKeepsCount
<1>4. ASSUME NEW o \in Observers, Observe(o)
      PROVE  CountInv'
    BY <1>1, <1>4, ObserveKeepsCount
<1>5. QED
    BY <1>2, <1>3, <1>4 DEF Next

\* The invariant of the count holds throughout.
LEMMA CountInductive == Spec => []CountInv
    BY InitCount, NextCount, PTL DEF Spec

\* No increment is lost to two generations ending at once, however many end.
THEOREM CountNeverLoses == Spec => []CountIsExact
<1>1. CountInv => CountIsExact
    BY DEF CountInv
<1>2. QED
    BY <1>1, CountInductive, PTL

\* What holds the mutex is what the program counters say, for any number of
\* goroutines, and a loaded count is still the count when it is stored.
THEOREM CountIsGuarded == Spec => []MutexHolds
<1>1. CountInv => MutexHolds
    BY DEF CountInv
<1>2. QED
    BY <1>1, CountInductive, PTL

\* Cancellations tells a caller of every generation it saw come back cancelled.
THEOREM CountIsVisible == Spec => []CancellationIsVisible
<1>1. CountInv => CancellationIsVisible
    BY DEF CountInv
<1>2. QED
    BY <1>1, CountInductive, PTL

-----------------------------------------------------------------------------
(* Where one call is tells what it has done: what it has handed over, what     *)
(* the engine let it past, and what it came back with.                         *)

Generating == {"word", "sink", "lock", "load", "store", "unlock"}

\* Nothing comes back before the end, and nothing is handed over before the
\* engine is reached.
Waits(c) ==
    /\ pc[c] # "done" => result[c] = NoResult /\ err[c] = NoError
    /\ pc[c] = "idle" => req[c] = NoRequest
    /\ pc[c] \in {"idle", "reach", "hang", "text"} => out[c] = 0
    /\ pc[c] \in {"idle", "reach", "hang"} => at[c] = 0

\* A generation that was let in has handed over a word for every turn of its
\* loop, and none beyond what it may.
HandsOver(c) ==
    /\ pc[c] \in Generating =>
          /\ req[c].op = "generate" /\ req[c].bound > 0
          /\ out[c] = at[c] /\ at[c] <= Words(c)
          /\ behaviour.chunks > 0 => at[c] <= behaviour.chunks
    /\ pc[c] = "sink" => at[c] < Words(c) /\ ~StreamBreaks(c)
    /\ pc[c] = "text" => req[c].op = "embed"

\* An engine that lets nobody past lets nobody past.
Past(c) ==
    /\ pc[c] \in Generating \cup {"text"} =>
          ~behaviour.unreachable /\ ~behaviour.refuse /\ ~behaviour.hang
    /\ pc[c] \in Generating => ~behaviour.overLimit

\* MisbehaviourShows, of one call.
Shows(c) ==
    pc[c] = "done" /\ err[c].kind = None =>
        /\ ~behaviour.unreachable /\ ~behaviour.refuse /\ ~behaviour.hang
        /\ behaviour.model # None => result[c].model # Declared.model
        /\ behaviour.dimension # 0 /\ req[c].op = "embed" =>
              result[c].dimension # Declared.dimension
        /\ req[c].op = "generate" =>
              /\ ~behaviour.overLimit
              /\ behaviour.chunks > 0 =>
                    result[c].finish = "output-limit" /\ req[c].bound <= behaviour.chunks

CallInv(c) == Waits(c) /\ HandsOver(c) /\ Past(c) /\ Shows(c)
CallsInv == TypeOK /\ \A c \in Calls : CallInv(c)

\* A step of one call says nothing of another.
LEMMA OthersKeep ==
    ASSUME CallsInv, NEW d \in Calls, UNCHANGED behaviour,
           pc'[d] = pc[d], req'[d] = req[d], at'[d] = at[d], out'[d] = out[d],
           result'[d] = result[d], err'[d] = err[d]
    PROVE  CallInv(d)'
<1>1. CallInv(d)
    BY DEF CallsInv
<1>2. Waits(d)'
    BY <1>1 DEF CallInv, Waits
<1>3. HandsOver(d)'
    BY <1>1 DEF CallInv, HandsOver, Words, StreamBreaks
<1>4. Past(d)'
    BY <1>1 DEF CallInv, Past
<1>5. Shows(d)'
    BY <1>1 DEF CallInv, Shows
<1> QED
    BY <1>2, <1>3, <1>4, <1>5 DEF CallInv

\* A step changes one call at most.
LEMMA OneMoves ==
    ASSUME TypeOK, NEW c \in Calls, Call(c) \/ EndContext(c) \/ Step(c) \/ Lock(c),
           NEW d \in Calls, d # c
    PROVE  /\ pc'[d] = pc[d] /\ req'[d] = req[d] /\ at'[d] = at[d] /\ out'[d] = out[d]
           /\ result'[d] = result[d] /\ err'[d] = err[d] /\ UNCHANGED behaviour
<1>1. CASE Call(c) \/ EndContext(c) \/ Lock(c)
    BY <1>1 DEF TypeOK, Call, EndContext, Lock, Goto
<1>2. CASE ReachEnded(c) \/ HangEnds(c) \/ ReachFails(c) \/ TellCapabilities(c)
           \/ RefuseGenerate(c) \/ RefuseTooLong(c) \/ BreakStream(c) \/ SinkFails(c)
           \/ Finish(c) \/ RefuseEmbed(c) \/ EmbedEnded(c) \/ EmbedDone(c)
    <2>1. \E r, e : Answer(c, r, e)
        BY <1>2, Zenon DEF ReachEnded, HangEnds, ReachFails, TellCapabilities, RefuseGenerate,
            RefuseTooLong, BreakStream, SinkFails, Finish, RefuseEmbed, EmbedEnded, EmbedDone
    <2>2. QED
        BY <2>1 DEF TypeOK, Answer, Goto
<1>3. CASE ReachHangs(c) \/ StartGenerate(c) \/ NoticeEnd(c) \/ Emit(c) \/ StartEmbed(c)
           \/ SinkTakes(c) \/ EmbedText(c)
    BY <1>3 DEF TypeOK, ReachHangs, StartGenerate, NoticeEnd, Emit, StartEmbed, SinkTakes,
                EmbedText, Goto
<1>4. CASE Load(c) \/ Store(c) \/ Unlock(c)
    BY <1>4 DEF TypeOK, Load, Store, Unlock, Goto
<1> QED
    BY <1>1, <1>2, <1>3, <1>4 DEF Step

\* What the guards read of one call, and what New let through.
LEMMA CallTyped ==
    ASSUME TypeOK, NEW c \in Calls
    PROVE  /\ at[c] \in Nat /\ out[c] \in Nat
           /\ behaviour.chunks \in Int /\ behaviour.chunks >= 0 /\ behaviour.chunks < AnswerWords
           /\ behaviour.dimension # 0 => behaviour.dimension # Declared.dimension
           /\ behaviour.model # None => behaviour.model # Declared.model
           /\ AnswerWords \in Nat \ {0}
           /\ req[c] \in Requests \cup {NoRequest}
           /\ req[c].bound \in Int /\ Words(c) \in Int
           /\ req[c].bound > 0 => Words(c) > 0 /\ Words(c) <= AnswerWords /\ Words(c) <= req[c].bound
<1>1. behaviour \in Behaviours /\ NewAccepts(behaviour)
    BY DEF TypeOK, Accepted
<1>2. behaviour.chunks \in Int
    BY <1>1, BehavioursAssumption
<1>3. req[c] \in Requests \cup {NoRequest}
    BY DEF TypeOK
<1>4. req[c].bound \in Int
    BY <1>3, RequestsAssumption DEF NoRequest
<1>5. AnswerWords \in Nat \ {0}
    BY AnswerWordsAssumption
<1>6. /\ Words(c) \in Int
      /\ req[c].bound > 0 => Words(c) > 0 /\ Words(c) <= AnswerWords /\ Words(c) <= req[c].bound
    BY <1>4, <1>5 DEF Words
<1>7. at[c] \in Nat /\ out[c] \in Nat
    BY DEF TypeOK
<1> QED
    BY <1>1, <1>2, <1>3, <1>4, <1>5, <1>6, <1>7 DEF NewAccepts

\* A call that comes back with an error has shown what it is.
LEMMA FailureKeeps ==
    ASSUME CallsInv, NEW c \in Calls, NEW e, Answer(c, NoResult, e), e.kind # None
    PROVE  CallInv(c)'
<1>1. pc'[c] = "done" /\ err'[c] = e
    BY DEF CallsInv, TypeOK, Answer, Goto
<1> QED
    BY <1>1 DEF CallInv, Waits, HandsOver, Past, Shows, Generating

\* A failure is the answer of every step that refuses, breaks or ends a call.
LEMMA FailuresKeep ==
    ASSUME CallsInv, NEW c \in Calls,
           \/ ReachEnded(c) \/ HangEnds(c) \/ ReachFails(c) \/ RefuseGenerate(c)
           \/ RefuseTooLong(c) \/ BreakStream(c) \/ SinkFails(c) \/ RefuseEmbed(c)
           \/ EmbedEnded(c)
    PROVE  CallInv(c)'
<1>1. PICK e : Answer(c, NoResult, e) /\ e.kind # None
    BY DEF ReachEnded, HangEnds, ReachFails, RefuseGenerate, RefuseTooLong, BreakStream, SinkFails,
           RefuseEmbed, EmbedEnded, Failed, ContextError
<1> QED
    BY <1>1, FailureKeeps

\* So does an answer that shows the misbehaviour of its engine.
LEMMA AnswersKeep ==
    ASSUME CallsInv, NEW c \in Calls, TellCapabilities(c) \/ Finish(c) \/ EmbedDone(c)
    PROVE  CallInv(c)'
<1> DEFINE told == [NoResult EXCEPT !.model = Serving, !.dimension = Declared.dimension]
           said == [NoResult EXCEPT
                      !.finish = IF AnswerWords > req[c].bound THEN "output-limit" ELSE "complete",
                      !.tokens = out[c], !.model = Serving]
           made == [NoResult EXCEPT !.model = Serving, !.vectors = at[c], !.dimension = Dimension]
<1>1. CallInv(c) /\ TypeOK
    BY DEF CallsInv
<1>2. /\ told.model = Serving /\ said.model = Serving /\ made.model = Serving
      /\ made.dimension = Dimension
      /\ said.finish = IF AnswerWords > req[c].bound THEN "output-limit" ELSE "complete"
    BY DEF NoResult
<1>3. behaviour.model # None => Serving # Declared.model
    BY <1>1, CallTyped DEF Serving
<1>4. behaviour.dimension # 0 => Dimension # Declared.dimension
    BY <1>1, CallTyped DEF Dimension
<1>5. pc \in [Calls -> PCs] /\ result \in [Calls -> Results] /\ err \in [Calls -> Errors]
    BY <1>1 DEF TypeOK, PCs, Results
<1>6. \/ TellCapabilities(c) /\ Answer(c, told, NoError)
      \/ Finish(c) /\ Answer(c, said, NoError)
      \/ EmbedDone(c) /\ Answer(c, made, NoError)
    BY Zenon DEF TellCapabilities, Finish, EmbedDone
<1> HIDE DEF told, said, made
<1>7. \A r : Answer(c, r, NoError) =>
          pc'[c] = "done" /\ result'[c] = r /\ UNCHANGED <<behaviour, req>>
    BY <1>5 DEF Answer, Goto
<1>8. SUFFICES Shows(c)'
    BY <1>6, <1>7 DEF CallInv, Waits, HandsOver, Past, Generating
<1>9. CASE TellCapabilities(c) /\ Answer(c, told, NoError)
    BY <1>2, <1>3, <1>7, <1>9 DEF TellCapabilities, Reached, Shows
<1>10. CASE Finish(c) /\ Answer(c, said, NoError)
    <2>1. pc[c] = "word" /\ at[c] = Words(c)
        BY <1>10 DEF Finish
    <2>2. /\ req[c].op = "generate" /\ req[c].bound > 0
          /\ behaviour.chunks > 0 => at[c] <= behaviour.chunks
          /\ ~behaviour.unreachable /\ ~behaviour.refuse /\ ~behaviour.hang /\ ~behaviour.overLimit
        BY <1>1, <2>1 DEF CallInv, HandsOver, Past, Generating
    <2>3. behaviour.chunks > 0 => AnswerWords > req[c].bound /\ req[c].bound <= behaviour.chunks
        BY <1>1, <2>1, <2>2, CallTyped DEF Words
    <2>4. behaviour.chunks > 0 => said.finish = "output-limit"
        BY <1>2, <2>3
    <2>5. pc'[c] = "done" /\ result'[c] = said /\ UNCHANGED <<behaviour, req>>
        BY <1>7, <1>10
    <2>6. QED
        BY <1>2, <1>3, <2>2, <2>3, <2>4, <2>5 DEF Shows
<1>11. CASE EmbedDone(c) /\ Answer(c, made, NoError)
    <2>1. pc[c] = "text"
        BY <1>11 DEF EmbedDone
    <2>2. req[c].op = "embed" /\ ~behaviour.unreachable /\ ~behaviour.refuse /\ ~behaviour.hang
        BY <1>1, <2>1 DEF CallInv, HandsOver, Past
    <2>3. pc'[c] = "done" /\ result'[c] = made /\ UNCHANGED <<behaviour, req>>
        BY <1>7, <1>11
    <2>4. QED
        BY <1>2, <1>3, <1>4, <2>2, <2>3 DEF Shows
<1> QED
    BY <1>6, <1>9, <1>10, <1>11

\* A call that goes on keeps count of what it hands over.
LEMMA MovesKeep ==
    ASSUME CallsInv, NEW c \in Calls,
           \/ Call(c) \/ ReachHangs(c) \/ StartGenerate(c) \/ NoticeEnd(c) \/ Emit(c) \/ SinkTakes(c)
           \/ StartEmbed(c) \/ EmbedText(c) \/ EndContext(c) \/ Lock(c) \/ Load(c) \/ Store(c)
    PROVE  CallInv(c)'
<1>1. CallInv(c) /\ TypeOK
    BY DEF CallsInv
<1>2. /\ pc \in [Calls -> PCs] /\ at \in [Calls -> Nat] /\ out \in [Calls -> Nat]
      /\ req \in [Calls -> Requests \cup {NoRequest}]
      /\ result \in [Calls -> Results] /\ err \in [Calls -> Errors]
    BY <1>1 DEF TypeOK, PCs, Results
<1>3. (UNCHANGED <<behaviour, result, err>> /\ pc'[c] # "done") \/ EndContext(c)
    BY <1>2 DEF Call, ReachHangs, StartGenerate, NoticeEnd, Emit, SinkTakes, StartEmbed, EmbedText,
        Lock, Load, Store, Goto
<1>4. CASE EndContext(c)
    <2>1. UNCHANGED <<behaviour, callVars>>
        BY <1>4 DEF EndContext
    <2>2. QED
        BY <2>1, OthersKeep
<1>5. CASE Call(c) \/ ReachHangs(c)
    BY <1>1, <1>2, <1>3, <1>5 DEF Call, ReachHangs, Goto, CallInv, Waits, HandsOver, Past, Shows,
        Generating
<1>6. CASE StartGenerate(c)
    <2>1. pc[c] = "reach" /\ pc' = [pc EXCEPT ![c] = "word"] /\ UNCHANGED <<req, at, out>>
        BY <1>6 DEF StartGenerate, Goto, Reached
    <2>2. /\ at[c] = 0 /\ out[c] = 0 /\ result[c] = NoResult /\ err[c] = NoError
        BY <1>1, <2>1 DEF CallInv, Waits
    <2>3. Words(c) >= 0 /\ Words(c)' = Words(c) /\ req[c].bound > 0
        BY <1>1, <1>6, <2>1, CallTyped DEF StartGenerate, Askable, Words
    <2>4. QED
        BY <1>1, <1>2, <1>3, <1>6, <2>1, <2>2, <2>3, CallTyped
            DEF StartGenerate, Reached, TooLong, CallInv, Waits, HandsOver, Past, Shows, Generating
<1>7. CASE NoticeEnd(c) \/ Lock(c) \/ Load(c) \/ Store(c)
    <2>1. /\ pc[c] \in Generating \ {"sink"} /\ pc'[c] \in Generating \ {"sink"}
          /\ UNCHANGED <<behaviour, req, at, out, result, err>>
        BY <1>2, <1>7 DEF NoticeEnd, Lock, Load, Store, Goto, Generating
    <2>2. QED
        BY <1>1, <2>1
            DEF CallInv, Waits, HandsOver, Past, Shows, Generating, Words
<1>8. CASE Emit(c)
    <2>1. /\ pc[c] = "word" /\ pc'[c] = "sink" /\ UNCHANGED <<behaviour, req, at, out, result, err>>
          /\ at[c] < Words(c) /\ ~StreamBreaks(c)
        BY <1>2, <1>8 DEF Emit, Goto
    <2>2. QED
        BY <1>1, <2>1
            DEF CallInv, Waits, HandsOver, Past, Shows, Generating, Words, StreamBreaks
<1>9. CASE SinkTakes(c)
    <2>1. /\ pc[c] = "sink" /\ pc'[c] = "word" /\ UNCHANGED <<behaviour, req, result, err>>
          /\ at'[c] = at[c] + 1 /\ out'[c] = out[c] + 1
        BY <1>2, <1>9 DEF SinkTakes, Goto
    <2>2. /\ req[c].op = "generate" /\ req[c].bound > 0
          /\ out[c] = at[c] /\ at[c] < Words(c)
          /\ behaviour.chunks > 0 => at[c] <= behaviour.chunks /\ at[c] # behaviour.chunks
        BY <1>1, <2>1 DEF CallInv, HandsOver, Generating, StreamBreaks
    <2>3. /\ at'[c] <= Words(c) /\ Words(c)' = Words(c)
          /\ behaviour.chunks > 0 => at'[c] <= behaviour.chunks
        BY <1>1, <1>3, <1>9, <2>1, <2>2, CallTyped DEF SinkTakes, Words
    <2>4. QED
        BY <1>1, <2>1, <2>2, <2>3 DEF CallInv, Waits, HandsOver, Past, Shows, Generating
<1>10. CASE StartEmbed(c) \/ EmbedText(c)
    BY <1>1, <1>2, <1>3, <1>10
        DEF StartEmbed, EmbedText, Reached, Goto, CallInv, Waits, HandsOver, Past, Shows, Generating
<1> QED
    BY <1>4, <1>5, <1>6, <1>7, <1>8, <1>9, <1>10

\* A generation that was cancelled comes back with the context's error.
LEMMA UnlockKeeps ==
    ASSUME CallsInv, NEW c \in Calls, Unlock(c)
    PROVE  CallInv(c)'
<1>1. err' = [err EXCEPT ![c] = ContextError(c)] /\ pc' = [pc EXCEPT ![c] = "done"]
    BY Zenon DEF Unlock, Goto
<1>2. pc'[c] = "done" /\ err'[c].kind # None
    BY <1>1 DEF CallsInv, TypeOK, ContextError
<1> QED
    BY <1>2 DEF CallInv, Waits, HandsOver, Past, Shows, Generating

\* What is known of every call holds throughout.
LEMMA CallsInductive == Spec => []CallsInv
<1>1. Init => CallsInv
    <2> SUFFICES ASSUME Init, NEW c \in Calls
                 PROVE  CallInv(c)
        BY InitTypes DEF CallsInv
    <2>1. QED
        BY DEF Init, CallInv, Waits, HandsOver, Past, Shows, Generating
<1>2. CallsInv /\ [Next]_vars => CallsInv'
    <2> SUFFICES ASSUME CallsInv, [Next]_vars
                 PROVE  CallsInv'
        OBVIOUS
    <2>1. TypeOK /\ TypeOK'
        BY NextTypes DEF CallsInv
    <2>2. CASE UNCHANGED <<behaviour, callVars>>
        BY <2>1, <2>2, OthersKeep DEF CallsInv
    <2>3. ASSUME NEW c \in Calls, Call(c) \/ EndContext(c) \/ Step(c) \/ Lock(c)
          PROVE  CallsInv'
        <3>1. CallInv(c)'
            BY <2>3, FailuresKeep, AnswersKeep, MovesKeep, UnlockKeeps DEF Step
        <3>2. \A d \in Calls : d # c => CallInv(d)'
            BY <2>1, <2>3, OneMoves, OthersKeep
        <3>3. QED
            BY <2>1, <3>1, <3>2 DEF CallsInv
    <2>4. ASSUME NEW o \in Observers, Observe(o)
          PROVE  UNCHANGED <<behaviour, callVars>>
        BY <2>4 DEF Observe, Ask, ObserverLock, ObserverRead, ObserverUnlock
    <2>5. QED
        BY <2>2, <2>3, <2>4 DEF Next, vars
<1> QED
    BY <1>1, <1>2, PTL DEF Spec

\* A test that configured a misbehaviour gets it, whatever else it configured
\* and however many calls it makes at once: it fails, or names the other model,
\* or embeds at the other dimension.  Only a stream told to break that is asked
\* for no more words than it has before the break ends at its bound instead.
THEOREM MisbehaviourAlwaysShows == Spec => []MisbehaviourShows
<1>1. CallsInv => MisbehaviourShows
    BY DEF CallsInv, CallInv, Shows, MisbehaviourShows
<1> QED
    BY <1>1, CallsInductive, PTL

-----------------------------------------------------------------------------
(* The refinement.  The contract's state is read off one call at a time, so  *)
(* a step of one call is a step of the contract, or of nobody.               *)

Stage(c) == IF ~Generates(c) THEN "idle" ELSE IF pc[c] = "done" THEN "returned" ELSE "open"
Bound(c) == IF Generates(c) THEN req[c].bound ELSE 0
Told(c) == IF Generates(c) THEN out[c] ELSE 0
Reply(c) ==
    IF ~Generates(c) THEN [finish |-> None, tokens |-> 0, err |-> None]
    ELSE [finish |-> result[c].finish, tokens |-> result[c].tokens,
          err |-> IF err[c].kind = "context" THEN err[c].cause ELSE err[c].kind]

Stages == [c \in Calls |-> Stage(c)]
Limits == [c \in Calls |-> Bound(c)]
Tellings == [c \in Calls |-> Told(c)]
Replies == [c \in Calls |-> Reply(c)]

\* The contract sees of a step what it does to the call that takes it.
LEMMA OneShows ==
    ASSUME TypeOK, NEW c \in Calls, Call(c) \/ EndContext(c) \/ Step(c) \/ Lock(c)
    PROVE  /\ Stages' = [Stages EXCEPT ![c] = Stage(c)']
           /\ Limits' = [Limits EXCEPT ![c] = Bound(c)']
           /\ Tellings' = [Tellings EXCEPT ![c] = Told(c)']
           /\ Replies' = [Replies EXCEPT ![c] = Reply(c)']
<1>1. ASSUME NEW d \in Calls, d # c
      PROVE  /\ Stage(d)' = Stage(d) /\ Bound(d)' = Bound(d)
             /\ Told(d)' = Told(d) /\ Reply(d)' = Reply(d)
    <2>1. /\ pc'[d] = pc[d] /\ req'[d] = req[d] /\ out'[d] = out[d]
          /\ result'[d] = result[d] /\ err'[d] = err[d]
        BY <1>1, OneMoves, Zenon
    <2>2. Generates(d)' <=> Generates(d)
        BY <2>1 DEF Generates
    <2>3. QED
        BY <2>1, <2>2, Zenon DEF Stage, Bound, Told, Reply
<1>2. Stages' = [Stages EXCEPT ![c] = Stage(c)']
    BY <1>1 DEF Stages
<1>3. Limits' = [Limits EXCEPT ![c] = Bound(c)']
    BY <1>1 DEF Limits
<1>4. Tellings' = [Tellings EXCEPT ![c] = Told(c)']
    BY <1>1 DEF Tellings
<1>5. Replies' = [Replies EXCEPT ![c] = Reply(c)']
    BY <1>1 DEF Replies
<1> QED
    BY <1>2, <1>3, <1>4, <1>5, Zenon

\* The contract's state, by the names it has here.
LEMMA ContractState ==
    /\ Contract!contractVars = <<ctx, Stages, Limits, Tellings, Replies>>
    /\ Contract!contractVars' = <<ctx', Stages', Limits', Tellings', Replies'>>
    BY Zenon DEF Contract!contractVars, Stages, Limits, Tellings, Replies, Stage, Bound, Told, Reply

\* A step that leaves what the contract reads of its call is a stutter.
LEMMA ShowsNothing ==
    ASSUME TypeOK, NEW c \in Calls, Call(c) \/ Step(c) \/ Lock(c), ctx' = ctx,
           Stage(c)' = Stage(c), Bound(c)' = Bound(c), Told(c)' = Told(c), Reply(c)' = Reply(c)
    PROVE  UNCHANGED Contract!contractVars
<1>1. Stages' = Stages /\ Limits' = Limits /\ Tellings' = Tellings /\ Replies' = Replies
    BY OneShows DEF Stages, Limits, Tellings, Replies
<1> QED
    BY <1>1, ContractState, Zenon

\* A generation that is asked for is opened.
LEMMA CallOpens ==
    ASSUME CallsInv, NEW c \in Calls, Call(c)
    PROVE  Contract!Open(c) \/ UNCHANGED Contract!contractVars
<1>1. TypeOK /\ CallInv(c)
    BY DEF CallsInv
<1>2. /\ req[c] = NoRequest /\ out[c] = 0 /\ result[c] = NoResult /\ err[c] = NoError
    BY <1>1 DEF Call, CallInv, Waits
<1>3. PICK r \in Requests : req' = [req EXCEPT ![c] = r]
    BY DEF Call
<1>4. /\ req'[c] = r /\ pc'[c] = "reach" /\ UNCHANGED <<ctx, out, result, err>>
    BY <1>1, <1>3 DEF Call, Goto, TypeOK
<1>5. /\ Stage(c) = "idle" /\ Told(c) = 0 /\ Bound(c) = 0
      /\ Reply(c) = [finish |-> None, tokens |-> 0, err |-> None]
    BY <1>2 DEF Stage, Told, Bound, Reply, Generates, NoRequest
<1>6. Told(c)' = 0 /\ Reply(c)' = [finish |-> None, tokens |-> 0, err |-> None]
    BY <1>2, <1>4 DEF Told, Reply, NoResult, NoError
<1>7. CASE r.op = "generate"
    <2>1. Stage(c)' = "open" /\ Bound(c)' = r.bound
        BY <1>4, <1>7 DEF Stage, Bound, Generates
    <2>2. /\ Stages[c] = "idle" /\ Stages' = [Stages EXCEPT ![c] = "open"]
          /\ Limits' = [Limits EXCEPT ![c] = r.bound]
          /\ Tellings' = Tellings /\ Replies' = Replies
        <3>1. Stages[c] = "idle"
            BY <1>5 DEF Stages
        <3>2. Tellings' = Tellings /\ Replies' = Replies
            BY <1>1, <1>5, <1>6, OneShows DEF Tellings, Replies
        <3>3. QED
            BY <1>1, <2>1, <3>1, <3>2, OneShows
    <2>3. r.bound \in {q.bound : q \in Requests}
        OBVIOUS
    <2>4. Contract!Open(c)
        BY <1>4, <2>2, <2>3, Zenon
            DEF Contract!Open, Stages, Limits, Tellings, Replies, Stage, Bound, Told, Reply
    <2>5. QED
        BY <2>4
<1>8. CASE r.op # "generate"
    <2>1. Stage(c)' = "idle" /\ Bound(c)' = 0
        BY <1>4, <1>8 DEF Stage, Bound, Generates
    <2>2. QED
        BY <1>1, <1>4, <1>5, <1>6, <2>1, ShowsNothing
<1> QED
    BY <1>7, <1>8

\* A generation that comes back returns what the contract reads of it.
LEMMA ReturnShows ==
    ASSUME TypeOK, NEW c \in Calls, Step(c), Generates(c), pc[c] # "done", pc'[c] = "done",
           UNCHANGED <<ctx, req, out>>, NEW a, Reply(c)' = a
    PROVE  Contract!Return(c, a)
<1>1. Stage(c) = "open" /\ Stage(c)' = "returned" /\ Bound(c)' = Bound(c) /\ Told(c)' = Told(c)
    BY DEF Stage, Bound, Told, Generates
<1>2. Stages[c] = "open"
    BY <1>1 DEF Stages
<1>3. /\ Stages' = [Stages EXCEPT ![c] = "returned"] /\ Replies' = [Replies EXCEPT ![c] = a]
      /\ Limits' = [Limits EXCEPT ![c] = Bound(c)] /\ Tellings' = [Tellings EXCEPT ![c] = Told(c)]
    BY <1>1, OneShows
<1>4. Limits' = Limits /\ Tellings' = Tellings
    BY <1>3 DEF Limits, Tellings
<1> QED
    BY <1>2, <1>3, <1>4, Zenon
        DEF Contract!Return, Stages, Limits, Tellings, Replies, Stage, Bound, Told, Reply

\* What the contract reads of an answer.
LEMMA AnswerShows ==
    ASSUME TypeOK, NEW c \in Calls, NEW r, NEW e, Answer(c, r, e)
    PROVE  /\ pc'[c] = "done" /\ result'[c] = r /\ err'[c] = e
           /\ UNCHANGED <<ctx, req, out>> /\ UNCHANGED behaviour
           /\ Generates(c) =>
                Reply(c)' = [finish |-> r.finish, tokens |-> r.tokens,
                             err |-> IF e.kind = "context" THEN e.cause ELSE e.kind]
<1>1. /\ pc'[c] = "done" /\ result'[c] = r /\ err'[c] = e
      /\ UNCHANGED <<ctx, req, out>> /\ UNCHANGED behaviour
    BY DEF TypeOK, Answer, Goto
<1>2. Generates(c)' <=> Generates(c)
    BY <1>1 DEF Generates
<1> QED
    BY <1>1, <1>2, Zenon DEF Reply

\* What is told of a generation, by the name it has here.
LEMMA ToldHere == \A c \in Calls : Tellings[c] = Told(c) /\ Limits[c] = Bound(c)
    BY DEF Tellings, Limits

\* A failure of a generation is one the contract allows there.
LEMMA FailureShows ==
    ASSUME CallsInv, NEW c \in Calls, Generates(c),
           \/ ReachEnded(c) \/ HangEnds(c) \/ ReachFails(c) \/ RefuseGenerate(c)
           \/ RefuseTooLong(c) \/ BreakStream(c) \/ SinkFails(c)
    PROVE  Contract!Fail(c) \/ Contract!SinkRefuses(c)
<1>1. TypeOK /\ CallInv(c) /\ Step(c)
    BY DEF CallsInv, Step
<1>2. pc[c] \in {"reach", "hang", "word", "sink"}
    BY DEF ReachEnded, HangEnds, ReachFails, RefuseGenerate, RefuseTooLong, BreakStream, SinkFails,
           Reached
<1>3. pc[c] \in {"reach", "hang"} => Tellings[c] = 0
    BY <1>1, ToldHere DEF CallInv, Waits, Told
<1>4. \A e : Answer(c, NoResult, e) =>
          Contract!Return(c, Contract!Failure(IF e.kind = "context" THEN e.cause ELSE e.kind))
    <2> SUFFICES ASSUME NEW e, Answer(c, NoResult, e)
                 PROVE  Contract!Return(c, Contract!Failure(
                            IF e.kind = "context" THEN e.cause ELSE e.kind))
        OBVIOUS
    <2> DEFINE a == [finish |-> None, tokens |-> 0,
                     err |-> IF e.kind = "context" THEN e.cause ELSE e.kind]
    <2>1. NoResult.finish = None /\ NoResult.tokens = 0
        BY DEF NoResult
    <2>2. pc'[c] = "done" /\ UNCHANGED <<ctx, req, out>> /\ Reply(c)' = a
        <3>1. Reply(c)' = [finish |-> NoResult.finish, tokens |-> NoResult.tokens,
                           err |-> IF e.kind = "context" THEN e.cause ELSE e.kind]
            BY <1>1, AnswerShows, Zenon
        <3>2. pc'[c] = "done" /\ UNCHANGED <<ctx, req, out>>
            BY <1>1, AnswerShows, Zenon
        <3>3. QED
            BY <2>1, <3>1, <3>2, Zenon
    <2>3. a = Contract!Failure(IF e.kind = "context" THEN e.cause ELSE e.kind)
        BY DEF Contract!Failure, Contract!None
    <2>4. Contract!Return(c, a)
        <3> HIDE DEF a
        <3>1. QED
            BY <1>1, <1>2, <2>2, ReturnShows
    <2>5. QED
        BY <2>3, <2>4, Zenon
<1>5. CASE ReachEnded(c)
    <2>1. PICK e : /\ Answer(c, NoResult, e) /\ ctx[c] # "live" /\ pc[c] = "reach"
                   /\ e.kind = "context" /\ e.cause = ctx[c]
        BY <1>5 DEF ReachEnded, ContextError
    <2>2. Contract!Return(c, Contract!Failure(ctx[c]))
        <3>1. Contract!Return(c, Contract!Failure(e.cause))
            BY <1>4, <2>1, Zenon
        <3>2. QED
            BY <2>1, <3>1, Zenon DEF Contract!Return
    <2>3. ctx[c] # "live" /\ Tellings[c] = 0 /\ Contract!Return(c, Contract!Failure(ctx[c]))
        BY <1>3, <2>1, <2>2
    <2>4. QED
        BY <2>3, Zenon DEF Contract!Fail, Tellings, Told
<1>6. CASE HangEnds(c) \/ ReachFails(c) \/ RefuseGenerate(c) \/ RefuseTooLong(c)
    <2>1. PICK e : /\ Answer(c, NoResult, e) /\ e.kind # "context"
                   /\ e.kind \in {"unreachable", "refused", "over-limit"}
        BY <1>6 DEF HangEnds, ReachFails, RefuseGenerate, RefuseTooLong, Failed
    <2>2. Contract!Return(c, Contract!Failure(e.kind))
        BY <1>4, <2>1
    <2>3. Tellings[c] = 0 /\ e.kind \in Contract!Kinds
        BY <1>3, <1>6, <2>1 DEF HangEnds, ReachFails, RefuseGenerate, RefuseTooLong, Reached,
            Contract!Kinds
    <2>4. QED
        BY <2>2, <2>3, Zenon DEF Contract!Fail, Tellings, Told
<1>7. CASE BreakStream(c)
    <2>1. Answer(c, NoResult, Failed("malformed")) /\ Failed("malformed").kind = "malformed"
        BY <1>7 DEF BreakStream, Failed
    <2>2. Contract!Return(c, Contract!Failure("malformed"))
        BY <1>4, <2>1
    <2>3. QED
        BY <2>2, Zenon DEF Contract!Fail
<1>8. CASE SinkFails(c)
    <2>1. Answer(c, NoResult, Failed("sink")) /\ Failed("sink").kind = "sink"
        BY <1>8 DEF SinkFails, Failed
    <2>2. Contract!Return(c, Contract!Failure("sink"))
        BY <1>4, <2>1
    <2>3. QED
        BY <2>2, Zenon DEF Contract!SinkRefuses
<1> QED
    BY <1>5, <1>6, <1>7, <1>8

\* A word the sink takes is one the bound allows.
LEMMA SinkDelivers ==
    ASSUME CallsInv, NEW c \in Calls, SinkTakes(c)
    PROVE  Contract!Deliver(c)
<1>1. TypeOK /\ CallInv(c) /\ Step(c) /\ pc[c] = "sink" /\ UNCHANGED <<ctx, req, result, err>>
    BY DEF CallsInv, Step, SinkTakes
<1>2. Generates(c) /\ req[c].bound > 0 /\ out[c] = at[c] /\ at[c] < Words(c)
    BY <1>1 DEF CallInv, HandsOver, Generating, Generates
<1>3. pc'[c] = "word" /\ out'[c] = out[c] + 1 /\ Generates(c)'
    BY <1>1, <1>2 DEF SinkTakes, TypeOK, Goto, Generates
<1>4. out[c] < req[c].bound
    BY <1>1, <1>2, CallTyped
<1>5. /\ Stage(c) = "open" /\ Stage(c)' = "open" /\ Bound(c)' = Bound(c) /\ Bound(c) = req[c].bound
      /\ Told(c) = out[c] /\ Told(c)' = Told(c) + 1 /\ Reply(c)' = Reply(c)
    BY <1>1, <1>2, <1>3 DEF Stage, Bound, Told, Reply, Generates
<1>6. /\ Stages[c] = "open" /\ Tellings[c] < Limits[c]
      /\ Stages' = Stages /\ Limits' = Limits /\ Replies' = Replies
    <2>1. Stages[c] = "open" /\ Tellings[c] < Limits[c]
        BY <1>4, <1>5, ToldHere DEF Stages
    <2>2. Stages' = Stages /\ Limits' = Limits /\ Replies' = Replies
        BY <1>1, <1>5, OneShows DEF Stages, Limits, Replies
    <2>3. QED
        BY <2>1, <2>2
<1>7. Tellings' = [Tellings EXCEPT ![c] = Tellings[c] + 1]
    BY <1>1, <1>5, OneShows, ToldHere
<1> QED
    BY <1>1, <1>6, <1>7, Zenon
        DEF Contract!Deliver, Stages, Limits, Tellings, Replies, Stage, Bound, Told, Reply

\* A generation that finishes says whether the bound or the engine stopped it.
LEMMA FinishShows ==
    ASSUME CallsInv, NEW c \in Calls, Finish(c)
    PROVE  Contract!Complete(c) \/ Contract!StopAtBound(c)
<1> DEFINE how == IF AnswerWords > req[c].bound THEN "output-limit" ELSE "complete"
           said == [NoResult EXCEPT !.finish = how, !.tokens = out[c], !.model = Serving]
           a == [finish |-> how, tokens |-> out[c], err |-> None]
<1>1. TypeOK /\ CallInv(c) /\ Step(c) /\ pc[c] = "word" /\ at[c] = Words(c)
    BY DEF CallsInv, Step, Finish
<1>2. Generates(c) /\ req[c].bound > 0 /\ out[c] = Words(c)
    BY <1>1 DEF CallInv, HandsOver, Generating, Generates
<1>3. Answer(c, said, NoError) /\ NoError.kind = None
    BY Zenon DEF Finish, NoError
<1>4. said.finish = how /\ said.tokens = out[c]
    BY DEF NoResult
<1>5. /\ Tellings[c] = out[c] /\ Limits[c] = req[c].bound
    BY <1>2, ToldHere DEF Told, Bound
<1>6. out[c] > 0 /\ (AnswerWords > req[c].bound => out[c] = req[c].bound)
    BY <1>1, <1>2, CallTyped DEF Words
<1>7. Contract!Return(c, a)
    <2>1. Reply(c)' = a /\ pc'[c] = "done" /\ UNCHANGED <<ctx, req, out>>
        <3> HIDE DEF said, how
        <3>1. /\ Reply(c)' = [finish |-> said.finish, tokens |-> said.tokens,
                              err |-> IF NoError.kind = "context" THEN NoError.cause
                                      ELSE NoError.kind]
              /\ pc'[c] = "done" /\ UNCHANGED <<ctx, req, out>>
            BY <1>1, <1>2, <1>3, AnswerShows, Zenon
        <3>2. QED
            BY <1>3, <1>4, <3>1
    <2> HIDE DEF a
    <2>2. PICK v : v = a
        OBVIOUS
    <2>3. Contract!Return(c, v)
        BY <1>1, <1>2, <2>1, <2>2, ReturnShows
    <2>4. QED
        BY <2>2, <2>3, Zenon DEF Contract!Return
<1>8. CASE AnswerWords > req[c].bound
    <2>1. a = [finish |-> "output-limit", tokens |-> Tellings[c], err |-> Contract!None]
        BY <1>5, <1>8 DEF Contract!None
    <2>2. Tellings[c] > 0 /\ Tellings[c] = Limits[c]
        BY <1>5, <1>6, <1>8
    <2>3. Contract!Return(c, [finish |-> "output-limit", tokens |-> Tellings[c],
                              err |-> Contract!None])
        BY <1>7, <2>1, Zenon DEF Contract!Return
    <2>4. QED
        BY <2>2, <2>3, Zenon
            DEF Contract!StopAtBound, Tellings, Limits, Told, Bound
<1>9. CASE ~(AnswerWords > req[c].bound)
    <2>1. a = [finish |-> "complete", tokens |-> Tellings[c], err |-> Contract!None]
        BY <1>5, <1>9 DEF Contract!None
    <2>2. Tellings[c] > 0
        BY <1>5, <1>6
    <2>3. Contract!Return(c, [finish |-> "complete", tokens |-> Tellings[c],
                              err |-> Contract!None])
        BY <1>7, <2>1, Zenon DEF Contract!Return
    <2>4. QED
        BY <2>2, <2>3, Zenon DEF Contract!Complete, Tellings, Told
<1> QED
    BY <1>8, <1>9

\* A cancelled generation comes back with what was produced.
LEMMA UnlockCancels ==
    ASSUME CallsInv, NEW c \in Calls, Unlock(c)
    PROVE  Contract!Cancel(c)
<1> DEFINE r == [NoResult EXCEPT !.finish = "cancelled", !.tokens = out[c], !.model = Serving]
           a == [finish |-> "cancelled", tokens |-> Tellings[c], err |-> ctx[c]]
<1>1. TypeOK /\ CallInv(c) /\ Step(c) /\ pc[c] = "unlock" /\ ctx[c] # "live"
    BY DEF CallsInv, Step, Unlock, TypeOK
<1>2. Generates(c) /\ Tellings[c] = out[c]
    BY <1>1, ToldHere DEF CallInv, HandsOver, Generating, Generates, Told
<1>3. r.finish = "cancelled" /\ r.tokens = out[c]
    BY DEF NoResult
<1>4. /\ result' = [result EXCEPT ![c] = r] /\ err' = [err EXCEPT ![c] = ContextError(c)]
      /\ pc' = [pc EXCEPT ![c] = "done"] /\ UNCHANGED <<ctx, req, out>>
    BY Zenon DEF Unlock, Goto
<1>5. Contract!Return(c, a)
    <2> HIDE DEF r
    <2>1. /\ pc'[c] = "done" /\ result'[c] = r /\ err'[c] = ContextError(c)
        BY <1>1, <1>4 DEF TypeOK
    <2>2. err'[c].kind = "context" /\ err'[c].cause = ctx[c] /\ Generates(c)'
        BY <1>2, <1>4, <2>1 DEF ContextError, Generates
    <2>3. Reply(c)' = a
        BY <1>2, <1>3, <2>1, <2>2 DEF Reply
    <2> HIDE DEF a
    <2>4. PICK v : v = a
        OBVIOUS
    <2>5. Contract!Return(c, v)
        BY <1>1, <1>2, <1>4, <2>1, <2>3, <2>4, ReturnShows
    <2>6. QED
        BY <2>4, <2>5, Zenon DEF Contract!Return
<1> QED
    BY <1>1, <1>5, Zenon DEF Contract!Cancel, Tellings, Told

\* What is left shows nothing of itself: the contract says nothing of how a
\* generation is let in, of its count, or of the other operations.
LEMMA OthersShowNothing ==
    ASSUME CallsInv, NEW c \in Calls,
           \/ ReachHangs(c) \/ StartGenerate(c) \/ NoticeEnd(c) \/ Emit(c) \/ Lock(c) \/ Load(c)
           \/ Store(c) \/ StartEmbed(c) \/ EmbedText(c)
           \/ ~Generates(c) /\ Step(c)
    PROVE  UNCHANGED Contract!contractVars
<1>1. TypeOK /\ CallInv(c) /\ (Step(c) \/ Lock(c))
    BY DEF CallsInv, Step
<1>2. CASE \/ ReachHangs(c) \/ StartGenerate(c) \/ NoticeEnd(c) \/ Emit(c) \/ Lock(c) \/ Load(c)
           \/ Store(c) \/ StartEmbed(c) \/ EmbedText(c)
    <2>1. /\ UNCHANGED <<ctx, req, out, result, err>>
          /\ pc[c] # "done" /\ pc'[c] # "done"
        BY <1>1, <1>2 DEF TypeOK, Goto, ReachHangs, StartGenerate, NoticeEnd, Emit, Lock, Load, Store,
            StartEmbed, EmbedText, Reached
    <2>2. Stage(c)' = Stage(c) /\ Bound(c)' = Bound(c) /\ Told(c)' = Told(c) /\ Reply(c)' = Reply(c)
        BY <2>1 DEF Stage, Bound, Told, Reply, Generates
    <2>3. QED
        BY <1>1, <2>1, <2>2, ShowsNothing
<1>3. CASE ~Generates(c) /\ Step(c)
    <2>1. UNCHANGED <<ctx, req>>
        BY <1>3 DEF Step, ReachEnded, HangEnds, ReachFails, TellCapabilities, RefuseGenerate,
            RefuseTooLong, BreakStream, SinkFails, Finish, RefuseEmbed, EmbedEnded, EmbedDone, Answer,
            ReachHangs, StartGenerate, NoticeEnd, Emit, SinkTakes, Load, Store, Unlock, StartEmbed,
            EmbedText
    <2>2. ~Generates(c) /\ ~Generates(c)'
        BY <1>3, <2>1 DEF Generates
    <2>3. Stage(c)' = Stage(c) /\ Bound(c)' = Bound(c) /\ Told(c)' = Told(c) /\ Reply(c)' = Reply(c)
        BY <2>2 DEF Stage, Bound, Told, Reply
    <2>4. QED
        BY <1>1, <1>3, <2>1, <2>3, ShowsNothing
<1> QED
    BY <1>2, <1>3

\* The end of a context is the contract's own.
LEMMA ContextEnds ==
    ASSUME TypeOK, NEW c \in Calls, EndContext(c)
    PROVE  Contract!EndContext(c)
<1>1. Stages' = Stages /\ Limits' = Limits /\ Tellings' = Tellings /\ Replies' = Replies
    BY Zenon DEF EndContext, Stages, Limits, Tellings, Replies, Stage, Bound, Told, Reply, Generates
<1>2. ctx[c] = "live" /\ \E why \in Contract!Endings : ctx' = [ctx EXCEPT ![c] = why]
    BY DEF EndContext, Endings, Contract!Endings
<1> QED
    BY <1>1, <1>2, Zenon
        DEF Contract!EndContext, Stages, Limits, Tellings, Replies, Stage, Bound, Told, Reply

\* Every step of the fake is a step of the contract or a stutter.
LEMMA StepsShow ==
    ASSUME CallsInv, [Next]_vars
    PROVE  [Contract!Next]_Contract!contractVars
<1>1. ASSUME NEW c \in Calls, Call(c) \/ EndContext(c) \/ Step(c) \/ Lock(c)
      PROVE  [Contract!Next]_Contract!contractVars
    <2>1. TypeOK
        BY DEF CallsInv
    <2>2. CASE Call(c)
        BY <2>2, CallOpens DEF Contract!Next
    <2>3. CASE EndContext(c)
        BY <2>1, <2>3, ContextEnds DEF Contract!Next
    <2>4. CASE ~Generates(c) /\ Step(c)
        BY <2>4, OthersShowNothing
    <2>5. CASE Generates(c) /\ Step(c)
        <3>1. ~TellCapabilities(c) /\ ~RefuseEmbed(c)
            BY <2>5 DEF TellCapabilities, RefuseEmbed, Reached, Generates
        <3>2. ~EmbedEnded(c) /\ ~EmbedDone(c)
            BY <2>5 DEF EmbedEnded, EmbedDone, Generates, CallsInv, CallInv, HandsOver
        <3>3. CASE \/ ReachEnded(c) \/ HangEnds(c) \/ ReachFails(c) \/ RefuseGenerate(c)
                   \/ RefuseTooLong(c) \/ BreakStream(c) \/ SinkFails(c)
            BY <2>5, <3>3, FailureShows DEF Contract!Next
        <3>4. CASE SinkTakes(c) \/ Finish(c) \/ Unlock(c)
            BY <3>4, SinkDelivers, FinishShows, UnlockCancels DEF Contract!Next
        <3>5. CASE \/ ReachHangs(c) \/ StartGenerate(c) \/ NoticeEnd(c) \/ Emit(c) \/ Load(c)
                   \/ Store(c) \/ StartEmbed(c) \/ EmbedText(c)
            BY <3>5, OthersShowNothing
        <3>6. QED
            BY <2>5, <3>1, <3>2, <3>3, <3>4, <3>5 DEF Step
    <2>6. CASE Lock(c)
        BY <2>6, OthersShowNothing
    <2>7. QED
        BY <1>1, <2>2, <2>3, <2>4, <2>5, <2>6
<1>2. CASE UNCHANGED <<ctx, callVars>>
    <2>1. Stages' = Stages /\ Limits' = Limits /\ Tellings' = Tellings /\ Replies' = Replies
        BY <1>2, Zenon DEF Stages, Limits, Tellings, Replies, Stage, Bound, Told, Reply, Generates
    <2>2. QED
        BY <1>2, <2>1, ContractState, Zenon
<1>3. ASSUME NEW o \in Observers, Observe(o)
      PROVE  UNCHANGED <<ctx, callVars>>
    BY <1>3 DEF Observe, Ask, ObserverLock, ObserverRead, ObserverUnlock
<1> QED
    BY <1>1, <1>2, <1>3 DEF Next, vars

\* Every Generate of the fake, beside any number of others, is one the contract
\* of the Runtime interface allows: text before the return and none beyond the
\* bound, an ending told by what came back, and nothing left by a failure.
THEOREM FakeKeepsContract == Spec => ImplementsContract
<1>1. Init => Contract!Init
    <2> SUFFICES ASSUME Init
                 PROVE  Contract!Init
        OBVIOUS
    <2>1. ASSUME NEW c \in Calls
          PROVE  Stage(c) = "idle" /\ Bound(c) = 0 /\ Told(c) = 0 /\ Reply(c) = Contract!Unanswered
        BY DEF Init, Stage, Bound, Told, Reply, Generates, NoRequest, Contract!Unanswered,
            Contract!None
    <2>2. /\ Stages = [c \in Calls |-> "idle"] /\ Limits = [c \in Calls |-> 0]
          /\ Tellings = [c \in Calls |-> 0] /\ Replies = [c \in Calls |-> Contract!Unanswered]
        BY <2>1 DEF Stages, Limits, Tellings, Replies
    <2>3. ctx = [c \in Calls |-> "live"]
        BY DEF Init
    <2>4. QED
        BY <2>2, <2>3, Zenon
            DEF Contract!Init, Stages, Limits, Tellings, Replies, Stage, Bound, Told, Reply
<1>2. CallsInv /\ [Next]_vars => [Contract!Next]_Contract!contractVars
    BY StepsShow
<1> QED
    BY <1>1, <1>2, CallsInductive, PTL DEF Spec, ImplementsContract, Contract!Spec

-----------------------------------------------------------------------------
(* The suite: every case is accounted for, and a leak is told from what the  *)
(* cases before it left.                                                     *)

Last == Len(Cases)
Measuring == phase \in {"quiesce", "generate", "settle", "judge"}

Typed ==
    /\ phase \in {"start", "refused", "pick", "quiesce", "generate", "settle", "judge", "done"}
    /\ turn \in 1 .. Last + 1
    /\ unwinding \in Nat /\ workers \in Nat /\ slow \in Nat /\ slow <= workers
    /\ last \in Nat /\ baseline \in Nat /\ after \in Nat /\ there \in Nat /\ waited \in Nat /\ gone \in Nat

\* The goroutines that are there are the others until the generation begins its
\* own; a reading is what is left of them and what has gone since.  What was
\* read last is as many as are still there, and without the adapter's own no
\* more than the baseline.
Measured ==
    /\ Measuring => turn = Cancellation
    /\ turn <= Cancellation /\ phase \notin {"settle", "judge"} => workers = 0 /\ slow = 0
    /\ phase = "quiesce" => last = unwinding + gone
    /\ phase \in {"generate", "settle", "judge"} => baseline = unwinding + gone
    /\ phase = "judge" => unwinding + workers <= after /\ after <= baseline + there

\* The cases before this one, and this one while its goroutines are counted,
\* have been met with; nothing has before the run begins.
Met ==
    /\ ran \cup declined \cup unreached = 1 .. (IF Measuring THEN turn ELSE turn - 1)
    /\ ran \cap declined = {} /\ ran \cap unreached = {} /\ declined \cap unreached = {}
    /\ failed \subseteq ran
    /\ Measuring => Cancellation \in ran
    /\ phase = "done" => turn = Last + 1

\* Every case that was not run has its reason, and every one that was has said
\* what it found.
Reasoned ==
    /\ phase \notin {"start", "refused"} => Validate(subject)
    /\ \A k \in declined : Cases[k].condition \in DOMAIN subject.cannot
    /\ \A k \in unreached : Cases[k].embeddings /\ ~subject.embeddings
    /\ \A k \in ran : Cases[k].looksAt \cap flaws # {} => k \in failed \/ (Measuring /\ k = turn)
    /\ phase \in {"settle", "judge"} => Cases[turn].looksAt \cap flaws = {}

Inv == Typed /\ Measured /\ Met /\ Reasoned

\* There are ten cases, and the cancellation is the fourth of them.
LEMMA TheCases == Last = 10 /\ DOMAIN Cases = 1 .. Last /\ Cancellation = 4
    BY DEF Last, Cases, Cancellation

\* A step that is not about goroutines keeps what has been counted of them.
LEMMA TypesStay == Inv /\ SuiteNext => Typed'
<1> SUFFICES ASSUME Inv, SuiteNext
             PROVE  Typed'
    OBVIOUS
<1> USE TheCases DEF Inv, Typed
<1>1. CASE Refuse \/ Begin \/ Decline \/ PassOver \/ RunCase \/ FinishSuite
    BY <1>1 DEF Refuse, Begin, Decline, PassOver, RunCase, FinishSuite, Verdict, goVars, readVars, Last
<1>2. CASE TakeBaseline
    BY <1>2 DEF TakeBaseline, Count, goVars
<1>3. CASE Quiesce
    BY <1>3 DEF Quiesce, Count, goVars
<1>4. CASE Generate
    <2>1. CASE UNCHANGED goVars
        BY <1>4, <2>1, BoundsAssumption DEF Generate, Verdict, goVars, Measured, Measuring
    <2>2. CASE ~UNCHANGED goVars
        BY <1>4, <2>2, BoundsAssumption DEF Generate, Verdict, goVars, Measured, Measuring
    <2>3. QED
        BY <2>1, <2>2
<1>5. CASE Settle
    BY <1>5 DEF Settle, Verdict, goVars, Measured, Measuring
<1>6. CASE Goroutines
    BY <1>6 DEF Goroutines, Unwind, WorkerEnds, readVars
<1>7. CASE ReadCount
    BY <1>7 DEF ReadCount, Count, goVars
<1> QED
    BY <1>1, <1>2, <1>3, <1>4, <1>5, <1>6, <1>7, Zenon DEF SuiteNext

\* A reading is as many as there were, and the ones that have gone are known.
LEMMA MeasuresStay == Inv /\ SuiteNext => Measured'
<1> SUFFICES ASSUME Inv, SuiteNext
             PROVE  Measured'
    OBVIOUS
<1> USE TheCases DEF Inv, Typed, Measured, Measuring
<1>1. CASE Refuse \/ Begin \/ Decline \/ PassOver \/ RunCase \/ FinishSuite
    BY <1>1 DEF Refuse, Begin, Decline, PassOver, RunCase, FinishSuite, Verdict, goVars, readVars, Last
<1>2. CASE TakeBaseline
    BY <1>2 DEF TakeBaseline, Count, goVars
<1>3. CASE Quiesce
    BY <1>3 DEF Quiesce, Count, goVars
<1>4. CASE Generate
    BY <1>4, BoundsAssumption DEF Generate, Verdict, goVars
<1>5. CASE Settle
    BY <1>5 DEF Settle, Verdict, goVars
<1>6. CASE Goroutines
    BY <1>6 DEF Goroutines, Unwind, WorkerEnds, readVars
<1>7. CASE ReadCount
    BY <1>7 DEF ReadCount, Count, goVars
<1> QED
    BY <1>1, <1>2, <1>3, <1>4, <1>5, <1>6, <1>7, Zenon DEF SuiteNext

\* A case is met with once, in its turn.
LEMMA MeetingsStay == Inv /\ SuiteNext => Met'
<1> SUFFICES ASSUME Inv, SuiteNext
             PROVE  Met'
    OBVIOUS
<1> USE TheCases DEF Inv, Typed, Measured, Measuring, Met
<1>1. CASE Refuse \/ Begin
    BY <1>1 DEF Refuse, Begin, countVars
<1>2. CASE Decline
    BY <1>2 DEF Decline
<1>3. CASE PassOver
    BY <1>3 DEF PassOver
<1>4. CASE RunCase
    BY <1>4 DEF RunCase, Verdict
<1>5. CASE FinishSuite
    BY <1>5 DEF FinishSuite, countVars, Last
<1>6. CASE TakeBaseline
    BY <1>6 DEF TakeBaseline
<1>7. CASE Quiesce
    BY <1>7 DEF Quiesce, countVars
<1>8. CASE Generate
    BY <1>8 DEF Generate, Verdict, countVars
<1>9. CASE Settle
    BY <1>9 DEF Settle, Verdict, countVars
<1>10. CASE Goroutines
    BY <1>10 DEF Goroutines, Unwind, WorkerEnds, countVars
<1>11. CASE ReadCount
    BY <1>11 DEF ReadCount, countVars
<1> QED
    BY <1>1, <1>2, <1>3, <1>4, <1>5, <1>6, <1>7, <1>8, <1>9, <1>10, <1>11, Zenon DEF SuiteNext

\* A case has found what it can by the time the next begins.
LEMMA ReasonsStay == Inv /\ SuiteNext => Reasoned'
<1> SUFFICES ASSUME Inv, SuiteNext
             PROVE  Reasoned'
    OBVIOUS
<1> USE TheCases DEF Inv, Typed, Measured, Measuring, Met, Reasoned
<1>1. UNCHANGED <<subject, flaws>> /\ UNCHANGED Cases
    BY DEF SuiteNext, Refuse, Begin, Decline, PassOver, RunCase, FinishSuite, TakeBaseline, Quiesce, Generate,
        ReadCount, Settle, Goroutines, Unwind, WorkerEnds, suiteVars, Cases, Case
<1>2. (phase \notin {"start", "refused"} => Validate(subject))'
    <2>1. phase' \notin {"start", "refused"} => Validate(subject)
        BY DEF SuiteNext, Refuse, Begin, Decline, PassOver, RunCase, FinishSuite, TakeBaseline, Quiesce,
            Generate, ReadCount, Settle, Goroutines, Unwind, WorkerEnds, Verdict
    <2>2. QED
        BY <1>1, <2>1, Zenon DEF Validate
<1>3. CASE Refuse \/ Begin
    BY <1>1, <1>2, <1>3 DEF Refuse, Begin, countVars
<1>4. CASE Decline
    BY <1>1, <1>2, <1>4 DEF Decline, Declined, case
<1>5. CASE PassOver
    BY <1>1, <1>2, <1>5 DEF PassOver, Unreached, case
<1>6. CASE RunCase
    BY <1>1, <1>2, <1>6 DEF RunCase, Verdict, case
<1>7. CASE FinishSuite
    BY <1>1, <1>2, <1>7 DEF FinishSuite, countVars
<1>8. CASE TakeBaseline
    BY <1>1, <1>2, <1>8 DEF TakeBaseline
<1>9. CASE Quiesce
    BY <1>1, <1>2, <1>9 DEF Quiesce, countVars
<1>10. CASE Generate
    BY <1>1, <1>2, <1>10 DEF Generate, Verdict, countVars, case
<1>11. CASE Settle
    BY <1>1, <1>2, <1>11 DEF Settle, Verdict, countVars
<1>12. CASE Goroutines
    BY <1>1, <1>2, <1>12 DEF Goroutines, Unwind, WorkerEnds, countVars
<1>13. CASE ReadCount
    BY <1>1, <1>2, <1>13 DEF ReadCount, countVars
<1> QED
    BY <1>3, <1>4, <1>5, <1>6, <1>7, <1>8, <1>9, <1>10, <1>11, <1>12, <1>13, Zenon DEF SuiteNext

\* Whatever is wrong with an adapter, the suite keeps its count.
LEMMA InvInductive == SuiteSpec => []Inv
<1>1. SuiteInit => Inv
    BY TheCases DEF SuiteInit, Inv, Typed, Measured, Measuring, Met, Reasoned, Last
<1>2. Inv /\ [SuiteNext]_runVars => Inv'
    <2>1. Inv /\ UNCHANGED runVars => Inv'
        BY DEF Inv, Typed, Measured, Measuring, Met, Reasoned, Validate, runVars, suiteVars, countVars,
            goVars, readVars
    <2>2. QED
        BY <2>1, TypesStay, MeasuresStay, MeetingsStay, ReasonsStay DEF Inv
<1> QED
    BY <1>1, <1>2, PTL DEF SuiteSpec

\* For any subjects: no case is lost, whatever those before it reported, and a
\* run that reports nothing has found nothing it was free to look for.
THEOREM EveryCaseIsAccounted == SuiteSpec => []EveryCaseAccounted
<1>1. Inv => EveryCaseAccounted
    <2> SUFFICES ASSUME Inv
                 PROVE  EveryCaseAccounted
        OBVIOUS
    <2>1. phase = "done" => ran \cup declined \cup unreached = DOMAIN Cases
        BY TheCases DEF Inv, Met, Measuring
    <2>2. ASSUME phase = "done", failed = {}, NEW k \in DOMAIN Cases, Cases[k].looksAt \cap flaws # {}
          PROVE  \/ Cases[k].embeddings /\ ~subject.embeddings
                 \/ Cases[k].condition \in DOMAIN subject.cannot \ {"healthy"}
        <3>1. k \notin ran
            BY <2>2 DEF Inv, Reasoned, Measuring
        <3>2. k \in declined \/ k \in unreached
            BY <2>1, <2>2, <3>1
        <3>3. \A c \in DOMAIN subject.cannot : c # "healthy"
            BY <2>2 DEF Inv, Reasoned, Validate
        <3>4. QED
            BY <3>2, <3>3 DEF Inv, Reasoned
    <2>3. QED
        BY <2>1, <2>2 DEF Inv, Met, EveryCaseAccounted
<1> QED
    BY <1>1, InvInductive, PTL

\* However many goroutines come and go, and whenever they do, between a reading
\* and its judgement too: no sound adapter is refused unless a goroutine of its
\* own was there at the last reading, and none is passed that left more behind
\* for good than ended meanwhile.
THEOREM LeaksAreAlwaysToldApart == SuiteSpec => LeaksAreToldApart
<1>1. ASSUME Inv, SuiteNext
      PROVE  /\ Cancellation \in failed' \ failed /\ subject.arranged /\ flaws = {} => there > 0
             /\ phase = "judge" /\ phase' = "pick" /\ Cancellation \notin failed' => workers - slow <= gone
    <2> USE <1>1, TheCases DEF Inv, Typed, Measured, Measuring
    <2>1. CASE Settle
        BY <2>1 DEF Settle, Verdict
    <2>2. CASE RunCase
        BY <2>2 DEF RunCase, Verdict, case
    <2>3. CASE Generate
        BY <2>3 DEF Generate, Verdict, countVars, case
    <2>4. CASE ~(Settle \/ RunCase \/ Generate)
        BY <2>4 DEF SuiteNext, Refuse, Begin, Decline, PassOver, FinishSuite, TakeBaseline, Quiesce, ReadCount,
            Goroutines, Unwind, WorkerEnds
    <2>5. QED
        BY <2>1, <2>2, <2>3, <2>4
<1> QED
    BY <1>1, InvInductive, PTL DEF SuiteSpec, LeaksAreToldApart

=============================================================================
