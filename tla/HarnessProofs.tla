---------------------------- MODULE HarnessProofs ---------------------------
(***************************************************************************)
(* For any suites, cases and requirements: what the roster and a skipped    *)
(* case say is what the cases of the suite met with, and no outcome and no   *)
(* first refusal is ever taken back.                                         *)
(***************************************************************************)
EXTENDS Harness, TLAPS

USE DEF NotAsked, Refused, Ran, Outcomes, Doings, caseVars, suiteVars, mainVars

\* What the assumptions say of one case.
LEMMA Constants ==
    /\ \A c \in Cases : SuiteOf[c] \in Suites /\ Needs[SuiteOf[c]] \in Seq(Requirements)
    /\ NoWords \notin Requirements /\ Nobody \notin Cases
<1> QED
    BY SuitesAssumption, WordsAssumption

\* What Start waits for is one of the requirements.
LEMMA WantedType ==
    ASSUME TypeOK, NEW c \in Cases, need[c] <= Len(Needs[SuiteOf[c]])
    PROVE  Wanted(c) \in Requirements
<1>1. need[c] \in Nat \ {0} /\ Needs[SuiteOf[c]] \in Seq(Requirements)
    BY Constants DEF TypeOK
<1> QED
    BY <1>1 DEF Wanted

-----------------------------------------------------------------------------
(* Types *)

\* The machine, the selection and the case's own steps keep the types.
LEMMA CaseTypes ==
    ASSUME TypeOK, NEW c \in Cases,
           Select(c) \/ Register(c) \/ Body(c) \/ Pass(c) \/ Start(c) \/ Met(c)
    PROVE  TypeOK'
<1> USE Constants DEF TypeOK, Goto, Labels, Over
<1>1. CASE Select(c)    BY <1>1 DEF Select
<1>2. CASE Register(c)  BY <1>2 DEF Register
<1>3. CASE Body(c)
    <2>1. CASE at' = [at EXCEPT ![c] = @ + 1] /\ UNCHANGED pc
        BY <1>3, <2>1 DEF Body
    <2>2. CASE pc' = [pc EXCEPT ![c] = "failed"] /\ UNCHANGED at
        BY <1>3, <2>2 DEF Body
    <2> QED
        BY <1>3, <2>1, <2>2 DEF Body
<1>4. CASE Pass(c)      BY <1>4 DEF Pass
<1>5. CASE Start(c)     BY <1>5 DEF Start
<1>6. CASE Met(c)       BY <1>6 DEF Met
<1> QED
    BY <1>1, <1>2, <1>3, <1>4, <1>5, <1>6

\* Start keeps the types from what it finds to what it tells.
LEMMA StartTypes ==
    ASSUME TypeOK, NEW c \in Cases,
           pc[c] = "checking" => verdict[c] = NotAsked,
           \/ FindMissing(c) \/ FindNothingMissing(c) \/ Lock(c) \/ Compare(c)
           \/ Raise(c) \/ KeepWords(c) \/ Unlock(c) \/ Skip(c)
    PROVE  TypeOK'
<1> USE Constants DEF TypeOK, Goto, Labels, Over
<1>1. CASE FindMissing(c)
    <2>1. Wanted(c) \in Requirements
        BY <1>1, WantedType DEF FindMissing
    <2> QED
        BY <1>1, <2>1 DEF FindMissing
<1>2. CASE FindNothingMissing(c)    BY <1>2 DEF FindNothingMissing
<1>3. CASE Lock(c)                  BY <1>3 DEF Lock
<1>4. CASE Compare(c)               BY <1>4 DEF Compare
<1>5. CASE Raise(c)                 BY <1>5 DEF Raise
<1>6. CASE KeepWords(c)             BY <1>6 DEF KeepWords
<1>7. CASE Unlock(c)                BY <1>7 DEF Unlock
<1>8. CASE Skip(c)                  BY <1>8 DEF Skip
<1> QED
    BY <1>1, <1>2, <1>3, <1>4, <1>5, <1>6, <1>7, <1>8

\* The machine and TestMain keep the types.
LEMMA MainTypes ==
    ASSUME TypeOK,
           \/ \E r \in Requirements : Change(r)
           \/ CasesEnd \/ Die \/ Report
    PROVE  TypeOK'
<1> USE DEF TypeOK
<1>1. CASE \E r \in Requirements : Change(r)    BY <1>1 DEF Change
<1>2. CASE CasesEnd                             BY <1>2 DEF CasesEnd
<1>3. CASE Die                                  BY <1>3 DEF Die
<1>4. ASSUME NEW s \in Suites, ReadOutcome(s)
      PROVE  TypeOK'
    BY <1>4 DEF ReadOutcome, Line
<1>5. CASE Write                                BY <1>5 DEF Write
<1>6. CASE WriteFails                           BY <1>6 DEF WriteFails
<1> QED
    BY <1>1, <1>2, <1>3, <1>4, <1>5, <1>6 DEF Report

-----------------------------------------------------------------------------
(* Where a case stands                                                      *)

Inside == {"compare", "raise", "word", "unlock"}      \* with the mutex
Recording == Inside \cup {"lock"}

AtStart(c) == at[c] \in DOMAIN program[c] /\ program[c][at[c]] = "start"
PastStart(c) == \E i \in DOMAIN program[c] : i < at[c] /\ program[c][i] = "start"

\* A case has a verdict from the moment its Start found one, and a refused one
\* does nothing more than to record it and to skip.
Standing ==
    \A c \in Cases :
        /\ pc[c] \in {"unselected", "checking"} => verdict[c] = NotAsked
        /\ pc[c] \in Recording => verdict[c] # NotAsked
        /\ pc[c] \in {"skip", "skipped"} => verdict[c] = Refused
        /\ pc[c] \in {"running", "passed", "failed"} => verdict[c] # Refused
        /\ pc[c] \in Recording \cup {"checking"} => AtStart(c)
        /\ pc[c] = "running" /\ verdict[c] # NotAsked => PastStart(c)

\* The case that is recording a suite holds its mutex.
MutexHolds == \A c \in Cases : pc[c] \in Inside => mu[SuiteOf[c]] = c

\* A case at its Start has not been there before.
LEMMA StartIsNew ==
    ASSUME TypeOK, Standing, NEW c \in Cases, Does(c, "start")
    PROVE  verdict[c] = NotAsked
<1>1. program \in Programs /\ program[c] \in Seq(Doings)
    BY ProgramsAssumption DEF TypeOK
<1>2. at[c] \in DOMAIN program[c]
    BY <1>1 DEF Does, TypeOK
<1>3. ~PastStart(c)
    BY <1>1, <1>2, OneStartAssumption DEF Does, PastStart, TypeOK
<1> QED
    BY <1>3 DEF Standing, Does

\* A step of a case changes where that case stands and no other.
LEMMA StandingStep ==
    ASSUME TypeOK, Standing, NEW c \in Cases, Select(c) \/ Step(c) \/ Wait(c)
    PROVE  Standing'
<1> SUFFICES ASSUME NEW d \in Cases
             PROVE  /\ pc'[d] \in {"unselected", "checking"} => verdict'[d] = NotAsked
                    /\ pc'[d] \in Recording => verdict'[d] # NotAsked
                    /\ pc'[d] \in {"skip", "skipped"} => verdict'[d] = Refused
                    /\ pc'[d] \in {"running", "passed", "failed"} => verdict'[d] # Refused
                    /\ pc'[d] \in Recording \cup {"checking"} => AtStart(d)'
                    /\ pc'[d] = "running" /\ verdict'[d] # NotAsked => PastStart(d)'
    BY DEF Standing
<1> USE DEF TypeOK, Standing, Goto, Inside, Recording, AtStart, PastStart, Does, Labels, Over
<1>1. CASE Select(c)    BY <1>1 DEF Select
<1>2. CASE Register(c)  BY <1>2 DEF Register
<1>3. CASE Body(c)
    <2>1. CASE at' = [at EXCEPT ![c] = @ + 1] /\ UNCHANGED pc
        BY <1>3, <2>1 DEF Body
    <2>2. CASE pc' = [pc EXCEPT ![c] = "failed"] /\ UNCHANGED at
        BY <1>3, <2>2 DEF Body
    <2> QED
        BY <1>3, <2>1, <2>2 DEF Body
<1>4. CASE Pass(c)      BY <1>4 DEF Pass
<1>5. CASE Start(c)
    <2>1. verdict[c] = NotAsked
        BY <1>5, StartIsNew DEF Start
    <2> QED
        BY <1>5, <2>1 DEF Start
<1>6. CASE Met(c)                   BY <1>6 DEF Met
<1>7. CASE FindMissing(c)           BY <1>7 DEF FindMissing
<1>8. CASE FindNothingMissing(c)    BY <1>8 DEF FindNothingMissing
<1>9. CASE Lock(c)                  BY <1>9 DEF Lock
<1>10. CASE Compare(c)              BY <1>10 DEF Compare
<1>11. CASE Raise(c)                BY <1>11 DEF Raise
<1>12. CASE KeepWords(c)            BY <1>12 DEF KeepWords
<1>13. CASE Unlock(c)               BY <1>13 DEF Unlock
<1>14. CASE Skip(c)                 BY <1>14 DEF Skip
<1> QED
    BY <1>1, <1>2, <1>3, <1>4, <1>5, <1>6, <1>7, <1>8, <1>9, <1>10, <1>11, <1>12, <1>13, <1>14
       DEF Step, Wait

\* So does the mutex.
LEMMA MutexStep ==
    ASSUME TypeOK, MutexHolds, NEW c \in Cases, Select(c) \/ Step(c) \/ Wait(c)
    PROVE  MutexHolds'
<1> USE Constants DEF TypeOK, MutexHolds, Goto, Inside, Labels, Over
<1>1. CASE Select(c)    BY <1>1 DEF Select
<1>2. CASE Register(c)  BY <1>2 DEF Register
<1>3. CASE Body(c)      BY <1>3 DEF Body
<1>4. CASE Pass(c)      BY <1>4 DEF Pass
<1>5. CASE Start(c)     BY <1>5 DEF Start
<1>6. CASE Met(c)       BY <1>6 DEF Met
<1>7. CASE FindMissing(c)           BY <1>7 DEF FindMissing
<1>8. CASE FindNothingMissing(c)    BY <1>8 DEF FindNothingMissing
<1>9. CASE Lock(c)                  BY <1>9 DEF Lock, Free
<1>10. CASE Compare(c)              BY <1>10 DEF Compare
<1>11. CASE Raise(c)                BY <1>11 DEF Raise
<1>12. CASE KeepWords(c)            BY <1>12 DEF KeepWords
<1>13. CASE Unlock(c)               BY <1>13 DEF Unlock
<1>14. CASE Skip(c)                 BY <1>14 DEF Skip
<1> QED
    BY <1>1, <1>2, <1>3, <1>4, <1>5, <1>6, <1>7, <1>8, <1>9, <1>10, <1>11, <1>12, <1>13, <1>14
       DEF Step, Wait

-----------------------------------------------------------------------------
(* What a suite keeps                                                       *)

Kept ==
    /\ \A c \in Cases :
          /\ pc[c] = "raise" => verdict[c] > outcome[SuiteOf[c]]
          /\ pc[c] \notin {"lock", "compare", "raise"} => verdict[c] <= outcome[SuiteOf[c]]
          /\ verdict[c] = Refused /\ pc[c] \notin Recording \ {"unlock"} =>
                refusal[SuiteOf[c]] # NoWords
          /\ pc[c] = "skipped" => told[c] = refusal[SuiteOf[c]]
    /\ \A s \in Suites :
          /\ outcome[s] # NotAsked => \E c \in Of(s) : verdict[c] = outcome[s]
          /\ refusal[s] # NoWords => \E c \in Of(s) : words[c] = refusal[s]

\* A step of a case that records nothing changes nothing that was kept.
Aside(c) ==
    /\ pc[c] \notin Recording \ {"unlock"} /\ pc'[c] \notin Recording /\ pc'[c] # "skipped"
    /\ \A d \in Cases \ {c} : pc'[d] = pc[d]
    /\ UNCHANGED <<verdict, words, told, outcome, refusal>>

\* So what is kept stays true.
LEMMA AsideKeeps ==
    ASSUME TypeOK, Kept, NEW c \in Cases, Aside(c)
    PROVE  Kept'
<1> QED
    BY Constants DEF Kept, Aside, Of, Recording, Inside

\* What a Start finds is new, and not yet kept.
LEMMA FindingKeeps ==
    ASSUME TypeOK, Standing, Kept, NEW c \in Cases, FindMissing(c) \/ FindNothingMissing(c)
    PROVE  Kept'
<1> USE Constants DEF TypeOK, Goto, Labels, Over, Of
<1>1. verdict[c] = NotAsked /\ words[c] = NoWords /\ pc[c] = "checking" /\ pc'[c] = "lock"
    BY DEF FindMissing, FindNothingMissing, Standing
<1>2. /\ \A d \in Cases \ {c} : pc'[d] = pc[d] /\ verdict'[d] = verdict[d] /\ words'[d] = words[d]
      /\ UNCHANGED <<told, outcome, refusal>>
    BY DEF FindMissing, FindNothingMissing
<1>3. \A d \in Cases :
          /\ pc'[d] = "raise" => verdict'[d] > outcome'[SuiteOf[d]]
          /\ pc'[d] \notin {"lock", "compare", "raise"} => verdict'[d] <= outcome'[SuiteOf[d]]
          /\ verdict'[d] = Refused /\ pc'[d] \notin Recording \ {"unlock"} =>
                refusal'[SuiteOf[d]] # NoWords
          /\ pc'[d] = "skipped" => told'[d] = refusal'[SuiteOf[d]]
    BY <1>1, <1>2 DEF Kept, Recording, Inside
<1>4. \A s \in Suites :
          /\ outcome[s] # NotAsked => \E d \in Of(s) : d # c /\ verdict[d] = outcome[s]
          /\ refusal[s] # NoWords => \E d \in Of(s) : d # c /\ words[d] = refusal[s]
    BY <1>1 DEF Kept
<1>5. \A s \in Suites :
          /\ outcome'[s] # NotAsked => \E d \in Of(s) : verdict'[d] = outcome'[s]
          /\ refusal'[s] # NoWords => \E d \in Of(s) : words'[d] = refusal'[s]
    <2> SUFFICES ASSUME NEW s \in Suites
                 PROVE  /\ outcome'[s] # NotAsked => \E d \in Of(s) : verdict'[d] = outcome'[s]
                        /\ refusal'[s] # NoWords => \E d \in Of(s) : words'[d] = refusal'[s]
        OBVIOUS
    <2>1. ASSUME outcome'[s] # NotAsked PROVE \E d \in Of(s) : verdict'[d] = outcome'[s]
        <3>1. PICK d \in Of(s) : d # c /\ verdict[d] = outcome[s]
            BY <1>2, <1>4, <2>1
        <3> QED
            BY <1>2, <3>1
    <2>2. ASSUME refusal'[s] # NoWords PROVE \E d \in Of(s) : words'[d] = refusal'[s]
        <3>1. PICK d \in Of(s) : d # c /\ words[d] = refusal[s]
            BY <1>2, <1>4, <2>2
        <3> QED
            BY <1>2, <3>1
    <2> QED
        BY <2>1, <2>2
<1> QED
    BY <1>3, <1>5 DEF Kept

\* With the mutex a case raises the outcome and never lowers it, and keeps the
\* words only where there were none.
LEMMA RecordKeeps ==
    ASSUME TypeOK, Standing, MutexHolds, Kept, NEW c \in Cases,
           Lock(c) \/ Compare(c) \/ Raise(c) \/ KeepWords(c) \/ Skip(c)
    PROVE  Kept'
<1> USE Constants DEF TypeOK, Goto, Labels, Over, Of, Recording, Inside
<1>1. CASE Lock(c)          BY <1>1 DEF Lock, Kept
<1>2. CASE Compare(c)
    <2>1. verdict[c] \in 0..2 /\ outcome[SuiteOf[c]] \in 0..2
        OBVIOUS
    <2>2. /\ \A d \in Cases \ {c} : pc'[d] = pc[d]
          /\ UNCHANGED <<verdict, words, told, outcome, refusal>>
        BY <1>2 DEF Compare
    <2>3. CASE verdict[c] > outcome[SuiteOf[c]]
        <3>1. pc'[c] = "raise"
            BY <1>2, <2>3 DEF Compare
        <3> QED
            BY <2>2, <2>3, <3>1 DEF Kept
    <2>4. CASE ~(verdict[c] > outcome[SuiteOf[c]])
        <3>1. pc'[c] = "word" /\ verdict[c] <= outcome[SuiteOf[c]]
            BY <1>2, <2>1, <2>4 DEF Compare
        <3> QED
            BY <2>2, <3>1 DEF Kept
    <2> QED
        BY <2>3, <2>4
<1>3. CASE Raise(c)
    <2>1. \A d \in Cases \ {c} : SuiteOf[d] = SuiteOf[c] => pc[d] \notin Inside
        BY <1>3 DEF Raise, MutexHolds
    <2>2. /\ verdict[c] > outcome[SuiteOf[c]] /\ verdict[c] # NotAsked
          /\ outcome' = [outcome EXCEPT ![SuiteOf[c]] = verdict[c]]
          /\ pc' = [pc EXCEPT ![c] = "word"]
          /\ UNCHANGED <<verdict, words, told, refusal>>
        BY <1>3 DEF Raise, Kept, Standing
    <2>3. \A d \in Cases :
              /\ pc'[d] = "raise" => verdict'[d] > outcome'[SuiteOf[d]]
              /\ pc'[d] \notin {"lock", "compare", "raise"} => verdict'[d] <= outcome'[SuiteOf[d]]
        <3> SUFFICES ASSUME NEW d \in Cases
                     PROVE  /\ pc'[d] = "raise" => verdict'[d] > outcome'[SuiteOf[d]]
                            /\ pc'[d] \notin {"lock", "compare", "raise"} =>
                                   verdict'[d] <= outcome'[SuiteOf[d]]
            OBVIOUS
        <3>1. CASE d = c
            <4>1. pc'[c] = "word" /\ verdict'[c] = verdict[c] /\ outcome'[SuiteOf[c]] = verdict[c]
                BY <2>2
            <4>2. verdict[c] \in 0..2
                OBVIOUS
            <4> QED
                BY <3>1, <4>1, <4>2
        <3>2. CASE d # c /\ SuiteOf[d] = SuiteOf[c]
            <4>1. pc[d] \notin Inside /\ pc'[d] = pc[d]
                BY <2>1, <2>2, <3>2
            <4>2. pc[d] # "lock" => verdict[d] <= outcome[SuiteOf[d]]
                BY <4>1 DEF Kept
            <4>3. verdict'[d] = verdict[d] /\ outcome'[SuiteOf[d]] = verdict[c]
                BY <2>2, <3>2
            <4>4. verdict[d] \in 0..2 /\ outcome[SuiteOf[d]] \in 0..2 /\ verdict[c] \in 0..2
                OBVIOUS
            <4> QED
                BY <2>2, <3>2, <4>1, <4>2, <4>3, <4>4
        <3>3. CASE d # c /\ SuiteOf[d] # SuiteOf[c]
            BY <2>2, <3>3 DEF Kept
        <3> QED
            BY <3>1, <3>2, <3>3
    <2>4. \A d \in Cases :
              /\ verdict'[d] = Refused /\ pc'[d] \notin Recording \ {"unlock"} =>
                    refusal'[SuiteOf[d]] # NoWords
              /\ pc'[d] = "skipped" => told'[d] = refusal'[SuiteOf[d]]
        BY <1>3, <2>2 DEF Kept, Raise
    <2>5. \A s \in Suites : outcome'[s] # NotAsked => \E d \in Of(s) : verdict'[d] = outcome'[s]
        BY <2>2 DEF Kept
    <2>6. \A s \in Suites : refusal'[s] # NoWords => \E d \in Of(s) : words'[d] = refusal'[s]
        BY <2>2 DEF Kept
    <2> QED
        BY <2>3, <2>4, <2>5, <2>6 DEF Kept
<1>4. CASE KeepWords(c)
    <2>1. /\ verdict[c] = Refused => words[c] # NoWords
          /\ pc[c] = "word" /\ pc' = [pc EXCEPT ![c] = "unlock"]
          /\ UNCHANGED <<verdict, words, told, outcome>>
        BY <1>4 DEF KeepWords
    <2>2. \A s \in Suites : refusal[s] # NoWords => refusal'[s] = refusal[s]
        BY <1>4 DEF KeepWords
    <2>3. verdict[c] = Refused => refusal'[SuiteOf[c]] # NoWords
        BY <1>4, <2>1 DEF KeepWords
    <2>4. \A s \in Suites : refusal'[s] # NoWords => \E d \in Of(s) : words'[d] = refusal'[s]
        BY <1>4 DEF KeepWords, Kept
    <2>5. \A d \in Cases :
              /\ pc'[d] = "raise" => verdict'[d] > outcome'[SuiteOf[d]]
              /\ pc'[d] \notin {"lock", "compare", "raise"} => verdict'[d] <= outcome'[SuiteOf[d]]
        BY <2>1 DEF Kept
    <2>6. \A d \in Cases :
              /\ verdict'[d] = Refused /\ pc'[d] \notin Recording \ {"unlock"} =>
                    refusal'[SuiteOf[d]] # NoWords
              /\ pc'[d] = "skipped" => told'[d] = refusal'[SuiteOf[d]]
        BY <2>1, <2>2, <2>3 DEF Kept, Standing
    <2> QED
        BY <2>1, <2>4, <2>5, <2>6 DEF Kept
<1>5. CASE Skip(c)          BY <1>5 DEF Skip, Kept
<1> QED
    BY <1>1, <1>2, <1>3, <1>4, <1>5

\* Every step of a case keeps what its suite kept.
LEMMA KeptStep ==
    ASSUME TypeOK, Standing, MutexHolds, Kept, NEW c \in Cases, Select(c) \/ Step(c) \/ Wait(c)
    PROVE  Kept'
<1> USE DEF TypeOK, Goto, Labels, Over, Aside, Recording, Inside
<1>1. CASE Select(c)    BY <1>1, AsideKeeps DEF Select
<1>2. CASE Register(c)  BY <1>2, AsideKeeps DEF Register, Does
<1>3. CASE Body(c)      BY <1>3, AsideKeeps DEF Body, Does
<1>4. CASE Pass(c)      BY <1>4, AsideKeeps DEF Pass
<1>5. CASE Start(c)     BY <1>5, AsideKeeps DEF Start, Does
<1>6. CASE Met(c)       BY <1>6, AsideKeeps DEF Met
<1>7. CASE Unlock(c)    BY <1>7, AsideKeeps DEF Unlock
<1> QED
    BY <1>1, <1>2, <1>3, <1>4, <1>5, <1>6, <1>7, FindingKeeps, RecordKeeps DEF Step, Wait

-----------------------------------------------------------------------------
(* The report                                                               *)

Reported ==
    /\ Early \subseteq roster
    /\ main = "reporting" \/ printed =>
          /\ \A c \in Cases : pc[c] \in Idle
          /\ \A s \in roster \ toRead :
                lines[s].outcome = outcome[s] /\ lines[s].refusal = refusal[s]
    /\ printed => main = "ended" /\ toRead = {}
    /\ main = "ended" /\ code = 0 => printed

\* A case that calls Start first has done nothing else before it has a verdict.
OnTop ==
    \A c \in Cases : StartsFirst(c) /\ verdict[c] = NotAsked =>
        pc[c] \notin Over /\ (pc[c] \in {"unselected", "running"} => at[c] = 1)

HInv == TypeOK /\ Standing /\ MutexHolds /\ Kept /\ Reported /\ OnTop

\* A case runs before the report and does not touch it.
LEMMA CaseFrame ==
    ASSUME NEW c \in Cases, Select(c) \/ Step(c) \/ Wait(c)
    PROVE  main = "cases" /\ UNCHANGED <<program, mainVars>> /\ roster \subseteq roster'
<1> QED
    BY DEF Select, Step, Wait, Register, Body, Pass, Start, Met, FindMissing, FindNothingMissing,
           Lock, Compare, Raise, KeepWords, Unlock, Skip

\* What a case does first is what it does before it has a verdict.
LEMMA OnTopStep ==
    ASSUME TypeOK, Standing, OnTop, NEW c \in Cases, Select(c) \/ Step(c) \/ Wait(c)
    PROVE  OnTop'
<1> USE DEF TypeOK, OnTop, StartsFirst, Goto, Labels, Over, Does, Standing, Recording, Inside
<1>1. CASE Select(c)
    BY <1>1 DEF Select
<1>2. CASE Register(c)  BY <1>2 DEF Register
<1>3. CASE Body(c)      BY <1>3 DEF Body
<1>4. CASE Pass(c)
    BY <1>4, ProgramsAssumption DEF Pass
<1>5. CASE Start(c)                 BY <1>5 DEF Start
<1>6. CASE Met(c)                   BY <1>6 DEF Met
<1>7. CASE FindMissing(c)           BY <1>7 DEF FindMissing
<1>8. CASE FindNothingMissing(c)    BY <1>8 DEF FindNothingMissing
<1>9. CASE Lock(c)                  BY <1>9 DEF Lock
<1>10. CASE Compare(c)              BY <1>10 DEF Compare
<1>11. CASE Raise(c)                BY <1>11 DEF Raise
<1>12. CASE KeepWords(c)            BY <1>12 DEF KeepWords
<1>13. CASE Unlock(c)               BY <1>13 DEF Unlock
<1>14. CASE Skip(c)                 BY <1>14 DEF Skip
<1> QED
    BY <1>1, <1>2, <1>3, <1>4, <1>5, <1>6, <1>7, <1>8, <1>9, <1>10, <1>11, <1>12, <1>13, <1>14
       DEF Step, Wait

-----------------------------------------------------------------------------
(* The whole run                                                            *)

\* Where a run begins, nothing has been found, kept or printed.
LEMMA InitHolds ==
    ASSUME Init
    PROVE  HInv
<1> USE DEF Init
<1>1. TypeOK
    <2>1. lines \in [Suites -> Line]
        BY DEF Fresh, Line
    <2>2. printed \in BOOLEAN
        BY Zenon
    <2>3. /\ code \in 0..2 /\ roster \subseteq Suites /\ toRead \subseteq roster
          /\ outcome \in [Suites -> Outcomes] /\ verdict \in [Cases -> Outcomes]
        BY SuitesAssumption
    <2>4. /\ pc \in [Cases -> Labels] /\ at \in [Cases -> Nat \ {0}] /\ need \in [Cases -> Nat \ {0}]
          /\ words \in [Cases -> Requirements \cup {NoWords}]
          /\ told \in [Cases -> Requirements \cup {NoWords}]
          /\ refusal \in [Suites -> Requirements \cup {NoWords}]
          /\ mu \in [Suites -> Cases \cup {Nobody}]
        BY DEF Labels
    <2>5. \A c \in Cases : words[c] # NoWords <=> verdict[c] = Refused
        OBVIOUS
    <2> QED
        BY <2>1, <2>2, <2>3, <2>4, <2>5 DEF TypeOK
<1>2. Standing
    BY DEF Standing, Recording, Inside
<1>3. MutexHolds
    BY DEF MutexHolds, Inside
<1>4. Kept
    BY Constants DEF Kept, Of, Recording, Inside
<1>5. Reported
    BY DEF Reported
<1>6. OnTop
    BY DEF OnTop, Over
<1> QED
    BY <1>1, <1>2, <1>3, <1>4, <1>5, <1>6 DEF HInv

\* A step of a case keeps the invariant: the report has not begun.
LEMMA CaseStep ==
    ASSUME HInv, NEW c \in Cases, Select(c) \/ Step(c) \/ Wait(c)
    PROVE  HInv'
<1> USE DEF HInv
<1>1. TypeOK'
    BY CaseTypes, StartTypes DEF Step, Wait, Standing
<1>2. Standing' /\ MutexHolds' /\ Kept' /\ OnTop'
    BY StandingStep, MutexStep, KeptStep, OnTopStep
<1>3. main = "cases" /\ main' = main /\ printed' = printed /\ roster \subseteq roster'
    BY CaseFrame
<1>4. Reported'
    BY <1>3 DEF Reported
<1> QED
    BY <1>1, <1>2, <1>4

\* TestMain and the machine leave alone what the cases found and kept.
LEMMA MainFrame ==
    ASSUME HInv, UNCHANGED <<caseVars, suiteVars>>
    PROVE  Standing' /\ MutexHolds' /\ Kept' /\ OnTop'
<1> USE DEF HInv
<1>1. Standing'
    BY DEF Standing, AtStart, PastStart
<1>2. MutexHolds'
    BY DEF MutexHolds
<1>3. Kept'
    BY DEF Kept
<1>4. OnTop'
    BY DEF OnTop, StartsFirst
<1> QED
    BY <1>1, <1>2, <1>3, <1>4

\* The report reads each suite once the cases are over, and what it has read
\* stays so.
LEMMA MainStep ==
    ASSUME HInv, (\E r \in Requirements : Change(r)) \/ CasesEnd \/ Die \/ Report
    PROVE  HInv'
<1> USE DEF HInv
<1>1. TypeOK'
    BY MainTypes
<1>2. UNCHANGED <<caseVars, suiteVars, roster>>
    BY DEF Change, CasesEnd, Die, Report, ReadOutcome, Write, WriteFails
<1>3. Standing' /\ MutexHolds' /\ Kept' /\ OnTop'
    BY <1>2, MainFrame
<1>4. Reported'
    <2>1. CASE \E r \in Requirements : Change(r)
        BY <2>1 DEF Change, Reported
    <2>2. CASE CasesEnd
        BY <2>2 DEF CasesEnd, Reported
    <2>3. CASE Die
        BY <2>3 DEF Die, Reported
    <2>4. ASSUME NEW s \in Suites, ReadOutcome(s)
          PROVE  Reported'
        <3>1. /\ main = "reporting" /\ ~printed
              /\ lines' = [lines EXCEPT ![s] = [outcome |-> outcome[s], refusal |-> refusal[s]]]
              /\ toRead' = toRead \ {s} /\ UNCHANGED <<pc, outcome, refusal, roster, main, printed, code>>
            BY <2>4 DEF ReadOutcome, Reported
        <3>2. \A t \in roster \ toRead' :
                  lines'[t].outcome = outcome[t] /\ lines'[t].refusal = refusal[t]
            BY <3>1 DEF Reported, TypeOK
        <3> QED
            BY <3>1, <3>2 DEF Reported
    <2>5. CASE Write
        BY <2>5 DEF Write, Reported
    <2>6. CASE WriteFails
        BY <2>6 DEF WriteFails, Reported, TypeOK
    <2> QED
        BY <2>1, <2>2, <2>3, <2>4, <2>5, <2>6 DEF Report
<1> QED
    BY <1>1, <1>3, <1>4

\* Every step of the run keeps the invariant.
LEMMA NextHolds ==
    ASSUME HInv, [Next]_vars
    PROVE  HInv'
<1>1. CASE UNCHANGED vars
    <2>1. UNCHANGED <<caseVars, suiteVars, present, roster, mainVars>>
        BY <1>1 DEF vars
    <2>2. Standing' /\ MutexHolds' /\ Kept' /\ OnTop'
        BY <2>1, MainFrame
    <2>3. TypeOK'
        BY <2>1 DEF HInv, TypeOK
    <2>4. Reported'
        BY <2>1 DEF HInv, Reported
    <2> QED
        BY <2>2, <2>3, <2>4 DEF HInv
<1>2. CASE Next
    BY <1>2, CaseStep, MainStep DEF Next
<1> QED
    BY <1>1, <1>2

\* The invariant holds throughout every run.
LEMMA HInvHolds == Spec => []HInv
<1>1. Init => HInv
    BY InitHolds
<1>2. HInv /\ [Next]_vars => HInv'
    BY NextHolds
<1> QED
    BY <1>1, <1>2, PTL DEF Spec

-----------------------------------------------------------------------------
(* What the run promises                                                    *)

\* The invariant has the types in it.
THEOREM TypeCorrect == Spec => []TypeOK
<1>1. HInv => TypeOK
    BY DEF HInv
<1> QED
    BY <1>1, HInvHolds, PTL

\* A printed line is what its suite kept, and what the suite kept is what one of
\* its cases met with.
THEOREM RosterSaysWhatHappenedHolds == Spec => []RosterSaysWhatHappened
<1>1. HInv => RosterSaysWhatHappened
    <2> SUFFICES ASSUME HInv, printed, NEW s \in roster
                 PROVE  Says(lines[s], Of(s))
        BY DEF RosterSaysWhatHappened
    <2>1. lines[s].outcome = outcome[s] /\ lines[s].refusal = refusal[s] /\ s \in Suites
        BY DEF HInv, Reported, TypeOK
    <2>2. \A c \in Of(s) : c \in Cases /\ SuiteOf[c] = s /\ pc[c] \in Idle
        BY DEF HInv, Reported, Of
    <2>3. \A c \in Of(s) : verdict[c] <= outcome[s]
        BY <2>2 DEF HInv, Kept, Idle, Over
    <2>4. \A c \in Of(s) : verdict[c] = Refused => refusal[s] # NoWords
        BY <2>2 DEF HInv, Kept, Idle, Over, Recording, Inside
    <2>5. /\ outcome[s] # NotAsked => \E c \in Of(s) : verdict[c] = outcome[s]
          /\ refusal[s] # NoWords => \E c \in Of(s) : words[c] = refusal[s]
        BY <2>1 DEF HInv, Kept
    <2> QED
        BY <2>1, <2>3, <2>4, <2>5 DEF Says
<1> QED
    BY <1>1, HInvHolds, PTL

\* A skipped case was refused, so its suite has words, and they are those of a
\* refused case of the suite.
THEOREM RefusalsAreRealHolds == Spec => []RefusalsAreReal
<1>1. HInv => RefusalsAreReal
    <2> SUFFICES ASSUME HInv PROVE RefusalsAreReal
        OBVIOUS
    <2>1. ASSUME NEW c \in Cases, pc[c] = "skipped"
          PROVE  /\ told[c] = refusal[SuiteOf[c]]
                 /\ \E d \in Of(SuiteOf[c]) : verdict[d] = Refused /\ words[d] = told[c]
        <3>1. verdict[c] = Refused /\ told[c] = refusal[SuiteOf[c]]
            BY <2>1 DEF HInv, Standing, Kept
        <3>2. refusal[SuiteOf[c]] # NoWords
            BY <2>1, <3>1 DEF HInv, Kept, Recording, Inside
        <3>3. PICK d \in Of(SuiteOf[c]) : words[d] = refusal[SuiteOf[c]]
            BY <3>2, Constants DEF HInv, Kept
        <3>4. verdict[d] = Refused
            BY <3>2, <3>3 DEF HInv, TypeOK, Of
        <3> QED
            BY <3>1, <3>3, <3>4
    <2>2. ASSUME printed, NEW c \in Cases, pc[c] = "skipped", SuiteOf[c] \in roster
          PROVE  lines[SuiteOf[c]].refusal = told[c]
        BY <2>1, <2>2 DEF HInv, Reported
    <2> QED
        BY <2>1, <2>2 DEF RefusalsAreReal
<1> QED
    BY <1>1, HInvHolds, PTL

\* A clean end is that of a printed roster, and a case that calls Start first
\* and is over has a verdict, which its suite kept.
THEOREM CleanRunIsCompleteHolds == Spec => []CleanRunIsComplete
<1>1. HInv => CleanRunIsComplete
    <2> SUFFICES ASSUME HInv, main = "ended", code = 0
                 PROVE  /\ printed /\ Early \subseteq roster
                        /\ \A s \in Early : (\A c \in Of(s) : StartsFirst(c)) =>
                              (lines[s].outcome = NotAsked <=> \A c \in Of(s) : pc[c] = "unselected")
        BY DEF CleanRunIsComplete
    <2>1. printed /\ Early \subseteq roster
        BY DEF HInv, Reported
    <2>2. ASSUME NEW s \in Early, \A c \in Of(s) : StartsFirst(c)
          PROVE  lines[s].outcome = NotAsked <=> \A c \in Of(s) : pc[c] = "unselected"
        <3>1. lines[s].outcome = outcome[s] /\ s \in Suites
            BY <2>1 DEF HInv, Reported, TypeOK
        <3>2. \A c \in Of(s) : c \in Cases /\ SuiteOf[c] = s /\ pc[c] \in Idle
            BY <2>1 DEF HInv, Reported, Of
        <3>3. ASSUME outcome[s] = NotAsked, NEW c \in Of(s)
              PROVE  pc[c] = "unselected"
            <4>1. verdict[c] <= outcome[s]
                BY <3>2 DEF HInv, Kept, Idle, Over
            <4>2. verdict[c] = NotAsked
                BY <3>2, <3>3, <4>1 DEF HInv, TypeOK
            <4> QED
                BY <2>2, <3>2, <4>2 DEF HInv, OnTop, Idle
        <3>4. ASSUME \A c \in Of(s) : pc[c] = "unselected"
              PROVE  outcome[s] = NotAsked
            BY <3>1, <3>2, <3>4 DEF HInv, Standing, Kept
        <3> QED
            BY <3>1, <3>3, <3>4
    <2> QED
        BY <2>1, <2>2
<1> QED
    BY <1>1, HInvHolds, PTL

\* Only a case that holds the mutex of its suite changes what the suite keeps,
\* and it was told to raise the outcome while it held it.
THEOREM NothingIsTakenBackHolds == Spec => NothingIsTakenBack
<1>1. HInv /\ [Next]_vars =>
          \A s \in Suites :
              /\ outcome'[s] >= outcome[s]
              /\ refusal[s] # NoWords => refusal'[s] = refusal[s]
    <2> SUFFICES ASSUME HInv, [Next]_vars, NEW s \in Suites
                 PROVE  outcome'[s] >= outcome[s] /\ (refusal[s] # NoWords => refusal'[s] = refusal[s])
        OBVIOUS
    <2>1. outcome[s] \in 0..2
        BY DEF HInv, TypeOK
    <2>2. ASSUME NEW c \in Cases, Raise(c)
          PROVE  outcome'[s] >= outcome[s] /\ refusal' = refusal
        <3>1. verdict[c] > outcome[SuiteOf[c]] /\ verdict[c] \in 0..2
            BY <2>2 DEF HInv, Kept, Raise, TypeOK
        <3> QED
            BY <2>1, <2>2, <3>1 DEF Raise, HInv, TypeOK
    <2>3. ASSUME NEW c \in Cases, KeepWords(c)
          PROVE  outcome' = outcome /\ (refusal[s] # NoWords => refusal'[s] = refusal[s])
        BY <2>3 DEF KeepWords, HInv, TypeOK
    <2>4. ASSUME NEW c \in Cases, Select(c) \/ Step(c) \/ Wait(c), ~Raise(c), ~KeepWords(c)
          PROVE  UNCHANGED <<outcome, refusal>>
        BY <2>4 DEF Select, Step, Wait, Register, Body, Pass, Start, Met, FindMissing,
                    FindNothingMissing, Lock, Compare, Unlock, Skip
    <2>5. CASE UNCHANGED vars \/ (\E r \in Requirements : Change(r)) \/ CasesEnd \/ Die \/ Report
        <3>1. UNCHANGED <<outcome, refusal>>
            BY <2>5 DEF vars, Change, CasesEnd, Die, Report, ReadOutcome, Write, WriteFails
        <3> QED
            BY <2>1, <3>1
    <2> QED
        BY <2>1, <2>2, <2>3, <2>4, <2>5 DEF Next
<1> QED
    BY <1>1, HInvHolds, PTL DEF Spec, NothingIsTakenBack

=============================================================================
