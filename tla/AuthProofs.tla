---------------------------- MODULE AuthProofs ----------------------------
(***************************************************************************)
(* For any number of holders, any policy and any configuration: arrays are    *)
(* never shared, sessions are whole, identities and access are accounted for  *)
(* and what is not stale is recent.  Each is kept by every step on its own,   *)
(* over the types and the arrays, which are kept first.  And the passes of     *)
(* Evaluate, by which access is judged, compute what it promises.             *)
(***************************************************************************)
EXTENDS Auth, AuthzPasses, FiniteSetTheorems, TLAPS

\* The provers know "" for a string only where they are told so.
Strings == STRING \cup {""}

Identities == [value : Strings, by : {"nobody", "configuration", "source"}]

Principals == [kind : {"nothing", "principal", "authz"}, subject : Strings, ref : Arrays \cup {Nil},
               asOf : Nat, ids : [Sources -> Identities], administrative : BOOLEAN]

Lineages == [subject : Strings, source : Strings, values : Seq(STRING),
             asserted : SUBSET (Sources \X Strings), written : BOOLEAN]

Stages == {"none", "called", "asking", "given", "open", "refused"}

Typed ==
    /\ lines \in Configurations /\ NewMapping(lines)
    /\ now \in Nat
    /\ member \in [Subjects -> SUBSET Raw]
    /\ lastIn \in [Subjects -> [Raw -> Nat]]
    /\ stage \in [Holders -> Stages]
    /\ req \in [Holders -> Requests]
    /\ asOf \in [Holders -> Nat]
    /\ raw \in [Holders -> Seq(STRING)]
    /\ held \in [Holders -> Principals]
    /\ array = [a \in Arrays |-> array[a]]
    /\ lineage \in [Holders -> Lineages]

\* No two holders keep their groups in one array.
Apart == \A h, k \in Holders : held[h].ref = held[k].ref /\ held[h].ref # Nil => h = k

\* SessionsAreWhole, of one holder.
Empty(h) == stage[h] \notin {"none", "open"} => held[h] = Nothing

WholeSession(h) ==
    held[h].kind = "principal" /\ ~lineage[h].written =>
        LET values == lineage[h].values
        IN  /\ Len(values) <= policy.max
            /\ \A i \in DOMAIN values : \E g \in GroupsOf(h) :
                  values[i] \in DOMAIN policy.mapping /\ policy.mapping[values[i]] = g
            /\ \A g \in GroupsOf(h) : \E i \in DOMAIN values : policy.mapping[values[i]] = g

\* IdentitiesAreAccounted, of one holder.
Accounted(h) ==
    held[h].kind = "principal" => \A s \in Sources :
        LET id == held[h].ids[s]
            said == {a \in lineage[h].asserted : a[1] = s}
            written == LinesFor(lineage[h].subject, s)
        IN  IF said # {} THEN id.by = "source" /\ said = {<<s, id.value>>}
            ELSE IF id.by = "nobody" THEN written = {}
            ELSE \E i \in DOMAIN lines : written = {i} /\ lines[i].value = id.value

\* What authz is handed: the identity one source knows the subject by, and the
\* groups of the session, or the principal nobody is.
Named(h) ==
    held[h].kind = "authz" =>
        \/ held[h].subject = ""
        \/ <<lineage[h].source, held[h].subject>> \in lineage[h].asserted
        \/ \E l \in LinesFor(lineage[h].subject, lineage[h].source) :
              lines[l].value = held[h].subject

Grouped(h) ==
    held[h].kind = "authz" /\ ~lineage[h].written =>
        \A g \in GroupsOf(h) :
            \E j \in DOMAIN lineage[h].values : policy.mapping[lineage[h].values[j]] = g

\* A membership that holds was last seen now; what a provider was asked for is
\* no older than the question, and what a session has is no older than it says.
Known == \A s \in Subjects : \A v \in member[s] : lastIn[s][v] = now

Answered(h) ==
    /\ stage[h] \in {"called", "asking", "given"} => asOf[h] <= now
    /\ stage[h] = "given" /\ policy.shape = "provider-call" =>
          \A i \in DOMAIN raw[h] :
              /\ raw[h][i] \in Raw /\ req[h].subject \in Subjects
              /\ lastIn[req[h].subject][raw[h][i]] >= asOf[h]

Recent(h) ==
    held[h].kind = "principal" /\ policy.shape = "provider-call" /\ ~lineage[h].written =>
        /\ lineage[h].subject \in Subjects
        /\ \A g \in GroupsOf(h) : \E v \in Raw :
              policy.mapping[v] = g /\ lastIn[lineage[h].subject][v] >= held[h].asOf

-----------------------------------------------------------------------------
(* What the steps put into a holder, and the types.                          *)

Asserting(h, source, value) ==
    [held[h] EXCEPT !.ids[source] = [value |-> value, by |-> "source"]]
AssertingFrom(h, source, value) ==
    [lineage[h] EXCEPT !.asserted = {<<source, value>>} \cup {a \in @ : a[1] # source}]

Facing(h, source) == [Nothing EXCEPT !.kind = "authz", !.subject = held[h].ids[source].value]
FacingNobody == [Nothing EXCEPT !.kind = "authz"]
FacingFrom(h, source) == [lineage[h] EXCEPT !.source = source]

SignedOn(h) ==
    [kind |-> "principal", subject |-> req[h].subject, ref |-> Nil, asOf |-> asOf[h],
     ids |-> [s \in Sources |-> Configured(req[h].subject, s)],
     administrative |-> ResolvedGroups(policy, raw[h]) \cap policy.administrative # {}]
SignedOnFrom(h) == [NoLineage EXCEPT !.subject = req[h].subject, !.values = raw[h]]

\* A holder begins with nothing, and a session that is gone leaves none.
LEMMA NothingTyped ==
    /\ Nothing \in Principals /\ Nothing.kind = "nothing" /\ Nothing.ref = Nil
    /\ NoLineage \in Lineages
<1>1. NoIdentity \in Identities
    BY DEF NoIdentity, Identities, Strings
<1>2. [s \in Sources |-> NoIdentity] \in [Sources -> Identities]
    BY <1>1
<1>3. Nothing \in Principals /\ Nothing.kind = "nothing" /\ Nothing.ref = Nil
    BY <1>2 DEF Nothing, Principals, Strings
<1>4. <<>> \in Seq(STRING)
    OBVIOUS
<1> QED
    BY <1>3, <1>4 DEF NoLineage, Lineages, Strings

\* An identity the configuration gives is the value of the only line there is.
LEMMA ConfiguredIs ==
    ASSUME lines \in Configurations, NewMapping(lines), NEW subject, NEW s
    PROVE  /\ Configured(subject, s) \in Identities
           /\ Configured(subject, s).by # "source"
           /\ IF Configured(subject, s).by = "nobody" THEN LinesFor(subject, s) = {}
              ELSE \E i \in DOMAIN lines : /\ LinesFor(subject, s) = {i}
                                           /\ lines[i].value = Configured(subject, s).value
<1> DEFINE L == LinesFor(subject, s)
<1>1. lines \in Seq([subject : STRING, source : STRING, value : STRING])
    BY ConfigurationsAssumption
<1>2. L \subseteq DOMAIN lines /\ \A i, j \in L : i = j
    BY <1>1 DEF NewMapping, LinesFor
<1>3. CASE L = {}
    <2>1. Configured(subject, s) = NoIdentity
        BY <1>3 DEF Configured
    <2>2. NoIdentity \in Identities /\ NoIdentity.by = "nobody"
        BY DEF NoIdentity, Identities, Strings
    <2>3. QED
        BY <1>3, <2>1, <2>2
<1>4. CASE L # {}
    <2> DEFINE i == CHOOSE i \in L : \A j \in L : j <= i
    <2>1. PICK k \in DOMAIN lines : L = {k}
        BY <1>2, <1>4
    <2>2. k \in Int
        BY <1>1
    <2>3. \E m \in L : \A j \in L : j <= m
        BY <2>1, <2>2
    <2>4. i \in L
        BY <2>3
    <2>5. i = k
        BY <2>1, <2>4
    <2>6. Configured(subject, s) = [value |-> lines[i].value, by |-> "configuration"]
        BY <1>4 DEF Configured
    <2>7. Configured(subject, s) = [value |-> lines[k].value, by |-> "configuration"]
        BY <2>5, <2>6
    <2>8. lines[k].value \in Strings
        <3>1. \A S : \A q \in Seq(S) : \A x \in DOMAIN q : q[x] \in S
            OBVIOUS
        <3>2. lines[k] \in [subject : STRING, source : STRING, value : STRING]
            BY <1>1, <2>1, <3>1, Zenon
        <3>3. QED
            BY <3>2 DEF Strings
    <2>9. QED
        BY <2>1, <2>7, <2>8 DEF Identities
<1> QED
    BY <1>3, <1>4

\* A value that is a principal keeps being one in whatever array its groups are.
LEMMA InArray ==
    ASSUME NEW v \in Principals, NEW a \in Arrays
    PROVE  /\ [v EXCEPT !.ref = a] \in Principals
           /\ [v EXCEPT !.ref = a].kind = v.kind /\ [v EXCEPT !.ref = a].subject = v.subject
           /\ [v EXCEPT !.ref = a].asOf = v.asOf /\ [v EXCEPT !.ref = a].ids = v.ids
           /\ [v EXCEPT !.ref = a].ref = a
    BY DEF Principals

\* Holder k comes to hold v and its groups, which are from where w says; the
\* others hold what they held.
Fills(k, v, groups, w) ==
    /\ held'[k].kind = v.kind /\ held'[k].subject = v.subject /\ held'[k].asOf = v.asOf
    /\ held'[k].ids = v.ids
    /\ lineage'[k] = w /\ GroupsOf(k)' = groups
    /\ \A j \in Holders : j # k => /\ held'[j] = held[j] /\ lineage'[j] = lineage[j]
                                   /\ GroupsOf(j)' = GroupsOf(j)

HoldingsTyped ==
    /\ held \in [Holders -> Principals]
    /\ array = [a \in Arrays |-> array[a]]
    /\ lineage \in [Holders -> Lineages]

\* Holding a principal takes an array nobody's groups are in.
LEMMA HoldFills ==
    ASSUME HoldingsTyped, Apart, NEW k \in Holders, NEW STATE v, v \in Principals,
           NEW STATE groups, NEW STATE w, w \in Lineages, Hold(k, v, groups, w)
    PROVE  HoldingsTyped' /\ Apart' /\ Fills(k, v, groups, w)
<1>1. PICK a \in Unused : /\ held' = [held EXCEPT ![k] = [v EXCEPT !.ref = a]]
                          /\ array' = [array EXCEPT ![a] = groups]
    BY DEF Hold
<1>2. lineage' = [lineage EXCEPT ![k] = w]
    BY DEF Hold
<1>3. a \in Arrays /\ a # Nil /\ \A j \in Holders : held[j].ref # a
    BY ArraysAssumption DEF Unused
<1> DEFINE b == [v EXCEPT !.ref = a]
<1>4. /\ b \in Principals /\ b.kind = v.kind /\ b.subject = v.subject /\ b.asOf = v.asOf
      /\ b.ids = v.ids /\ b.ref = a
    BY <1>3, InArray, Zenon
<1> HIDE DEF b
<1>5. held' = [held EXCEPT ![k] = b]
    BY <1>1 DEF b
<1>6. held'[k] = b /\ \A j \in Holders : j # k => held'[j] = held[j]
    BY <1>5 DEF HoldingsTyped
<1>7. array'[a] = groups /\ \A x \in Arrays : x # a => array'[x] = array[x]
    BY <1>1, <1>3 DEF HoldingsTyped
<1>8. lineage'[k] = w /\ \A j \in Holders : j # k => lineage'[j] = lineage[j]
    BY <1>2 DEF HoldingsTyped
<1>9. HoldingsTyped'
    BY <1>1, <1>2, <1>4, <1>5 DEF HoldingsTyped
<1>10. Apart'
    BY <1>3, <1>4, <1>6 DEF Apart
<1>11. GroupsOf(k)' = groups
    BY <1>3, <1>4, <1>6, <1>7 DEF GroupsOf
<1>12. \A j \in Holders : j # k => GroupsOf(j)' = GroupsOf(j)
    <2> SUFFICES ASSUME NEW j \in Holders, j # k
                 PROVE  GroupsOf(j)' = GroupsOf(j)
        OBVIOUS
    <2>1. held'[j].ref = held[j].ref /\ held[j].ref \in Arrays \cup {Nil} /\ held[j].ref # a
        BY <1>3, <1>6 DEF HoldingsTyped, Principals
    <2>2. QED
        BY <1>7, <2>1 DEF GroupsOf
<1> QED
    BY <1>4, <1>6, <1>8, <1>9, <1>10, <1>11, <1>12 DEF Fills

\* What has been asserted once a source has.
Said(h, source, value) == {<<source, value>>} \cup {a \in lineage[h].asserted : a[1] # source}

\* A copy in which one source has said who its subject is.
LEMMA AssertingIs ==
    ASSUME HoldingsTyped, NEW h \in Holders, NEW source \in Sources, NEW value \in SourceAnswers
    PROVE  /\ Asserting(h, source, value) \in Principals
           /\ Asserting(h, source, value).kind = held[h].kind
           /\ Asserting(h, source, value).asOf = held[h].asOf
           /\ Asserting(h, source, value).ids[source] = [value |-> value, by |-> "source"]
           /\ \A s \in Sources : s # source =>
                 Asserting(h, source, value).ids[s] = held[h].ids[s]
           /\ AssertingFrom(h, source, value) \in Lineages
           /\ AssertingFrom(h, source, value).subject = lineage[h].subject
           /\ AssertingFrom(h, source, value).values = lineage[h].values
           /\ AssertingFrom(h, source, value).written = lineage[h].written
           /\ AssertingFrom(h, source, value).asserted = Said(h, source, value)
<1> DEFINE said == [value |-> value, by |-> "source"]
           ids == [held[h].ids EXCEPT ![source] = said]
           all == Said(h, source, value)
<1>1. said \in Identities
    BY NamesAssumption DEF Identities, Strings
<1> HIDE DEF said
<1>2. held[h] \in Principals /\ lineage[h] \in Lineages
    BY DEF HoldingsTyped
<1>3. held[h].ids \in [Sources -> Identities]
    BY <1>2 DEF Principals
<1>4. /\ ids \in [Sources -> Identities] /\ ids[source] = said
      /\ \A s \in Sources : s # source => ids[s] = held[h].ids[s]
    BY <1>1, <1>3
<1> HIDE DEF ids
<1>5. Asserting(h, source, value) = [held[h] EXCEPT !.ids = ids]
    BY DEF Asserting, said, ids
<1>6. /\ Asserting(h, source, value) \in Principals
      /\ Asserting(h, source, value).kind = held[h].kind
      /\ Asserting(h, source, value).asOf = held[h].asOf
      /\ Asserting(h, source, value).ids = ids
    BY <1>2, <1>4, <1>5 DEF Principals
<1>7. value \in Strings
    BY NamesAssumption DEF Strings
<1>8. lineage[h].asserted \in SUBSET (Sources \X Strings)
    BY <1>2 DEF Lineages
<1>9. all \in SUBSET (Sources \X Strings)
    BY <1>7, <1>8 DEF Said
<1> HIDE DEF all
<1>10. AssertingFrom(h, source, value) = [lineage[h] EXCEPT !.asserted = all]
    BY DEF AssertingFrom, Said, all
<1>11. /\ AssertingFrom(h, source, value) \in Lineages
       /\ AssertingFrom(h, source, value).subject = lineage[h].subject
       /\ AssertingFrom(h, source, value).values = lineage[h].values
       /\ AssertingFrom(h, source, value).written = lineage[h].written
       /\ AssertingFrom(h, source, value).asserted = all
    BY <1>2, <1>9, <1>10 DEF Lineages
<1> QED
    BY <1>4, <1>6, <1>11, Zenon DEF said, all

\* What is handed to authz for a source: the identity there, or nobody.
LEMMA FacingIs ==
    ASSUME HoldingsTyped, NEW h \in Holders, NEW source \in Sources
    PROVE  /\ Facing(h, source) \in Principals /\ Facing(h, source).kind = "authz"
           /\ Facing(h, source).subject = held[h].ids[source].value
           /\ FacingNobody \in Principals /\ FacingNobody.kind = "authz"
           /\ FacingNobody.subject = "" /\ FacingNobody.ref = Nil
           /\ FacingFrom(h, source) \in Lineages
           /\ FacingFrom(h, source).subject = lineage[h].subject
           /\ FacingFrom(h, source).values = lineage[h].values
           /\ FacingFrom(h, source).written = lineage[h].written
           /\ FacingFrom(h, source).asserted = lineage[h].asserted
           /\ FacingFrom(h, source).source = source
<1>1. held[h] \in Principals /\ lineage[h] \in Lineages
    BY DEF HoldingsTyped
<1>2. held[h].ids[source].value \in Strings
    BY <1>1 DEF Principals, Identities
<1>3. Nothing \in Principals /\ Nothing.ref = Nil /\ Nothing.subject = ""
    BY NothingTyped DEF Nothing
<1>4. /\ Facing(h, source) \in Principals /\ Facing(h, source).kind = "authz"
      /\ Facing(h, source).subject = held[h].ids[source].value
    BY <1>2, <1>3 DEF Facing, Principals
<1>5. /\ FacingNobody \in Principals /\ FacingNobody.kind = "authz"
      /\ FacingNobody.subject = "" /\ FacingNobody.ref = Nil
    BY <1>3 DEF FacingNobody, Principals
<1>6. source \in Strings
    BY NamesAssumption DEF Strings
<1>7. /\ FacingFrom(h, source) \in Lineages
      /\ FacingFrom(h, source).subject = lineage[h].subject
      /\ FacingFrom(h, source).values = lineage[h].values
      /\ FacingFrom(h, source).written = lineage[h].written
      /\ FacingFrom(h, source).asserted = lineage[h].asserted
      /\ FacingFrom(h, source).source = source
    BY <1>1, <1>6 DEF FacingFrom, Lineages
<1> QED
    BY <1>4, <1>5, <1>7

\* What a sign-on ends with, and where it says that came from.
LEMMA SignedOnIs ==
    ASSUME Typed, NEW h \in Holders
    PROVE  /\ SignedOn(h) \in Principals /\ SignedOn(h).kind = "principal"
           /\ SignedOn(h).subject = req[h].subject /\ SignedOn(h).asOf = asOf[h]
           /\ \A s \in Sources : SignedOn(h).ids[s] = Configured(req[h].subject, s)
           /\ SignedOnFrom(h) \in Lineages
           /\ SignedOnFrom(h).subject = req[h].subject /\ SignedOnFrom(h).values = raw[h]
           /\ SignedOnFrom(h).asserted = {} /\ SignedOnFrom(h).written = FALSE
<1>1. req[h] \in Requests /\ asOf[h] \in Nat /\ raw[h] \in Seq(STRING)
    BY DEF Typed
<1>2. req[h].subject \in Strings
    BY <1>1, RequestsAssumption DEF Strings
<1> DEFINE ids == [s \in Sources |-> Configured(req[h].subject, s)]
           admin == ResolvedGroups(policy, raw[h]) \cap policy.administrative # {}
<1>3. lines \in Configurations /\ NewMapping(lines)
    BY DEF Typed
<1>4. \A s \in Sources : Configured(req[h].subject, s) \in Identities
    BY <1>3, ConfiguredIs
<1>5. ids \in [Sources -> Identities] /\ \A s \in Sources : ids[s] = Configured(req[h].subject, s)
    BY <1>4
<1>6. admin \in BOOLEAN
    BY Zenon
<1> HIDE DEF ids, admin
<1>7. SignedOn(h) = [kind |-> "principal", subject |-> req[h].subject, ref |-> Nil,
                     asOf |-> asOf[h], ids |-> ids, administrative |-> admin]
    BY Zenon DEF SignedOn, ids, admin
<1>8. /\ SignedOn(h) \in Principals /\ SignedOn(h).kind = "principal"
      /\ SignedOn(h).subject = req[h].subject /\ SignedOn(h).asOf = asOf[h]
      /\ SignedOn(h).ids = ids
    BY <1>1, <1>2, <1>5, <1>6, <1>7 DEF Principals
<1>9. /\ SignedOnFrom(h) \in Lineages
      /\ SignedOnFrom(h).subject = req[h].subject /\ SignedOnFrom(h).values = raw[h]
      /\ SignedOnFrom(h).asserted = {} /\ SignedOnFrom(h).written = FALSE
    <2>1. NoLineage \in Lineages /\ NoLineage.asserted = {} /\ NoLineage.written = FALSE
        BY NothingTyped DEF NoLineage
    <2>2. QED
        BY <1>1, <1>2, <2>1 DEF SignedOnFrom, Lineages
<1> QED
    BY <1>5, <1>8, <1>9

-----------------------------------------------------------------------------
(* What a step does to the holders: nothing, one of them writes, or one of   *)
(* them comes to hold something.                                             *)

\* What a write of h's does.
Wrote(h) ==
    /\ held' = held /\ lineage'[h] = [lineage[h] EXCEPT !.written = TRUE]
    /\ \A j \in Holders : j # h => lineage'[j] = lineage[j] /\ GroupsOf(j)' = GroupsOf(j)

\* Only the groups of the one who writes change.
LEMMA WriteIs ==
    ASSUME HoldingsTyped, Apart, NEW h \in Holders, NEW groups, Write(h, groups)
    PROVE  HoldingsTyped' /\ Apart' /\ Wrote(h)
<1>1. /\ held[h].ref # Nil /\ array' = [array EXCEPT ![held[h].ref] = groups]
      /\ lineage' = [lineage EXCEPT ![h].written = TRUE] /\ held' = held
    BY DEF Write
<1>2. held[h].ref \in Arrays
    BY <1>1 DEF HoldingsTyped, Principals
<1>3. [lineage[h] EXCEPT !.written = TRUE] \in Lineages
    BY DEF HoldingsTyped, Lineages
<1>4. /\ lineage'[h] = [lineage[h] EXCEPT !.written = TRUE]
      /\ \A j \in Holders : j # h => lineage'[j] = lineage[j]
      /\ lineage' \in [Holders -> Lineages]
    BY <1>1, <1>3 DEF HoldingsTyped
<1>5. /\ array' = [a \in Arrays |-> array'[a]]
      /\ \A a \in Arrays : a # held[h].ref => array'[a] = array[a]
    BY <1>1, <1>2 DEF HoldingsTyped
<1>6. ASSUME NEW j \in Holders, j # h
      PROVE  GroupsOf(j)' = GroupsOf(j)
    <2>1. held[j].ref # held[h].ref /\ held[j].ref \in Arrays \cup {Nil}
        BY <1>1, <1>6 DEF Apart, HoldingsTyped, Principals
    <2>2. QED
        BY <1>1, <1>5, <2>1 DEF GroupsOf
<1> QED
    BY <1>1, <1>4, <1>5, <1>6 DEF HoldingsTyped, Apart, Wrote

Signs(h) == Resolve(h) /\ Fills(h, SignedOn(h), ResolvedGroups(policy, raw[h]), SignedOnFrom(h))

Asserts(h, k, source, value) ==
    /\ WithSourceAssertion(h, k, source, value)
    /\ Fills(k, Asserting(h, source, value), GroupsOf(h), AssertingFrom(h, source, value))

Faces(h, k, source) ==
    /\ ForSource(h, k, source)
    /\ IF IdentityIn(h, source) THEN Fills(k, Facing(h, source), GroupsOf(h), FacingFrom(h, source))
       ELSE Fills(k, FacingNobody, {}, FacingFrom(h, source))

Changes ==
    \/ UNCHANGED <<held, array, lineage>>
    \/ \E h \in Holders, groups \in Writes : Write(h, groups) /\ Wrote(h)
    \/ \E h \in Holders : Signs(h)
    \/ \E h \in Holders, k \in Holders, source \in Sources :
          \/ \E value \in SourceAnswers : Asserts(h, k, source, value)
          \/ Faces(h, k, source)

\* Facing a source that knows nobody leaves an empty principal.
LEMMA NobodyFills ==
    ASSUME HoldingsTyped, Apart, NEW h \in Holders, NEW k \in Holders, NEW source \in Sources,
           held' = [held EXCEPT ![k] = FacingNobody], UNCHANGED array,
           lineage' = [lineage EXCEPT ![k] = FacingFrom(h, source)]
    PROVE  HoldingsTyped' /\ Apart' /\ Fills(k, FacingNobody, {}, FacingFrom(h, source))
<1> DEFINE v == FacingNobody
           w == FacingFrom(h, source)
<1>1. v \in Principals /\ v.ref = Nil /\ w \in Lineages
    BY FacingIs
<1> HIDE DEF v, w
<1>2. held' = [held EXCEPT ![k] = v] /\ lineage' = [lineage EXCEPT ![k] = w]
    BY Zenon DEF v, w
<1>3. /\ held'[k] = v /\ lineage'[k] = w
      /\ \A j \in Holders : j # k => held'[j] = held[j] /\ lineage'[j] = lineage[j]
    BY <1>2 DEF HoldingsTyped
<1>4. GroupsOf(k)' = {} /\ \A j \in Holders : j # k => GroupsOf(j)' = GroupsOf(j)
    BY <1>1, <1>3 DEF GroupsOf
<1>5. HoldingsTyped' /\ Apart'
    BY <1>1, <1>2, <1>3 DEF HoldingsTyped, Apart
<1>6. Fills(k, v, {}, w)
    BY <1>3, <1>4 DEF Fills
<1> QED
    BY <1>5, <1>6 DEF v, w

\* Every step changes the holders in one of these ways.
LEMMA StepsChange ==
    ASSUME Typed, Apart, Next
    PROVE  HoldingsTyped' /\ Apart' /\ Changes
<1>1. HoldingsTyped
    BY DEF Typed, HoldingsTyped
<1>2. CASE UNCHANGED <<held, array, lineage>>
    BY <1>1, <1>2 DEF HoldingsTyped, Apart, Changes
<1>3. ASSUME NEW h \in Holders, NEW groups \in Writes, Write(h, groups)
      PROVE  HoldingsTyped' /\ Apart' /\ Changes
    BY <1>1, <1>3, WriteIs, Zenon DEF Changes
<1>4. ASSUME NEW h \in Holders, Resolve(h)
      PROVE  HoldingsTyped' /\ Apart' /\ Changes
    <2>1. Hold(h, SignedOn(h), ResolvedGroups(policy, raw[h]), SignedOnFrom(h))
        BY <1>4, Zenon DEF Resolve, SignedOn, SignedOnFrom
    <2>2. SignedOn(h) \in Principals /\ SignedOnFrom(h) \in Lineages
        BY SignedOnIs
    <2>3. /\ HoldingsTyped' /\ Apart'
          /\ Fills(h, SignedOn(h), ResolvedGroups(policy, raw[h]), SignedOnFrom(h))
        BY <1>1, <2>1, <2>2, HoldFills
    <2>4. QED
        BY <1>4, <2>3, Zenon DEF Changes, Signs
<1>5. ASSUME NEW h \in Holders, NEW k \in Holders, NEW source \in Sources, NEW value \in SourceAnswers,
             WithSourceAssertion(h, k, source, value)
      PROVE  HoldingsTyped' /\ Apart' /\ Changes
    <2> DEFINE v == Asserting(h, source, value)
               w == AssertingFrom(h, source, value)
               groups == GroupsOf(h)
    <2>1. Hold(k, v, groups, w)
        BY <1>5, Zenon DEF WithSourceAssertion, Asserting, AssertingFrom
    <2>2. v \in Principals /\ w \in Lineages
        BY <1>1, AssertingIs
    <2>3. HoldingsTyped' /\ Apart' /\ Fills(k, v, groups, w)
        BY <1>1, <2>1, <2>2, HoldFills
    <2>4. QED
        BY <1>5, <2>3, Zenon DEF Changes, Asserts
<1>6. ASSUME NEW h \in Holders, NEW k \in Holders, NEW source \in Sources, ForSource(h, k, source)
      PROVE  HoldingsTyped' /\ Apart' /\ Changes
    <2>1. CASE IdentityIn(h, source)
        <3> DEFINE v == Facing(h, source)
                   w == FacingFrom(h, source)
                   groups == GroupsOf(h)
        <3>1. Hold(k, v, groups, w)
            BY <1>6, <2>1, Zenon DEF ForSource, Facing, FacingFrom
        <3>2. v \in Principals /\ w \in Lineages
            BY <1>1, FacingIs
        <3>3. HoldingsTyped' /\ Apart' /\ Fills(k, v, groups, w)
            BY <1>1, <3>1, <3>2, HoldFills
        <3>4. QED
            BY <1>6, <2>1, <3>3, Zenon DEF Changes, Faces
    <2>2. CASE ~IdentityIn(h, source)
        <3>1. /\ held' = [held EXCEPT ![k] = FacingNobody] /\ UNCHANGED array
              /\ lineage' = [lineage EXCEPT ![k] = FacingFrom(h, source)]
            BY <1>6, <2>2, Zenon DEF ForSource, FacingNobody, FacingFrom
        <3>2. QED
            BY <1>1, <1>6, <2>2, <3>1, NobodyFills, Zenon DEF Changes, Faces
    <2>3. QED
        BY <2>1, <2>2
<1>7. ASSUME NEW h \in Holders, SignOn(h)
      PROVE  Resolve(h) \/ UNCHANGED <<held, array, lineage>>
    BY <1>7 DEF SignOn, NewSession, RefuseGroupsAlreadySet, FromToken, AskProvider, ProviderAnswers,
        RefuseGroups, RefuseNoSubject, Refuse, holdings
<1>8. CASE Outside
    BY <1>2, <1>3, <1>8 DEF Outside, Leave, Tick, holdings
<1> QED
    BY <1>2, <1>4, <1>5, <1>6, <1>7, <1>8, Zenon DEF Next, Derive

\* What a provider lists is what is so, each value once.
LEMMA ProviderLists ==
    ASSUME NEW S \in SUBSET Raw
    PROVE  SetToSeq(S) \in Seq(S)
<1>1. IsFiniteSet(S)
    BY NamesAssumption, FS_Subset
<1>2. Cardinality(S) \in Nat /\ ExistsBijection(1 .. Cardinality(S), S)
    BY <1>1, FS_CardinalityType
<1>3. \E f \in [1 .. Cardinality(S) -> S] : IsInjective(f)
    BY <1>2, Zenon DEF ExistsBijection, Bijection, Injection
<1>4. SetToSeq(S) \in [1 .. Cardinality(S) -> S]
    BY <1>3, Zenon DEF SetToSeq
<1> QED
    BY <1>2, <1>4

\* The configuration, the provider, and the sign-ons under way.
RestTyped ==
    /\ lines \in Configurations /\ NewMapping(lines)
    /\ now \in Nat
    /\ member \in [Subjects -> SUBSET Raw]
    /\ lastIn \in [Subjects -> [Raw -> Nat]]
    /\ stage \in [Holders -> Stages]
    /\ req \in [Holders -> Requests]
    /\ asOf \in [Holders -> Nat]
    /\ raw \in [Holders -> Seq(STRING)]

\* A sign-on keeps them typed.
LEMMA SignOnTypes ==
    ASSUME RestTyped, NEW h \in Holders, SignOn(h)
    PROVE  RestTyped'
<1>1. UNCHANGED <<config, provider>>
    BY DEF SignOn, NewSession, RefuseGroupsAlreadySet, FromToken, AskProvider, ProviderAnswers,
        RefuseGroups, RefuseNoSubject, Resolve, Refuse
<1>2. UNCHANGED <<lines, policy, now, member, lastIn>>
    BY <1>1 DEF config, provider
<1>3. (lines \in Configurations /\ NewMapping(lines))'
    BY <1>2 DEF RestTyped, NewMapping, Whole
<1>4. CASE NewSession(h)
    BY <1>2, <1>3, <1>4 DEF RestTyped, NewSession, Move, Stages
<1>5. CASE RefuseGroupsAlreadySet(h) \/ AskProvider(h) \/ RefuseGroups(h) \/ RefuseNoSubject(h)
           \/ Resolve(h)
    <2>1. PICK to \in Stages : stage' = [stage EXCEPT ![h] = to] /\ UNCHANGED <<req, asOf, raw>>
        BY <1>5 DEF RefuseGroupsAlreadySet, AskProvider, RefuseGroups, RefuseNoSubject, Resolve,
            Refuse, Move, Stages
    <2>2. QED
        BY <1>2, <1>3, <2>1 DEF RestTyped
<1>6. CASE FromToken(h)
    <2>1. req[h].values \in Seq(STRING) /\ <<>> \in Seq(STRING)
        BY RequestsAssumption DEF RestTyped
    <2>2. PICK to \in Stages, values \in Seq(STRING) :
             /\ stage' = [stage EXCEPT ![h] = to] /\ UNCHANGED <<req, asOf>>
             /\ raw' = [raw EXCEPT ![h] = values] \/ raw' = raw
        BY <1>6, <2>1 DEF FromToken, Refuse, Move, Stages
    <2>3. QED
        BY <1>2, <1>3, <2>2 DEF RestTyped
<1>7. CASE ProviderAnswers(h)
    <2>1. \A s \in Subjects : SetToSeq(member[s]) \in Seq(STRING)
        <3> SUFFICES ASSUME NEW s \in Subjects
                     PROVE  SetToSeq(member[s]) \in Seq(STRING)
            OBVIOUS
        <3>1. member[s] \in SUBSET Raw /\ member[s] \subseteq STRING
            BY NamesAssumption DEF RestTyped
        <3>2. SetToSeq(member[s]) \in Seq(member[s])
            BY <3>1, ProviderLists
        <3>3. QED
            BY <3>1, <3>2
    <2>2. <<>> \in Seq(STRING)
        OBVIOUS
    <2>3. PICK to \in Stages, values \in Seq(STRING) :
             /\ stage' = [stage EXCEPT ![h] = to] /\ UNCHANGED <<req, asOf>>
             /\ raw' = [raw EXCEPT ![h] = values] \/ raw' = raw
        BY <1>7, <2>1, <2>2 DEF ProviderAnswers, Refuse, Move, Stages
    <2>4. QED
        BY <1>2, <1>3, <2>3 DEF RestTyped
<1> QED
    BY <1>4, <1>5, <1>6, <1>7 DEF SignOn

\* The types, and the arrays that are not shared, are kept by every step.
LEMMA TypesStay == Typed /\ Apart /\ [Next]_vars => Typed' /\ Apart'
<1>1. ASSUME Typed, Apart, Next
      PROVE  Typed' /\ Apart'
    <2>1. RestTyped
        BY <1>1 DEF Typed, RestTyped
    <2>2. HoldingsTyped' /\ Apart'
        BY <1>1, StepsChange
    <2>3. RestTyped'
        <3>1. CASE UNCHANGED <<config, provider, signOns>>
            BY <2>1, <3>1 DEF RestTyped, config, provider, signOns, NewMapping, Whole
        <3>2. ASSUME NEW h \in Holders, NEW k \in Holders, Derive(h, k)
              PROVE  UNCHANGED <<config, provider, signOns>>
            BY <3>2 DEF Derive, WithSourceAssertion, ForSource
        <3>3. ASSUME NEW h \in Holders, NEW groups, Write(h, groups)
              PROVE  UNCHANGED <<config, provider, signOns>>
            BY <3>3 DEF Write
        <3>4. ASSUME NEW s \in Subjects, NEW v \in Raw, Leave(s, v)
              PROVE  RestTyped'
            BY <2>1, <3>4 DEF Leave, RestTyped, config, signOns, NewMapping, Whole
        <3>5. CASE Tick
            <4>1. /\ now' = now + 1 /\ UNCHANGED <<lines, member, stage, req, asOf, raw>>
                  /\ lastIn' = [s \in Subjects |->
                                 [v \in Raw |-> IF v \in member[s] THEN now + 1 ELSE lastIn[s][v]]]
                BY <3>5 DEF Tick, config, signOns
            <4>2. \A s \in Subjects : \A v \in Raw : lastIn[s][v] \in Nat
                BY <2>1 DEF RestTyped
            <4>3. lastIn' \in [Subjects -> [Raw -> Nat]]
                BY <2>1, <4>1, <4>2 DEF RestTyped
            <4>4. now' \in Nat
                BY <2>1, <4>1 DEF RestTyped
            <4>5. (lines \in Configurations /\ NewMapping(lines))'
                BY <2>1, <4>1 DEF RestTyped, NewMapping, Whole
            <4>6. QED
                BY <2>1, <4>1, <4>3, <4>4, <4>5, Zenon DEF RestTyped
        <3>6. QED
            BY <1>1, <2>1, <3>1, <3>2, <3>3, <3>4, <3>5, SignOnTypes DEF Next, Outside
    <2>4. QED
        BY <2>2, <2>3 DEF Typed, RestTyped, HoldingsTyped
<1>2. Typed /\ Apart /\ UNCHANGED vars => Typed' /\ Apart'
    BY DEF Typed, Apart, vars, config, provider, signOns, holdings, NewMapping, Whole
<1> QED
    BY <1>1, <1>2

\* Callers begin with nothing, and with requests to make.
LEMMA InitTypes == Init => Typed /\ Apart
<1> SUFFICES ASSUME Init
             PROVE  Typed /\ Apart
    OBVIOUS
<1>1. Nothing \in Principals /\ Nothing.ref = Nil /\ NoLineage \in Lineages
    BY NothingTyped
<1>2. (CHOOSE r \in Requests : TRUE) \in Requests
    BY RequestsAssumption
<1>3. lines \in Configurations /\ NewMapping(lines)
    BY DEF Init
<1>4. held = [h \in Holders |-> Nothing] /\ lineage = [h \in Holders |-> NoLineage]
      /\ array = [a \in Arrays |-> {}]
    BY DEF Init
<1>5. /\ now \in Nat
      /\ member \in [Subjects -> SUBSET Raw]
      /\ lastIn \in [Subjects -> [Raw -> Nat]]
      /\ stage \in [Holders -> Stages]
      /\ req \in [Holders -> Requests]
      /\ asOf \in [Holders -> Nat]
      /\ raw \in [Holders -> Seq(STRING)]
    BY <1>2 DEF Init, Stages
<1> QED
    BY <1>1, <1>3, <1>4, <1>5 DEF Typed, Apart

\* A sign-on that is refused or not over leaves its holder with nothing, and
\* what comes to be held is held by who had nothing.
AllEmpty == \A h \in Holders : Empty(h)

\* Nothing is filled that was not empty, unless it is written to.
LEMMA OnlyTheEmptyFill ==
    ASSUME Typed, AllEmpty, Next, Changes
    PROVE  \/ UNCHANGED <<held, array, lineage>>
           \/ \E h \in Holders, groups \in Writes : Write(h, groups) /\ Wrote(h)
           \/ \E k \in Holders :
                 /\ held[k] = Nothing /\ held'[k].kind # "nothing"
                 /\ \A j \in Holders : j # k => held'[j] = held[j] /\ GroupsOf(j)' = GroupsOf(j)
<1>1. HoldingsTyped
    BY DEF Typed, HoldingsTyped
<1>2. ASSUME NEW h \in Holders, Signs(h)
      PROVE  /\ held[h] = Nothing /\ held'[h].kind # "nothing"
             /\ \A j \in Holders : j # h => held'[j] = held[j] /\ GroupsOf(j)' = GroupsOf(j)
    BY <1>2, SignedOnIs DEF Signs, Fills, Resolve, AllEmpty, Empty
<1>3. ASSUME NEW h \in Holders, NEW k \in Holders, NEW source \in Sources, NEW value \in SourceAnswers,
             Asserts(h, k, source, value)
      PROVE  /\ held[k] = Nothing /\ held'[k].kind # "nothing"
             /\ \A j \in Holders : j # k => held'[j] = held[j] /\ GroupsOf(j)' = GroupsOf(j)
    BY <1>1, <1>3, AssertingIs DEF Asserts, Fills, WithSourceAssertion, MayDerive
<1>4. ASSUME NEW h \in Holders, NEW k \in Holders, NEW source \in Sources, Faces(h, k, source)
      PROVE  /\ held[k] = Nothing /\ held'[k].kind # "nothing"
             /\ \A j \in Holders : j # k => held'[j] = held[j] /\ GroupsOf(j)' = GroupsOf(j)
    BY <1>1, <1>4, FacingIs DEF Faces, Fills, ForSource, MayDerive
<1> QED
    BY <1>2, <1>3, <1>4 DEF Changes

\* No step leaves anything with a sign-on that is not over.
LEMMA EmptyStays == Typed /\ Apart /\ AllEmpty /\ [Next]_vars => AllEmpty'
<1>1. ASSUME Typed, Apart, AllEmpty, Next, NEW j \in Holders, stage'[j] \notin {"none", "open"}
      PROVE  held'[j] = Nothing
    <2>1. stage \in [Holders -> Stages] /\ held \in [Holders -> Principals]
        BY <1>1 DEF Typed
    <2>2. ASSUME NEW h \in Holders, SignOn(h)
          PROVE  held'[j] = Nothing
        <3>1. CASE Resolve(h)
            <4>1. j # h /\ stage'[j] = stage[j]
                BY <1>1, <2>1, <3>1 DEF Resolve, Move
            <4>2. PICK a : held' = [held EXCEPT ![h] = a]
                BY <3>1, Zenon DEF Resolve, Hold
            <4>3. QED
                BY <1>1, <2>1, <4>1, <4>2 DEF AllEmpty, Empty
        <3>2. CASE NewSession(h)
            BY <1>1, <2>1, <3>2 DEF NewSession, Move, AllEmpty, Empty, holdings
        <3>3. CASE RefuseGroupsAlreadySet(h) \/ FromToken(h) \/ AskProvider(h)
                   \/ ProviderAnswers(h) \/ RefuseGroups(h) \/ RefuseNoSubject(h)
            <4>1. held' = held /\ stage[h] \notin {"none", "open"}
                BY <3>3 DEF RefuseGroupsAlreadySet, FromToken, AskProvider, ProviderAnswers,
                    RefuseGroups, RefuseNoSubject, Refuse, holdings
            <4>2. \E to : stage' = [stage EXCEPT ![h] = to]
                BY <3>3, Zenon DEF RefuseGroupsAlreadySet, FromToken, AskProvider, ProviderAnswers,
                    RefuseGroups, RefuseNoSubject, Refuse, Move
            <4>3. QED
                BY <1>1, <2>1, <4>1, <4>2 DEF AllEmpty, Empty
        <3>4. QED
            BY <2>2, <3>1, <3>2, <3>3 DEF SignOn
    <2>3. ASSUME NEW h \in Holders, NEW k \in Holders, Derive(h, k)
          PROVE  held'[j] = Nothing
        <3>1. stage[k] = "none" /\ stage' = stage /\ \E a : held' = [held EXCEPT ![k] = a]
            BY <2>3, Zenon DEF Derive, WithSourceAssertion, ForSource, MayDerive, Hold, signOns
        <3>2. QED
            BY <1>1, <2>1, <3>1 DEF AllEmpty, Empty
    <2>4. CASE Outside
        <3>1. UNCHANGED <<held, stage>>
            BY <2>4 DEF Outside, Write, Leave, Tick, signOns, holdings
        <3>2. QED
            BY <1>1, <3>1 DEF AllEmpty, Empty
    <2>5. QED
        BY <1>1, <2>2, <2>3, <2>4 DEF Next
<1>2. AllEmpty /\ UNCHANGED vars => AllEmpty'
    BY DEF AllEmpty, Empty, vars, signOns, holdings
<1> QED
    BY <1>1, <1>2 DEF AllEmpty, Empty

Base == Typed /\ Apart /\ AllEmpty

\* What the rest is proved over holds throughout.
LEMMA BaseInductive == Spec => []Base
<1>1. Init => Base
    BY InitTypes DEF Init, Base, AllEmpty, Empty
<1>2. Base /\ [Next]_vars => Base'
    BY TypesStay, EmptyStays DEF Base
<1> QED
    BY <1>1, <1>2, PTL DEF Spec

\* The groups a holder kept change under it by its own writing alone, however
\* many principals were derived from it and whatever was written to those.
THEOREM GroupsAreNeverShared == Spec => GroupsAreNotShared
<1>1. Base /\ [Next]_vars =>
          [\A h \in Holders : held'[h] = held[h] /\ GroupsOf(h)' # GroupsOf(h) =>
              \E groups \in Writes : Write(h, groups)]_vars
    <2> SUFFICES ASSUME Base, Next, NEW h \in Holders,
                        held'[h] = held[h], GroupsOf(h)' # GroupsOf(h)
                 PROVE  \E groups \in Writes : Write(h, groups)
        OBVIOUS
    <2>1. \/ UNCHANGED <<held, array, lineage>>
          \/ \E k \in Holders, groups \in Writes : Write(k, groups) /\ Wrote(k)
          \/ \E k \in Holders :
                /\ held[k] = Nothing /\ held'[k].kind # "nothing"
                /\ \A j \in Holders : j # k => held'[j] = held[j] /\ GroupsOf(j)' = GroupsOf(j)
        BY StepsChange, OnlyTheEmptyFill DEF Base
    <2>2. CASE UNCHANGED <<held, array, lineage>>
        BY <2>2 DEF GroupsOf
    <2>3. ASSUME NEW k \in Holders, NEW groups \in Writes, Write(k, groups), Wrote(k)
          PROVE  \E g \in Writes : Write(h, g)
        BY <2>3, Zenon DEF Wrote
    <2>4. ASSUME NEW k \in Holders, held[k] = Nothing, held'[k].kind # "nothing"
          PROVE  h # k
        BY <2>4, NothingTyped
    <2>5. QED
        BY <2>1, <2>2, <2>3, <2>4
<1> QED
    BY <1>1, BaseInductive, PTL DEF Spec, GroupsAreNotShared

-----------------------------------------------------------------------------
(* What is known of every holder.                                            *)

AllWhole == \A h \in Holders : WholeSession(h)
AllAccounted == \A h \in Holders : Accounted(h)
AllNamed == \A h \in Holders : Named(h) /\ Grouped(h)

\* The configuration does not change.
LEMMA ConfigStays == Next => UNCHANGED <<lines, policy>>
<1>1. ASSUME NEW h \in Holders, SignOn(h)
      PROVE  UNCHANGED <<lines, policy>>
    BY <1>1 DEF SignOn, NewSession, RefuseGroupsAlreadySet, FromToken, AskProvider, ProviderAnswers,
        RefuseGroups, RefuseNoSubject, Resolve, Refuse, config
<1>2. ASSUME NEW h \in Holders, NEW k \in Holders, Derive(h, k)
      PROVE  UNCHANGED <<lines, policy>>
    BY <1>2 DEF Derive, WithSourceAssertion, ForSource, config
<1>3. Outside => UNCHANGED <<lines, policy>>
    BY DEF Outside, Write, Leave, Tick, config
<1> QED
    BY <1>1, <1>2, <1>3 DEF Next

\* What is known of a holder stays so while it and its groups are left alone.
LEMMA LeftAlone ==
    ASSUME NEW j \in Holders, UNCHANGED <<lines, policy>>,
           held'[j] = held[j], lineage'[j] = lineage[j], GroupsOf(j)' = GroupsOf(j)
    PROVE  /\ WholeSession(j) => WholeSession(j)'
           /\ Accounted(j) => Accounted(j)'
           /\ Named(j) => Named(j)'
           /\ Grouped(j) => Grouped(j)'
<1>1. WholeSession(j) => WholeSession(j)'
    BY DEF WholeSession
<1>2. Accounted(j) => Accounted(j)'
    BY DEF Accounted, LinesFor
<1>3. Named(j) => Named(j)'
    BY DEF Named, LinesFor
<1>4. Grouped(j) => Grouped(j)'
    BY DEF Grouped
<1> QED
    BY <1>1, <1>2, <1>3, <1>4

\* A holder that writes to its groups is who it was, and says that it wrote.
LEMMA AfterWriting ==
    ASSUME HoldingsTyped, NEW h \in Holders, Wrote(h), UNCHANGED <<lines, policy>>
    PROVE  /\ WholeSession(h)' /\ Grouped(h)'
           /\ Accounted(h) => Accounted(h)'
           /\ Named(h) => Named(h)'
<1>1. lineage[h] \in Lineages
    BY DEF HoldingsTyped
<1>2. /\ lineage'[h].written /\ held'[h] = held[h]
      /\ lineage'[h].subject = lineage[h].subject /\ lineage'[h].source = lineage[h].source
      /\ lineage'[h].asserted = lineage[h].asserted
    BY <1>1 DEF Wrote, Lineages
<1>3. WholeSession(h)' /\ Grouped(h)'
    BY <1>2 DEF WholeSession, Grouped
<1>4. Accounted(h) => Accounted(h)'
    BY <1>2 DEF Accounted, LinesFor
<1>5. Named(h) => Named(h)'
    BY <1>2 DEF Named, LinesFor
<1> QED
    BY <1>3, <1>4, <1>5

\* A sign-on that is let in has everything it was given.
LEMMA SignedOnWhole ==
    ASSUME Base, NEW h \in Holders, Signs(h), UNCHANGED <<lines, policy>>
    PROVE  WholeSession(h)' /\ Accounted(h)' /\ Named(h)' /\ Grouped(h)'
<1>1. Typed
    BY DEF Base
<1>2. /\ held'[h].kind = "principal"
      /\ \A s \in Sources : held'[h].ids[s] = Configured(req[h].subject, s)
      /\ lineage'[h].subject = req[h].subject /\ lineage'[h].values = raw[h]
      /\ lineage'[h].asserted = {} /\ GroupsOf(h)' = ResolvedGroups(policy, raw[h])
    BY <1>1, SignedOnIs, Zenon DEF Signs, Fills
<1>3. Resolves(policy, raw[h])
    BY DEF Signs, Resolve
<1>4. WholeSession(h)'
    BY <1>2, <1>3 DEF WholeSession, Resolves, ResolvedGroups
<1>5. Accounted(h)'
    <2> SUFFICES ASSUME NEW s \in Sources
                 PROVE  LET id == held'[h].ids[s]
                            written == LinesFor(req[h].subject, s)
                        IN  IF id.by = "nobody" THEN written = {}
                            ELSE \E i \in DOMAIN lines : written = {i} /\ lines[i].value = id.value
        BY <1>2 DEF Accounted, LinesFor
    <2>1. lines \in Configurations /\ NewMapping(lines)
        BY <1>1 DEF Typed
    <2>2. held'[h].ids[s] = Configured(req[h].subject, s)
        BY <1>2
    <2>3. QED
        BY <2>1, <2>2, ConfiguredIs
<1>6. Named(h)' /\ Grouped(h)'
    BY <1>2 DEF Named, Grouped
<1> QED
    BY <1>4, <1>5, <1>6

\* A copy has the groups it was made of, and the identity its source asserted.
LEMMA AssertedWhole ==
    ASSUME Base, NEW h \in Holders, NEW k \in Holders, NEW source \in Sources,
           NEW value \in SourceAnswers, Asserts(h, k, source, value), UNCHANGED <<lines, policy>>
    PROVE  /\ WholeSession(h) => WholeSession(k)'
           /\ Accounted(h) => Accounted(k)'
           /\ Named(k)' /\ Grouped(k)'
<1>1. HoldingsTyped
    BY DEF Base, Typed, HoldingsTyped
<1>2. held[h].kind = "principal"
    BY DEF Asserts, WithSourceAssertion, MayDerive
<1> DEFINE v == Asserting(h, source, value)
           w == AssertingFrom(h, source, value)
<1>3. /\ v.kind = "principal"
      /\ v.ids[source] = [value |-> value, by |-> "source"]
      /\ \A s \in Sources : s # source => v.ids[s] = held[h].ids[s]
      /\ w.subject = lineage[h].subject /\ w.values = lineage[h].values
      /\ w.written = lineage[h].written
      /\ w.asserted = Said(h, source, value)
    <2>1. v.kind = held[h].kind
        BY <1>1, AssertingIs, Zenon
    <2>2. /\ v.ids[source] = [value |-> value, by |-> "source"]
          /\ \A s \in Sources : s # source => v.ids[s] = held[h].ids[s]
        BY <1>1, AssertingIs, Zenon
    <2>3. /\ w.subject = lineage[h].subject /\ w.values = lineage[h].values
          /\ w.written = lineage[h].written
        BY <1>1, AssertingIs, Zenon
    <2>4. w.asserted = Said(h, source, value)
        BY <1>1, AssertingIs, Zenon
    <2>5. QED
        BY <1>2, <2>1, <2>2, <2>3, <2>4, Zenon
<1>4. /\ held'[k].kind = v.kind /\ held'[k].ids = v.ids /\ lineage'[k] = w
      /\ GroupsOf(k)' = GroupsOf(h)
    BY Zenon DEF Asserts, Fills
<1> HIDE DEF v, w
<1>5. WholeSession(h) => WholeSession(k)'
    BY <1>2, <1>3, <1>4 DEF WholeSession
<1>6. ASSUME Accounted(h)
      PROVE  Accounted(k)'
    <2> DEFINE said(s) == {a \in lineage'[k].asserted : a[1] = s}
               written(s) == LinesFor(lineage[h].subject, s)
    <2>1. ASSUME NEW s \in Sources
          PROVE  LET id == held'[k].ids[s]
                 IN  IF said(s) # {} THEN id.by = "source" /\ said(s) = {<<s, id.value>>}
                     ELSE IF id.by = "nobody" THEN written(s) = {}
                     ELSE \E i \in DOMAIN lines : written(s) = {i} /\ lines[i].value = id.value
        <3>1. CASE s = source
            <4>1. said(s) = {<<source, value>>}
                BY <1>3, <1>4, <3>1 DEF Said
            <4>2. held'[k].ids[s] = [value |-> value, by |-> "source"]
                BY <1>3, <1>4, <3>1
            <4>3. held'[k].ids[s].by = "source" /\ held'[k].ids[s].value = value
                BY <4>2
            <4>4. said(s) # {} /\ said(s) = {<<s, held'[k].ids[s].value>>}
                BY <3>1, <4>1, <4>3
            <4>5. QED
                BY <4>3, <4>4, Zenon
        <3>2. CASE s # source
            <4>1. said(s) = {a \in lineage[h].asserted : a[1] = s}
                BY <1>3, <1>4, <3>2 DEF Said
            <4>2. held'[k].ids[s] = held[h].ids[s]
                BY <1>3, <1>4, <3>2
            <4>3. QED
                BY <1>2, <1>6, <4>1, <4>2, Zenon DEF Accounted
        <3>3. QED
            BY <3>1, <3>2
    <2>2. lineage'[k].subject = lineage[h].subject
        BY <1>3, <1>4
    <2>3. QED
        BY <2>1, <2>2 DEF Accounted, LinesFor
<1>7. Named(k)' /\ Grouped(k)'
    BY <1>3, <1>4 DEF Named, Grouped
<1> QED
    BY <1>5, <1>6, <1>7

\* What is handed to authz goes by an identity that is accounted for.
LEMMA FacedWhole ==
    ASSUME Base, AllWhole, AllAccounted, NEW h \in Holders, NEW k \in Holders, NEW source \in Sources,
           Faces(h, k, source), UNCHANGED <<lines, policy>>
    PROVE  WholeSession(k)' /\ Accounted(k)' /\ Named(k)' /\ Grouped(k)'
<1>1. HoldingsTyped
    BY DEF Base, Typed, HoldingsTyped
<1>2. held[h].kind = "principal"
    BY DEF Faces, ForSource, MayDerive
<1> DEFINE w == FacingFrom(h, source)
<1>3. /\ w.subject = lineage[h].subject /\ w.values = lineage[h].values /\ w.source = source
      /\ w.written = lineage[h].written /\ w.asserted = lineage[h].asserted
    BY <1>1, FacingIs, Zenon
<1> HIDE DEF w
<1>4. /\ held'[k].kind = "authz" /\ lineage'[k] = w
      /\ IF IdentityIn(h, source)
         THEN held'[k].subject = held[h].ids[source].value /\ GroupsOf(k)' = GroupsOf(h)
         ELSE held'[k].subject = "" /\ GroupsOf(k)' = {}
    BY <1>1, FacingIs, Zenon DEF Faces, Fills, w
<1>5. WholeSession(k)' /\ Accounted(k)'
    BY <1>4 DEF WholeSession, Accounted
<1>6. Grouped(k)'
    <2>1. lineage[h].written \/ \A g \in GroupsOf(k)' :
              \E j \in DOMAIN lineage[h].values : policy.mapping[lineage[h].values[j]] = g
        <3>1. lineage[h].written \/ \A g \in GroupsOf(h) :
                  \E j \in DOMAIN lineage[h].values : policy.mapping[lineage[h].values[j]] = g
            BY <1>2, Zenon DEF AllWhole, WholeSession
        <3>2. GroupsOf(k)' \subseteq GroupsOf(h)
            BY <1>4
        <3>3. QED
            BY <3>1, <3>2, Zenon
    <2>2. QED
        BY <1>3, <1>4, <2>1 DEF Grouped
<1>7. Named(k)'
    <2>1. CASE IdentityIn(h, source)
        <3> DEFINE id == held[h].ids[source]
                   said == {a \in lineage[h].asserted : a[1] = source}
        <3>1. /\ said # {} => said = {<<source, id.value>>}
              /\ said = {} => \E i \in DOMAIN lines :
                     LinesFor(lineage[h].subject, source) = {i} /\ lines[i].value = id.value
            BY <1>2, <2>1 DEF AllAccounted, Accounted, IdentityIn
        <3>2. \/ <<source, id.value>> \in lineage[h].asserted
              \/ \E l \in LinesFor(lineage[h].subject, source) : lines[l].value = id.value
            BY <3>1
        <3>3. QED
            BY <1>3, <1>4, <2>1, <3>2 DEF Named, LinesFor
    <2>2. CASE ~IdentityIn(h, source)
        BY <1>4, <2>2 DEF Named
    <2>3. QED
        BY <2>1, <2>2
<1> QED
    BY <1>5, <1>6, <1>7

Inv == Base /\ AllWhole /\ AllAccounted /\ AllNamed

\* No step leaves a holder unaccounted for.
LEMMA InvStays == Inv /\ [Next]_vars => Inv'
<1>1. ASSUME Inv, Next
      PROVE  AllWhole' /\ AllAccounted' /\ AllNamed'
    <2>1. Base /\ AllWhole /\ AllAccounted /\ AllNamed /\ UNCHANGED <<lines, policy>> /\ HoldingsTyped
        BY <1>1, ConfigStays DEF Inv, Base, Typed, HoldingsTyped
    <2>2. Changes
        BY <1>1, <2>1, StepsChange DEF Base
    <2>3. ASSUME NEW j \in Holders, held'[j] = held[j], lineage'[j] = lineage[j],
                 GroupsOf(j)' = GroupsOf(j)
          PROVE  WholeSession(j)' /\ Accounted(j)' /\ Named(j)' /\ Grouped(j)'
        BY <2>1, <2>3, LeftAlone DEF AllWhole, AllAccounted, AllNamed
    <2>4. CASE UNCHANGED <<held, array, lineage>>
        <3>1. \A j \in Holders : GroupsOf(j)' = GroupsOf(j)
            BY <2>4 DEF GroupsOf
        <3>2. QED
            BY <2>3, <2>4, <3>1 DEF AllWhole, AllAccounted, AllNamed
    <2>5. ASSUME NEW h \in Holders, Wrote(h)
          PROVE  AllWhole' /\ AllAccounted' /\ AllNamed'
        <3>1. WholeSession(h)' /\ Accounted(h)' /\ Named(h)' /\ Grouped(h)'
            BY <2>1, <2>5, AfterWriting DEF AllAccounted, AllNamed
        <3>2. \A j \in Holders : j # h =>
                  held'[j] = held[j] /\ lineage'[j] = lineage[j] /\ GroupsOf(j)' = GroupsOf(j)
            BY <2>5, Zenon DEF Wrote
        <3>3. QED
            BY <2>3, <3>1, <3>2 DEF AllWhole, AllAccounted, AllNamed
    <2>6. ASSUME NEW k \in Holders,
                 WholeSession(k)' /\ Accounted(k)' /\ Named(k)' /\ Grouped(k)',
                 \A j \in Holders : j # k => /\ held'[j] = held[j] /\ lineage'[j] = lineage[j]
                                             /\ GroupsOf(j)' = GroupsOf(j)
          PROVE  AllWhole' /\ AllAccounted' /\ AllNamed'
        BY <2>3, <2>6 DEF AllWhole, AllAccounted, AllNamed
    <2>7. ASSUME NEW h \in Holders, Signs(h)
          PROVE  AllWhole' /\ AllAccounted' /\ AllNamed'
        <3>1. WholeSession(h)' /\ Accounted(h)' /\ Named(h)' /\ Grouped(h)'
            BY <2>1, <2>7, SignedOnWhole
        <3>2. QED
            BY <2>6, <2>7, <3>1, Zenon DEF Signs, Fills
    <2>8. ASSUME NEW h \in Holders, NEW k \in Holders, NEW source \in Sources,
                 NEW value \in SourceAnswers, Asserts(h, k, source, value)
          PROVE  AllWhole' /\ AllAccounted' /\ AllNamed'
        <3>1. WholeSession(k)' /\ Accounted(k)' /\ Named(k)' /\ Grouped(k)'
            BY <2>1, <2>8, AssertedWhole DEF AllWhole, AllAccounted
        <3>2. QED
            BY <2>6, <2>8, <3>1, Zenon DEF Asserts, Fills
    <2>9. ASSUME NEW h \in Holders, NEW k \in Holders, NEW source \in Sources, Faces(h, k, source)
          PROVE  AllWhole' /\ AllAccounted' /\ AllNamed'
        <3>1. WholeSession(k)' /\ Accounted(k)' /\ Named(k)' /\ Grouped(k)'
            BY <2>1, <2>9, FacedWhole
        <3>2. QED
            BY <2>6, <2>9, <3>1, Zenon DEF Faces, Fills
    <2>10. QED
        BY <2>2, <2>4, <2>5, <2>7, <2>8, <2>9, Zenon DEF Changes
<1>2. ASSUME Inv, UNCHANGED vars
      PROVE  AllWhole' /\ AllAccounted' /\ AllNamed'
    <2>1. UNCHANGED <<lines, policy, held, array, lineage>>
        BY <1>2 DEF vars, config, holdings
    <2>2. \A j \in Holders : GroupsOf(j)' = GroupsOf(j)
        BY <2>1 DEF GroupsOf
    <2>3. QED
        BY <1>2, <2>1, <2>2, LeftAlone DEF Inv, AllWhole, AllAccounted, AllNamed
<1>3. Base /\ [Next]_vars => Base'
    BY TypesStay, EmptyStays DEF Base
<1> QED
    BY <1>1, <1>2, <1>3 DEF Inv

\* What is known of every holder holds throughout.
LEMMA InvInductive == Spec => []Inv
<1>1. Init => Inv
    <2> SUFFICES ASSUME Init
                 PROVE  Inv
        OBVIOUS
    <2>1. Base
        BY InitTypes DEF Init, Base, AllEmpty, Empty
    <2>2. \A h \in Holders : held[h].kind = "nothing"
        BY NothingTyped DEF Init
    <2>3. QED
        BY <2>1, <2>2
            DEF Inv, AllWhole, AllAccounted, AllNamed, WholeSession, Accounted, Named, Grouped
<1> QED
    BY <1>1, InvStays, PTL DEF Spec

\* A session has every group its sign-on was given and no other, whatever the
\* policy and however many copies were made of it; a refused one leaves nothing.
THEOREM SessionsAreAlwaysWhole == Spec => []SessionsAreWhole
<1>1. Inv => SessionsAreWhole
    BY DEF Inv, Base, AllEmpty, Empty, AllWhole, WholeSession, SessionsAreWhole
<1> QED
    BY <1>1, InvInductive, PTL

\* An identity is the operator's one line or the source's last word, along any
\* chain of copies.
THEOREM IdentitiesAreAlwaysAccounted == Spec => []IdentitiesAreAccounted
<1>1. Inv => IdentitiesAreAccounted
    BY DEF Inv, AllAccounted, Accounted, IdentitiesAreAccounted
<1> QED
    BY <1>1, InvInductive, PTL

\* For any permission set: whoever is let in is named by an entry that allows,
\* under an identity or a group that is accounted for.
THEOREM AccessIsAlwaysAccounted == Spec => []AccessIsAccounted
<1>1. Inv => AccessIsAccounted
    <2> SUFFICES ASSUME Inv, NEW h \in Holders, NEW set \in PermissionSets,
                        held[h].kind = "authz", ~lineage[h].written,
                        Evaluate([subject |-> held[h].subject, groups |-> GroupsOf(h)], set).allowed
                 PROVE  \E i \in DOMAIN set :
                    \/ /\ set[i].type = TermUser
                       /\ \/ <<lineage[h].source, set[i].value>> \in lineage[h].asserted
                          \/ \E l \in LinesFor(lineage[h].subject, lineage[h].source) :
                                lines[l].value = set[i].value
                    \/ /\ set[i].type = TermGroup
                       /\ \E j \in DOMAIN lineage[h].values :
                             policy.mapping[lineage[h].values[j]] = set[i].value
        BY Zenon DEF AccessIsAccounted
    <2> DEFINE who == [subject |-> held[h].subject, groups |-> GroupsOf(h)]
    <2>1. who.subject = held[h].subject /\ who.groups = GroupsOf(h)
        OBVIOUS
    <2> HIDE DEF who
    <2>2. Evaluate(who, set).allowed
        BY DEF who
    <2>3. Hit(who, set, Allow)
        BY <2>2 DEF Evaluate, Refusal
    <2>4. PICK i \in DOMAIN set : Matches(who, set[i].type, set[i].value)
        BY <2>3 DEF Hit, Names
    <2>5. CASE set[i].type = TermUser /\ set[i].value = who.subject /\ set[i].value # ""
        BY <2>1, <2>5 DEF Inv, AllNamed, Named
    <2>6. CASE set[i].type = TermGroup /\ set[i].value \in who.groups
        BY <2>1, <2>6 DEF Inv, AllNamed, Grouped
    <2>7. QED
        BY <2>4, <2>5, <2>6 DEF Matches
<1> QED
    BY <1>1, InvInductive, PTL

-----------------------------------------------------------------------------
(* How old what is known can be.                                             *)

AllAnswered == \A h \in Holders : Answered(h)
AllRecent == \A h \in Holders : Recent(h)

\* A membership that holds is seen as time passes; when it last held is never
\* earlier than was thought.
LEMMA TimePasses ==
    ASSUME Typed, Known, Next
    PROVE  /\ Known' /\ now' >= now
           /\ \A s \in Subjects : \A v \in Raw : lastIn'[s][v] >= lastIn[s][v]
<1>1. /\ now \in Nat /\ member \in [Subjects -> SUBSET Raw]
      /\ \A s \in Subjects : \A v \in Raw : lastIn[s][v] \in Nat
    BY DEF Typed
<1>2. CASE UNCHANGED <<now, member, lastIn>>
    BY <1>1, <1>2 DEF Known
<1>3. ASSUME NEW s \in Subjects, NEW v \in Raw, Leave(s, v)
      PROVE  /\ Known' /\ now' >= now
             /\ \A t \in Subjects : \A u \in Raw : lastIn'[t][u] >= lastIn[t][u]
    <2>1. /\ now' = now /\ lastIn' = lastIn
          /\ \A t \in Subjects : member'[t] \subseteq member[t]
        BY <1>1, <1>3 DEF Leave
    <2>2. QED
        BY <1>1, <2>1 DEF Known
<1>4. CASE Tick
    <2>1. /\ now' = now + 1 /\ member' = member
          /\ lastIn' = [s \in Subjects |->
                          [v \in Raw |-> IF v \in member[s] THEN now + 1 ELSE lastIn[s][v]]]
        BY <1>4 DEF Tick
    <2>2. \A s \in Subjects : \A v \in Raw :
              lastIn'[s][v] = IF v \in member[s] THEN now + 1 ELSE lastIn[s][v]
        BY <2>1
    <2>3. \A s \in Subjects : \A v \in member[s] : v \in Raw /\ lastIn[s][v] = now
        BY <1>1 DEF Known
    <2>4. Known'
        BY <2>1, <2>2, <2>3 DEF Known
    <2>5. \A s \in Subjects : \A v \in Raw : lastIn'[s][v] >= lastIn[s][v]
        BY <1>1, <2>2, <2>3
    <2>6. QED
        BY <1>1, <2>1, <2>4, <2>5
<1>5. ASSUME NEW h \in Holders, SignOn(h)
      PROVE  UNCHANGED <<now, member, lastIn>>
    BY <1>5 DEF SignOn, NewSession, RefuseGroupsAlreadySet, FromToken, AskProvider, ProviderAnswers,
        RefuseGroups, RefuseNoSubject, Resolve, Refuse, provider
<1>6. ASSUME NEW h \in Holders, NEW k \in Holders, Derive(h, k)
      PROVE  UNCHANGED <<now, member, lastIn>>
    BY <1>6 DEF Derive, WithSourceAssertion, ForSource, provider
<1>7. ASSUME NEW h \in Holders, NEW groups, Write(h, groups)
      PROVE  UNCHANGED <<now, member, lastIn>>
    BY <1>7 DEF Write, provider
<1> QED
    BY <1>2, <1>3, <1>4, <1>5, <1>6, <1>7 DEF Next, Outside

\* Later: memberships that were seen were seen no earlier, and the sign-on is
\* where it was.
LEMMA StillAnswered ==
    ASSUME Typed, NEW h \in Holders, Answered(h), now' >= now, now' \in Nat, UNCHANGED policy,
           \A s \in Subjects : \A v \in Raw : lastIn'[s][v] >= lastIn[s][v],
           Typed',
           stage'[h] = stage[h], req'[h] = req[h], asOf'[h] = asOf[h], raw'[h] = raw[h]
    PROVE  Answered(h)'
<1>1. /\ now \in Nat /\ asOf[h] \in Nat
      /\ \A s \in Subjects : \A v \in Raw : lastIn[s][v] \in Nat
    BY DEF Typed
<1>2. \A s \in Subjects : \A v \in Raw : lastIn'[s][v] \in Nat
    BY DEF Typed
<1>3. stage'[h] \in {"called", "asking", "given"} => asOf'[h] <= now'
    BY <1>1 DEF Answered
<1>4. ASSUME stage'[h] = "given", policy'.shape = "provider-call", NEW i \in DOMAIN raw'[h]
      PROVE  /\ raw'[h][i] \in Raw /\ req'[h].subject \in Subjects
             /\ lastIn'[req'[h].subject][raw'[h][i]] >= asOf'[h]
    <2>1. /\ raw[h][i] \in Raw /\ req[h].subject \in Subjects
          /\ lastIn[req[h].subject][raw[h][i]] >= asOf[h]
        BY <1>4 DEF Answered
    <2>2. lastIn'[req[h].subject][raw[h][i]] >= asOf[h]
        BY <1>1, <1>2, <2>1
    <2>3. QED
        BY <2>1, <2>2
<1> QED
    BY <1>3, <1>4, Zenon DEF Answered

\* The provider answers with what is so as it answers, and it was asked before.
LEMMA ProviderAnswersLater ==
    ASSUME Typed, Typed', Known, NEW h \in Holders, Answered(h), ProviderAnswers(h)
    PROVE  Answered(h)'
<1>1. /\ now \in Nat /\ asOf[h] \in Nat /\ stage \in [Holders -> Stages] /\ raw \in [Holders -> Seq(STRING)]
      /\ member \in [Subjects -> SUBSET Raw]
    BY DEF Typed
<1>2. CASE Refuse(h)
    BY <1>1, <1>2 DEF Refuse, Move, Answered
<1>3. CASE ~Refuse(h)
    <2>1. /\ stage[h] = "asking" /\ stage' = [stage EXCEPT ![h] = "given"]
          /\ raw' = [raw EXCEPT ![h] = IF req[h].subject \in Subjects
                                       THEN SetToSeq(member[req[h].subject]) ELSE <<>>]
          /\ UNCHANGED <<now, lastIn, req, asOf>>
        BY <1>3 DEF ProviderAnswers, Move, provider
    <2>2. asOf[h] <= now
        BY <2>1 DEF Answered
    <2>3. CASE req[h].subject \in Subjects
        <3> DEFINE s == req[h].subject
        <3>1. raw'[h] = SetToSeq(member[s])
            BY <1>1, <2>1, <2>3
        <3>2. member[s] \in SUBSET Raw
            BY <1>1, <2>3
        <3>3. SetToSeq(member[s]) \in Seq(member[s])
            BY <3>2, ProviderLists
        <3>4. \A S : \A q \in Seq(S) : \A x \in DOMAIN q : q[x] \in S
            OBVIOUS
        <3>5. \A i \in DOMAIN raw'[h] : raw'[h][i] \in member[s]
            BY <3>1, <3>3, <3>4, Zenon
        <3>6. \A i \in DOMAIN raw'[h] : raw'[h][i] \in Raw /\ lastIn[s][raw'[h][i]] >= asOf[h]
            BY <1>1, <2>2, <2>3, <3>2, <3>5 DEF Known
        <3>7. QED
            BY <1>1, <2>1, <2>2, <2>3, <3>6 DEF Answered
    <2>4. CASE req[h].subject \notin Subjects
        BY <1>1, <2>1, <2>2, <2>4 DEF Answered
    <2>5. QED
        BY <2>3, <2>4
<1> QED
    BY <1>2, <1>3

\* What a sign-on was told stays no older than its question.
LEMMA AnswersStay ==
    ASSUME Typed, Typed', Known, AllAnswered, Next
    PROVE  AllAnswered'
<1>1. /\ UNCHANGED policy /\ now' >= now /\ now' \in Nat
      /\ \A s \in Subjects : \A v \in Raw : lastIn'[s][v] >= lastIn[s][v]
    BY ConfigStays, TimePasses DEF Typed
<1>2. /\ stage \in [Holders -> Stages] /\ req \in [Holders -> Requests]
      /\ asOf \in [Holders -> Nat] /\ raw \in [Holders -> Seq(STRING)] /\ now \in Nat
    BY DEF Typed
<1>3. CASE UNCHANGED <<stage, req, asOf, raw>>
    BY <1>1, <1>3, StillAnswered DEF AllAnswered
<1>4. ASSUME NEW h \in Holders, SignOn(h), NEW j \in Holders
      PROVE  Answered(j)'
    <2>1. CASE j # h
        <3>1. /\ \E to : stage' = [stage EXCEPT ![h] = to]
              /\ (\E r : req' = [req EXCEPT ![h] = r]) \/ req' = req
              /\ (\E t : asOf' = [asOf EXCEPT ![h] = t]) \/ asOf' = asOf
              /\ (\E v : raw' = [raw EXCEPT ![h] = v]) \/ raw' = raw
            BY <1>4, Zenon DEF SignOn, NewSession, RefuseGroupsAlreadySet, FromToken, AskProvider,
                ProviderAnswers, RefuseGroups, RefuseNoSubject, Resolve, Refuse, Move
        <3>2. stage'[j] = stage[j] /\ req'[j] = req[j] /\ asOf'[j] = asOf[j] /\ raw'[j] = raw[j]
            BY <1>2, <2>1, <3>1
        <3>3. QED
            BY <1>1, <3>2, StillAnswered DEF AllAnswered
    <2>2. CASE NewSession(h) /\ j = h
        BY <1>1, <1>2, <2>2 DEF NewSession, Move, Answered, provider
    <2>3. CASE ProviderAnswers(h) /\ j = h
        BY <2>3, ProviderAnswersLater DEF AllAnswered
    <2>4. CASE FromToken(h) /\ j = h
        <3>1. /\ policy.shape # "provider-call" /\ stage[h] = "called" /\ UNCHANGED <<asOf, now>>
            BY <2>4 DEF FromToken, Refuse, provider
        <3>2. asOf[h] <= now
            BY <3>1 DEF AllAnswered, Answered
        <3>3. QED
            BY <1>1, <2>4, <3>1, <3>2, Zenon DEF Answered
    <2>5. CASE AskProvider(h) /\ j = h
        BY <1>1, <1>2, <2>5 DEF AskProvider, Refuse, Move, AllAnswered, Answered, provider
    <2>6. CASE (RefuseGroupsAlreadySet(h) \/ RefuseGroups(h) \/ RefuseNoSubject(h) \/ Resolve(h))
               /\ j = h
        <3>1. stage'[h] \in {"refused", "open"}
            BY <1>2, <2>6 DEF RefuseGroupsAlreadySet, RefuseGroups, RefuseNoSubject, Resolve, Refuse, Move
        <3>2. QED
            BY <2>6, <3>1 DEF Answered
    <2>7. QED
        BY <1>4, <2>1, <2>2, <2>3, <2>4, <2>5, <2>6 DEF SignOn
<1>5. ASSUME NEW h \in Holders, NEW k \in Holders, Derive(h, k)
      PROVE  UNCHANGED <<stage, req, asOf, raw>>
    BY <1>5 DEF Derive, WithSourceAssertion, ForSource, signOns
<1>6. Outside => UNCHANGED <<stage, req, asOf, raw>>
    BY DEF Outside, Write, Leave, Tick, signOns
<1> QED
    BY <1>3, <1>4, <1>5, <1>6 DEF Next, AllAnswered

\* A principal that is left alone, or that its holder writes to, is as recent as
\* it was.
LEMMA StillRecent ==
    ASSUME Typed, Typed', NEW j \in Holders, Recent(j), UNCHANGED policy,
           \A s \in Subjects : \A v \in Raw : lastIn'[s][v] >= lastIn[s][v],
           held'[j] = held[j],
           \/ lineage'[j] = lineage[j] /\ GroupsOf(j)' = GroupsOf(j)
           \/ lineage'[j].written
    PROVE  Recent(j)'
<1> SUFFICES ASSUME held'[j].kind = "principal", policy'.shape = "provider-call",
                    ~lineage'[j].written
             PROVE  /\ lineage'[j].subject \in Subjects
                    /\ \A g \in GroupsOf(j)' : \E v \in Raw :
                          /\ policy'.mapping[v] = g
                          /\ lastIn'[lineage'[j].subject][v] >= held'[j].asOf
    BY Zenon DEF Recent
<1> DEFINE s == lineage[j].subject
<1>1. lineage'[j] = lineage[j] /\ GroupsOf(j)' = GroupsOf(j)
    OBVIOUS
<1>2. /\ s \in Subjects
      /\ \A g \in GroupsOf(j) : \E v \in Raw :
            policy.mapping[v] = g /\ lastIn[s][v] >= held[j].asOf
    BY <1>1 DEF Recent
<1>3. \A v \in Raw : lastIn[s][v] \in Nat /\ lastIn'[s][v] \in Nat
    BY <1>2 DEF Typed
<1>4. held[j].asOf \in Nat
    BY DEF Typed, Principals
<1>5. \A v \in Raw : lastIn[s][v] >= held[j].asOf => lastIn'[s][v] >= held[j].asOf
    BY <1>2, <1>3, <1>4
<1> QED
    BY <1>1, <1>2, <1>5

\* A sign-on that is let in has groups no older than it says.
LEMMA SignedOnRecent ==
    ASSUME Typed, NEW h \in Holders, Signs(h), Answered(h), UNCHANGED <<lastIn, policy>>
    PROVE  Recent(h)'
<1>1. /\ held'[h].asOf = asOf[h] /\ lineage'[h].subject = req[h].subject
      /\ GroupsOf(h)' = ResolvedGroups(policy, raw[h])
    BY SignedOnIs, Zenon DEF Signs, Fills
<1>2. req[h].subject \in Subjects
    BY DEF Signs, Resolve, Typed, Subjects
<1>3. stage[h] = "given"
    BY DEF Signs, Resolve
<1>4. ASSUME policy.shape = "provider-call", NEW g \in ResolvedGroups(policy, raw[h])
      PROVE  \E v \in Raw : policy.mapping[v] = g /\ lastIn[req[h].subject][v] >= asOf[h]
    <2>1. PICK i \in DOMAIN raw[h] : policy.mapping[raw[h][i]] = g
        BY <1>4 DEF ResolvedGroups
    <2>2. raw[h][i] \in Raw /\ lastIn[req[h].subject][raw[h][i]] >= asOf[h]
        BY <1>3, <1>4, <2>1 DEF Answered
    <2>3. QED
        BY <2>1, <2>2
<1> QED
    BY <1>1, <1>2, <1>4 DEF Recent

\* A copy is as old as what it was made of, whoever made it and when.
LEMMA AssertedRecent ==
    ASSUME Typed, NEW h \in Holders, NEW k \in Holders, NEW source \in Sources,
           NEW value \in SourceAnswers, Asserts(h, k, source, value), Recent(h),
           UNCHANGED <<lastIn, policy>>
    PROVE  Recent(k)'
<1>1. HoldingsTyped
    BY DEF Typed, HoldingsTyped
<1>2. held[h].kind = "principal"
    BY DEF Asserts, WithSourceAssertion, MayDerive
<1> DEFINE v == Asserting(h, source, value)
           w == AssertingFrom(h, source, value)
<1>3. /\ v.asOf = held[h].asOf /\ w.subject = lineage[h].subject
      /\ w.written = lineage[h].written
    BY <1>1, AssertingIs, Zenon
<1>4. /\ held'[k].asOf = v.asOf /\ lineage'[k] = w /\ GroupsOf(k)' = GroupsOf(h)
    BY Zenon DEF Asserts, Fills
<1> HIDE DEF v, w
<1> QED
    BY <1>2, <1>3, <1>4 DEF Recent

\* No step makes a principal out to be more recent than its groups are.
LEMMA RecentStays ==
    ASSUME Base, Typed', Known, AllAnswered, AllRecent, Next
    PROVE  AllRecent'
<1>1. /\ Typed /\ Apart /\ UNCHANGED policy
      /\ \A s \in Subjects : \A v \in Raw : lastIn'[s][v] >= lastIn[s][v]
    BY ConfigStays, TimePasses DEF Base
<1>2. Changes
    BY <1>1, StepsChange
<1>3. ASSUME NEW j \in Holders, held'[j] = held[j], lineage'[j] = lineage[j],
             GroupsOf(j)' = GroupsOf(j)
      PROVE  Recent(j)'
    BY <1>1, <1>3, StillRecent DEF AllRecent
<1>4. CASE UNCHANGED <<held, array, lineage>>
    <2>1. \A j \in Holders : GroupsOf(j)' = GroupsOf(j)
        BY <1>4 DEF GroupsOf
    <2>2. QED
        BY <1>3, <1>4, <2>1 DEF AllRecent
<1>5. ASSUME NEW h \in Holders, Wrote(h), NEW j \in Holders
      PROVE  Recent(j)'
    <2>1. held'[j] = held[j]
        BY <1>5 DEF Wrote
    <2>2. CASE j # h
        BY <1>3, <1>5, <2>1, <2>2, Zenon DEF Wrote
    <2>3. CASE j = h
        <3>1. lineage'[h].written
            BY <1>1, <1>5 DEF Wrote, Typed, Lineages
        <3>2. QED
            BY <1>1, <2>1, <2>3, <3>1, StillRecent DEF AllRecent
    <2>4. QED
        BY <2>2, <2>3
<1>6. ASSUME NEW k \in Holders, Recent(k)',
             \A j \in Holders : j # k => /\ held'[j] = held[j] /\ lineage'[j] = lineage[j]
                                         /\ GroupsOf(j)' = GroupsOf(j)
      PROVE  AllRecent'
    BY <1>3, <1>6 DEF AllRecent
<1>7. ASSUME NEW h \in Holders, Signs(h)
      PROVE  AllRecent'
    <2>1. UNCHANGED lastIn
        BY <1>7 DEF Signs, Resolve, provider
    <2>2. Recent(h)'
        BY <1>1, <1>7, <2>1, SignedOnRecent DEF AllAnswered
    <2>3. QED
        BY <1>6, <1>7, <2>2, Zenon DEF Signs, Fills
<1>8. ASSUME NEW h \in Holders, NEW k \in Holders, NEW source \in Sources,
             NEW value \in SourceAnswers, Asserts(h, k, source, value)
      PROVE  AllRecent'
    <2>1. UNCHANGED lastIn
        BY <1>8 DEF Asserts, WithSourceAssertion, provider
    <2>2. Recent(k)'
        BY <1>1, <1>8, <2>1, AssertedRecent DEF AllRecent
    <2>3. QED
        BY <1>6, <1>8, <2>2, Zenon DEF Asserts, Fills
<1>9. ASSUME NEW h \in Holders, NEW k \in Holders, NEW source \in Sources, Faces(h, k, source)
      PROVE  AllRecent'
    <2>1. HoldingsTyped
        BY <1>1 DEF Typed, HoldingsTyped
    <2>2. held'[k].kind = "authz"
        BY <1>9, <2>1, FacingIs, Zenon DEF Faces, Fills
    <2>3. Recent(k)'
        BY <2>2 DEF Recent
    <2>4. QED
        BY <1>6, <1>9, <2>3, Zenon DEF Faces, Fills
<1> QED
    BY <1>2, <1>4, <1>5, <1>7, <1>8, <1>9, Zenon DEF Changes, AllRecent

Fresh == Known /\ AllAnswered /\ AllRecent

\* What is not stale names no group its subject had left for longer than it may
\* go on counting, however late the provider answered and however many copies
\* were made since.
THEOREM FreshGroupsAreAlwaysRecent == Spec => []FreshGroupsAreRecent
<1>1. Init => Base /\ Fresh
    <2> SUFFICES ASSUME Init
                 PROVE  Base /\ Fresh
        OBVIOUS
    <2>1. Base
        BY InitTypes DEF Init, Base, AllEmpty, Empty
    <2>2. Known
        BY DEF Init, Known
    <2>3. \A h \in Holders : stage[h] = "none" /\ held[h].kind = "nothing"
        BY NothingTyped DEF Init
    <2>4. QED
        BY <2>1, <2>2, <2>3 DEF Fresh, AllAnswered, Answered, AllRecent, Recent
<1>2. Base /\ Fresh /\ [Next]_vars => (Base /\ Fresh)'
    <2>1. Base /\ [Next]_vars => Base'
        BY TypesStay, EmptyStays DEF Base
    <2>2. ASSUME Base, Fresh, Next
          PROVE  Fresh'
        BY <2>1, <2>2, TimePasses, AnswersStay, RecentStays DEF Base, Fresh
    <2>3. ASSUME Fresh, UNCHANGED vars
          PROVE  Fresh'
        BY <2>3 DEF Fresh, Known, AllAnswered, Answered, AllRecent, Recent, GroupsOf,
            vars, config, provider, signOns, holdings
    <2>4. QED
        BY <2>1, <2>2, <2>3
<1>3. Base /\ Fresh => FreshGroupsAreRecent
    <2> SUFFICES ASSUME Base, Fresh, NEW h \in Holders, held[h].kind = "principal",
                        policy.shape = "provider-call", ~lineage[h].written, ~Stale(h),
                        NEW g \in GroupsOf(h)
                 PROVE  \E v \in Raw : /\ policy.mapping[v] = g
                                       /\ now - lastIn[lineage[h].subject][v] <= MaxGroupAge
        BY DEF FreshGroupsAreRecent
    <2>1. PICK v \in Raw : /\ lineage[h].subject \in Subjects /\ policy.mapping[v] = g
                           /\ lastIn[lineage[h].subject][v] >= held[h].asOf
        BY DEF Fresh, AllRecent, Recent
    <2>2. /\ now \in Nat /\ held[h].asOf \in Nat
          /\ lastIn[lineage[h].subject][v] \in Nat
        BY <2>1 DEF Base, Typed, Principals
    <2>3. now - held[h].asOf <= MaxGroupAge
        BY <2>2, TimesAssumption DEF Stale
    <2>4. now - lastIn[lineage[h].subject][v] <= MaxGroupAge
        BY <2>1, <2>2, <2>3, TimesAssumption
    <2>5. QED
        BY <2>1, <2>4
<1> QED
    BY <1>1, <1>2, <1>3, PTL DEF Spec

-----------------------------------------------------------------------------
(* Evaluate of internal/authz: for every principal and every permission set,  *)
(* of any length, the three passes compute its closed form, and what they      *)
(* permit is what the package promises of the entries as a set.                *)

\* The set under evaluation has entries and a length, whatever its size.
LEMMA SetsAreSequences ==
    ASSUME TypeOK
    PROVE  /\ permissions \in Seq([effect : STRING, type : STRING, value : STRING])
           /\ Len(permissions) \in Nat
           /\ DOMAIN permissions = 1 .. Len(permissions)
    BY SetsAssumption DEF TypeOK

\* The loop variables keep their types (authz.go:159-209).
THEOREM PassesAreTyped == PassesSpec => []TypeOK
<1>1. PassesInit => TypeOK
    BY SetsAssumption DEF PassesInit, TypeOK, Decisions, Reasons
<1>2. TypeOK /\ [PassesNext]_passesVars => TypeOK'
    <2> SUFFICES ASSUME TypeOK, [PassesNext]_passesVars PROVE TypeOK'
        OBVIOUS
    <2> USE SetsAreSequences DEF TypeOK
    <2>1. ASSUME NEW r \in Reasons, pass # "done", Return(Refusal(r)) PROVE TypeOK'
        BY <2>1 DEF Return, Decisions
    <2>2. ASSUME pass # "done", Return(Permit) PROVE TypeOK'
        BY <2>2 DEF Return, Decisions
    <2>3. CASE RefuseEmpty
        BY <2>1, <2>3 DEF RefuseEmpty, Reasons
    <2>4. CASE RefuseTerm
        BY <2>1, <2>4 DEF RefuseTerm, Reasons
    <2>5. CASE RefuseEffect
        BY <2>1, <2>5 DEF RefuseEffect, Reasons
    <2>6. CASE ReadEntry
        <3>1. [effect |-> permissions[index].effect, matched |-> Names(principal, permissions[index])] \in Resolved
            BY <2>6 DEF ReadEntry, Readable, Resolved, Names, Matches
        <3>2. QED
            BY <2>6, <3>1 DEF ReadEntry
    <2>7. CASE AllRead
        BY <2>7 DEF AllRead, Goto
    <2>8. CASE RefuseDenied
        BY <2>1, <2>8 DEF RefuseDenied, Reasons
    <2>9. CASE SkipDeny
        BY <2>9 DEF SkipDeny, Skip
    <2>10. CASE NothingDenied
        BY <2>10 DEF NothingDenied, Goto
    <2>11. CASE PermitAllowed
        BY <2>2, <2>11 DEF PermitAllowed
    <2>12. CASE SkipAllow
        BY <2>12 DEF SkipAllow, Skip
    <2>13. CASE RefuseUnnamed
        BY <2>1, <2>13 DEF RefuseUnnamed, Reasons
    <2>14. CASE UNCHANGED passesVars
        BY <2>14 DEF passesVars
    <2>15. QED
        BY <2>3, <2>4, <2>5, <2>6, <2>7, <2>8, <2>9, <2>10, <2>11, <2>12, <2>13, <2>14
        DEF PassesNext, Returned
<1>3. QED
    BY <1>1, <1>2, PTL DEF PassesSpec

\* A step that reads no entry keeps what is known of those read.
LEMMA NothingReadKeeps ==
    ASSUME ReadSoFar, UNCHANGED <<principal, permissions, resolved>>
    PROVE  ReadSoFar'
<1>1. (\A j \in 1 .. Len(resolved) : Readable(permissions[j]))'
    BY DEF ReadSoFar, Readable
<1>2. (\A j \in 1 .. Len(resolved) : resolved[j].effect = permissions[j].effect)'
    BY DEF ReadSoFar
<1>3. (\A j \in 1 .. Len(resolved) : resolved[j].matched <=> Names(principal, permissions[j]))'
    BY Zenon DEF ReadSoFar
<1>4. QED
    BY <1>1, <1>2, <1>3, Zenon DEF ReadSoFar

\* What the passes have gone over is what they have established, for a
\* permission set of any length (authz.go:159-209).
THEOREM PassesProgress == PassesSpec => []Progress
<1>1. PassesInit => Progress
    BY SetsAssumption
    DEF PassesInit, Progress, ReadSoFar, EverythingRead, NoDenyBehind, NoDenyAtAll, NoAllowBehind
<1>2. TypeOK /\ Progress /\ [PassesNext]_passesVars => Progress'
    <2> SUFFICES ASSUME TypeOK, Progress, [PassesNext]_passesVars PROVE Progress'
        OBVIOUS
    <2> USE SetsAreSequences
    <2>1. CASE RefuseEmpty \/ RefuseTerm \/ RefuseEffect \/ RefuseDenied
               \/ PermitAllowed \/ RefuseUnnamed
        <3>1. pass' = "done" /\ UNCHANGED <<principal, permissions, resolved>>
            BY <2>1 DEF RefuseEmpty, RefuseTerm, RefuseEffect, RefuseDenied, PermitAllowed,
                        RefuseUnnamed, Return
        <3>2. QED
            BY <3>1, NothingReadKeeps
            DEF Progress, EverythingRead, NoDenyBehind, NoDenyAtAll, NoAllowBehind
    <2>2. CASE ReadEntry
        <3> DEFINE r == [effect |-> permissions[index].effect, matched |-> Names(principal, permissions[index])]
        <3>1. /\ Len(resolved') = Len(resolved) + 1
              /\ resolved'[Len(resolved) + 1] = r
              /\ \A j \in 1 .. Len(resolved) : resolved'[j] = resolved[j]
            BY <2>2 DEF ReadEntry, TypeOK
        <3>2. Len(resolved) = index - 1 /\ index \in Nat /\ Len(resolved) \in Nat
            BY <2>2 DEF ReadEntry, TypeOK
        <3>3. Readable(permissions[index]) /\ UNCHANGED <<principal, permissions, pass>> /\ pass = "read"
            BY <2>2 DEF ReadEntry
        <3>4. ASSUME NEW j \in 1 .. Len(resolved')
              PROVE  /\ Readable(permissions[j])
                     /\ resolved'[j].effect = permissions[j].effect
                     /\ resolved'[j].matched <=> Names(principal, permissions[j])
            <4>1. CASE j = Len(resolved) + 1
                BY <4>1, <3>1, <3>2, <3>3
            <4>2. CASE j \in 1 .. Len(resolved)
                BY <4>2, <3>1 DEF Progress, ReadSoFar
            <4>3. QED
                BY <4>1, <4>2, <3>1, <3>2
        <3>5. ReadSoFar'
            BY <3>3, <3>4, Zenon DEF ReadSoFar
        <3>6. QED
            BY <3>3, <3>5 DEF Progress, EverythingRead, NoDenyBehind, NoDenyAtAll, NoAllowBehind
    <2>3. CASE AllRead
        <3>1. /\ pass' = "deny" /\ index' = 1 /\ UNCHANGED <<principal, permissions, resolved>>
              /\ Len(permissions) > 0 /\ Len(resolved) = Len(permissions)
            BY <2>3 DEF AllRead, Goto, TypeOK
        <3>2. \A j \in 1 .. index' - 1 : FALSE
            BY <3>1
        <3>3. QED
            BY <3>1, <3>2, NothingReadKeeps
            DEF Progress, EverythingRead, NoDenyBehind, NoDenyAtAll, NoAllowBehind
    <2>4. CASE SkipDeny
        <3>1. /\ pass = "deny" /\ index' = index + 1 /\ UNCHANGED <<principal, permissions, pass, resolved>>
              /\ index \in 1 .. Len(resolved)
            BY <2>4 DEF SkipDeny, Skip, TypeOK
        <3>2. Misses(index, Deny)
            BY <2>4, <3>1, Zenon DEF SkipDeny, Progress, ReadSoFar, Misses
        <3>3. \A j \in 1 .. index' - 1 : Misses(j, Deny)
            BY <3>1, <3>2 DEF TypeOK, Progress, NoDenyBehind
        <3>4. NoDenyBehind'
            BY <3>1, <3>3, Zenon DEF NoDenyBehind, Misses
        <3>5. QED
            BY <3>1, <3>4, NothingReadKeeps DEF Progress, EverythingRead, NoDenyAtAll, NoAllowBehind
    <2>5. CASE NothingDenied
        <3>1. /\ pass = "deny" /\ pass' = "allow" /\ index' = 1 /\ UNCHANGED <<principal, permissions, resolved>>
              /\ Len(permissions) = index - 1
            BY <2>5 DEF NothingDenied, Goto, TypeOK, Progress, EverythingRead
        <3>2. NoDenyAtAll'
            BY <3>1, Zenon DEF Progress, NoDenyBehind, NoDenyAtAll, Misses
        <3>3. \A j \in 1 .. index' - 1 : FALSE
            BY <3>1
        <3>4. QED
            BY <3>1, <3>2, <3>3, NothingReadKeeps
            DEF Progress, EverythingRead, NoDenyBehind, NoAllowBehind
    <2>6. CASE SkipAllow
        <3>1. /\ pass = "allow" /\ index' = index + 1 /\ UNCHANGED <<principal, permissions, pass, resolved>>
              /\ index \in 1 .. Len(resolved)
            BY <2>6 DEF SkipAllow, Skip, TypeOK
        <3>2. Misses(index, Allow)
            BY <2>6, <3>1, Zenon DEF SkipAllow, Progress, ReadSoFar, Misses
        <3>3. \A j \in 1 .. index' - 1 : Misses(j, Allow)
            BY <3>1, <3>2 DEF TypeOK, Progress, NoAllowBehind
        <3>4. NoAllowBehind'
            BY <3>1, <3>3, Zenon DEF NoAllowBehind, Misses
        <3>5. NoDenyAtAll'
            BY <3>1, Zenon DEF Progress, NoDenyAtAll, Misses
        <3>6. QED
            BY <3>1, <3>4, <3>5, NothingReadKeeps DEF Progress, EverythingRead, NoDenyBehind
    <2>7. CASE UNCHANGED passesVars
        BY <2>7, Zenon DEF passesVars, Progress, ReadSoFar, EverythingRead, NoDenyBehind, NoDenyAtAll,
                           NoAllowBehind, Misses
    <2>8. QED
        BY <2>1, <2>2, <2>3, <2>4, <2>5, <2>6, <2>7 DEF PassesNext, Returned
<1>3. QED
    BY <1>1, <1>2, PassesAreTyped, PTL DEF PassesSpec

-----------------------------------------------------------------------------

\* The reason of an unreadable set is that of its first unreadable entry: the
\* choice FirstUnreadable makes is the index the first pass stops at.
LEMMA FirstUnreadableIs ==
    ASSUME NEW n \in Nat, NEW s, DOMAIN s = 1 .. n, NEW k \in 1 .. n,
           ~ Readable(s[k]), \A j \in 1 .. k - 1 : Readable(s[j])
    PROVE  FirstUnreadable(s) = k
<1>1. ASSUME NEW m \in 1 .. n, ~ Readable(s[m]), \A j \in 1 .. m - 1 : Readable(s[j])
      PROVE  m = k
    <2>1. CASE m < k
        BY <1>1, <2>1 DEF Readable
    <2>2. CASE k < m
        BY <1>1, <2>2 DEF Readable
    <2>3. QED
        BY <2>1, <2>2
<1>2. QED
    BY <1>1 DEF FirstUnreadable, Readable

\* No step changes who asks or for which set, and nothing follows a return.
LEMMA StepsKeepTheQuestion ==
    ASSUME [PassesNext]_passesVars
    PROVE  UNCHANGED <<principal, permissions>> /\ (pass = "done" => UNCHANGED passesVars)
<1>1. CASE RefuseEmpty \/ RefuseTerm \/ RefuseEffect \/ RefuseDenied \/ PermitAllowed
           \/ RefuseUnnamed
    BY <1>1 DEF RefuseEmpty, RefuseTerm, RefuseEffect, RefuseDenied, PermitAllowed,
                RefuseUnnamed, Return
<1>2. CASE AllRead \/ SkipDeny \/ NothingDenied \/ SkipAllow
    BY <1>2 DEF AllRead, SkipDeny, NothingDenied, SkipAllow, Goto, Skip
<1>3. CASE ReadEntry
    BY <1>3 DEF ReadEntry
<1>4. CASE UNCHANGED passesVars
    BY <1>4 DEF passesVars
<1>5. QED
    BY <1>1, <1>2, <1>3, <1>4 DEF PassesNext, Returned

\* Evaluate's passes are its closed form, for every principal and every
\* permission set: reason included (authz.go:159-209).
THEOREM PassesComputeEvaluate == PassesSpec => []ComputesEvaluate
<1>1. PassesInit => ComputesEvaluate
    BY DEF PassesInit, ComputesEvaluate
<1>2. TypeOK /\ Progress /\ ComputesEvaluate /\ [PassesNext]_passesVars => ComputesEvaluate'
    <2> SUFFICES ASSUME TypeOK, Progress, ComputesEvaluate, [PassesNext]_passesVars,
                        pass # "done", pass' = "done", UNCHANGED <<principal, permissions>>
                 PROVE  decision' = Evaluate(principal, permissions)
        <3>1. CASE pass = "done"
            BY <3>1, StepsKeepTheQuestion, Zenon DEF ComputesEvaluate, passesVars
        <3>2. CASE pass' # "done"
            BY <3>2 DEF ComputesEvaluate
        <3>3. QED
            BY <3>1, <3>2, StepsKeepTheQuestion, Zenon DEF ComputesEvaluate
    <2> USE SetsAreSequences
    <2>1. ASSUME pass \in {"deny", "allow"}
          PROVE  /\ permissions # <<>>
                 /\ \A j \in DOMAIN permissions : Readable(permissions[j])
                 /\ Len(resolved) = Len(permissions)
        <3>1. Len(permissions) > 0 /\ Len(resolved) = Len(permissions)
            BY <2>1 DEF Progress, EverythingRead
        <3>2. \A j \in 1 .. Len(permissions) : Readable(permissions[j])
            BY <3>1, Zenon DEF Progress, ReadSoFar
        <3>3. QED
            BY <3>1, <3>2
    <2>2. ASSUME index \in 1 .. Len(permissions), pass = "read", ~ Readable(permissions[index])
          PROVE  /\ permissions # <<>>
                 /\ \E j \in DOMAIN permissions : ~ Readable(permissions[j])
                 /\ FirstUnreadable(permissions) = index
        <3>1. \A j \in 1 .. index - 1 : Readable(permissions[j])
            BY <2>2, Zenon DEF TypeOK, Progress, ReadSoFar
        <3>2. FirstUnreadable(permissions) = index
            BY <2>2, <3>1, FirstUnreadableIs
        <3>3. QED
            BY <2>2, <3>2
    <2>3. CASE RefuseEmpty
        BY <2>3 DEF RefuseEmpty, Return, Evaluate
    <2>4. CASE RefuseTerm
        <3>1. index \in 1 .. Len(permissions) /\ ~ Readable(permissions[index]) /\ pass = "read"
            BY <2>4 DEF RefuseTerm, Readable, TypeOK
        <3>2. UnreadableReason(permissions[index]) = "unrecognised-term"
            BY <2>4 DEF RefuseTerm, UnreadableReason
        <3>3. decision' = Refusal("unrecognised-term")
            BY <2>4 DEF RefuseTerm, Return
        <3>4. QED
            BY <2>2, <3>1, <3>2, <3>3, Zenon DEF Evaluate
    <2>5. CASE RefuseEffect
        <3>1. index \in 1 .. Len(permissions) /\ ~ Readable(permissions[index]) /\ pass = "read"
            BY <2>5 DEF RefuseEffect, Readable, TypeOK
        <3>2. UnreadableReason(permissions[index]) = "unrecognised-effect"
            BY <2>5 DEF RefuseEffect, UnreadableReason
        <3>3. decision' = Refusal("unrecognised-effect")
            BY <2>5 DEF RefuseEffect, Return
        <3>4. QED
            BY <2>2, <3>1, <3>2, <3>3, Zenon DEF Evaluate
    <2>6. CASE RefuseDenied
        <3>1. index \in 1 .. Len(resolved) /\ pass = "deny" /\ decision' = Refusal("denied-by-entry")
            BY <2>6 DEF RefuseDenied, Return, TypeOK
        <3>2. permissions[index].effect = Deny /\ Names(principal, permissions[index])
            BY <2>6, <3>1, Zenon DEF RefuseDenied, Progress, ReadSoFar
        <3>3. index \in DOMAIN permissions
            BY <2>1, <3>1
        <3>4. Hit(principal, permissions, Deny)
            BY <3>2, <3>3, Zenon DEF Hit
        <3>5. QED
            BY <2>1, <3>1, <3>4, Zenon DEF Evaluate
    <2>7. CASE PermitAllowed
        <3>1. index \in 1 .. Len(resolved) /\ pass = "allow" /\ decision' = Permit
            BY <2>7 DEF PermitAllowed, Return, TypeOK
        <3>2. permissions[index].effect = Allow /\ Names(principal, permissions[index])
            BY <2>7, <3>1, Zenon DEF PermitAllowed, Progress, ReadSoFar
        <3>3. index \in DOMAIN permissions
            BY <2>1, <3>1
        <3>4. Hit(principal, permissions, Allow)
            BY <3>2, <3>3, Zenon DEF Hit
        <3>5. ~ Hit(principal, permissions, Deny)
            BY <3>1, Zenon DEF Progress, NoDenyAtAll, Misses, Hit
        <3>6. QED
            BY <2>1, <3>1, <3>4, <3>5, Zenon DEF Evaluate
    <2>8. CASE RefuseUnnamed
        <3>1. pass = "allow" /\ index = Len(permissions) + 1 /\ decision' = Refusal("matched-nothing")
            BY <2>1, <2>8 DEF RefuseUnnamed, Return, TypeOK
        <3>2. 1 .. index - 1 = DOMAIN permissions
            BY <3>1
        <3>3. ~ Hit(principal, permissions, Deny)
            BY <3>1, Zenon DEF Progress, NoDenyAtAll, Misses, Hit
        <3>4. ~ Hit(principal, permissions, Allow)
            BY <3>1, <3>2, Zenon DEF Progress, NoAllowBehind, Misses, Hit
        <3>5. QED
            BY <2>1, <3>1, <3>3, <3>4, Zenon DEF Evaluate
    <2>9. CASE ReadEntry \/ AllRead \/ SkipDeny \/ NothingDenied \/ SkipAllow \/ UNCHANGED passesVars
        BY <2>9 DEF ReadEntry, AllRead, SkipDeny, NothingDenied, SkipAllow, Goto, Skip, passesVars
    <2>10. QED
        BY <2>3, <2>4, <2>5, <2>6, <2>7, <2>8, <2>9 DEF PassesNext, Returned
<1>3. QED
    BY <1>1, <1>2, PassesAreTyped, PassesProgress, PTL DEF PassesSpec

\* The closed form permits exactly what is promised of the entries as a set.
LEMMA EvaluateIsPromised ==
    ASSUME NEW q, NEW s \in Seq([effect : STRING, type : STRING, value : STRING])
    PROVE  Evaluate(q, s).allowed <=> Promised(q, Entries(s))
<1>1. CASE s = <<>>
    BY <1>1 DEF Evaluate, Promised, Entries, Refusal
<1>2. CASE \E j \in DOMAIN s : ~ Readable(s[j])
    <2>1. ~ Evaluate(q, s).allowed
        BY <1>2 DEF Evaluate, Refusal
    <2>2. ~ Promised(q, Entries(s))
        BY <1>2, Zenon DEF Promised, Entries
    <2>3. QED
        BY <2>1, <2>2
<1>3. CASE s # <<>> /\ \A j \in DOMAIN s : Readable(s[j])
    <2>1. Evaluate(q, s).allowed <=> ~ Hit(q, s, Deny) /\ Hit(q, s, Allow)
        <3>1. CASE Hit(q, s, Deny)
            BY <1>3, <3>1 DEF Evaluate, Refusal
        <3>2. CASE ~ Hit(q, s, Deny) /\ Hit(q, s, Allow)
            BY <1>3, <3>2 DEF Evaluate, Permit
        <3>3. CASE ~ Hit(q, s, Deny) /\ ~ Hit(q, s, Allow)
            BY <1>3, <3>3 DEF Evaluate, Refusal
        <3>4. QED
            BY <3>1, <3>2, <3>3
    <2>2. \A e \in Entries(s) : Readable(e)
        BY <1>3, Zenon DEF Entries
    <2>3. ASSUME NEW effect
          PROVE  Hit(q, s, effect) <=> \E e \in Entries(s) : e.effect = effect /\ Names(q, e)
        BY Zenon DEF Entries, Hit
    <2>4. QED
        BY <2>1, <2>2, <2>3, Zenon DEF Promised
<1>4. QED
    BY <1>1, <1>2, <1>3

\* What Evaluate permits is what is promised, so the order of the entries
\* never decides who reaches a document (authz.go:159-209).
THEOREM PermitsWhatIsPromised == PassesSpec => []AllowedIsPromised
<1>1. TypeOK /\ ComputesEvaluate => AllowedIsPromised
    BY SetsAreSequences, EvaluateIsPromised, Zenon DEF ComputesEvaluate, AllowedIsPromised
<1>2. QED
    BY <1>1, PassesAreTyped, PassesComputeEvaluate, PTL

=============================================================================
