-------------------------------- MODULE Auth --------------------------------
(***************************************************************************)
(* internal/auth: from claims and a provider's group values to what          *)
(* internal/authz is asked about.  Callers sign on, derive principals from   *)
(* principals and keep them, while the provider's membership changes and     *)
(* time goes by; a provider may answer long after it was asked.              *)
(*                                                                         *)
(* Groups are a reference to an array, as a slice is, because Groups is      *)
(* exported and a holder may write to it; the array holds a set, as the code *)
(* sorts and dedupes.  The map of identities is unexported and never written *)
(* once built, so it is a value.                                             *)
(***************************************************************************)
EXTENDS Authz, Integers, FiniteSets, SequencesExt

CONSTANTS
    Holders,          \* the variables callers keep principals in
    Arrays, Nil,      \* the arrays groups are kept in, and no array
    Sources,          \* the source systems
    Raw,              \* the group values the provider knows
    Requests,         \* what sign-ons arrive with
    Policies,         \* the group policies a deployment may write
    Configurations,   \* the mapping entries it may write, as sequences
    SourceAnswers,    \* the names a source may assert
    Writes,           \* what a holder may write into its Groups
    PermissionSets,   \* the permissions documents carry
    MaxGroupAge, MaxTime

ASSUME TimesAssumption == MaxGroupAge \in Nat /\ MaxTime \in Nat

\* A request names who signs on and carries what their token does, if anything.
ASSUME RequestsAssumption ==
    /\ Requests # {}
    /\ Requests \subseteq [subject : STRING, groups : BOOLEAN, values : Seq(STRING), asker : BOOLEAN,
                           claim : {"present", "absent", "unreadable"}]

ASSUME ConfigurationsAssumption ==
    Configurations \subseteq Seq([subject : STRING, source : STRING, value : STRING])

\* A provider lists finitely many values.
ASSUME NamesAssumption ==
    /\ Raw \subseteq STRING /\ IsFiniteSet(Raw)
    /\ Sources \subseteq STRING /\ SourceAnswers \subseteq STRING

ASSUME ArraysAssumption ==
    /\ Nil \notin Arrays
    /\ IsFiniteSet(Arrays) /\ Cardinality(Arrays) >= Cardinality(Holders)

VARIABLES
    lines, policy,    \* the configuration, which does not change
    now,
    member, lastIn,   \* the provider's memberships, and when each last held
    stage, req, asOf, \* each sign-on: where it is, its arguments, its resolvedAt
    raw,              \* the values it was given
    held, array,      \* what each holder holds; the arrays behind it
    lineage           \* where that came from (history)

config == <<lines, policy>>
provider == <<now, member, lastIn>>
signOns == <<stage, req, asOf, raw>>
holdings == <<held, array, lineage>>
vars == <<config, provider, signOns, holdings>>

Subjects == {r.subject : r \in Requests} \ {""}

-----------------------------------------------------------------------------
(* NewMapping: every line is whole, and no two say who a subject is in one   *)
(* source.                                                                   *)

Whole(e) == e.subject # "" /\ e.source # "" /\ e.value # ""

\* Plausible slip: the line written last wins.
NewMappingLastWins(entries) == \A i \in DOMAIN entries : Whole(entries[i])

NewMapping(entries) ==
    /\ \A i \in DOMAIN entries : Whole(entries[i])
    /\ \A i, j \in DOMAIN entries :
          entries[i].subject = entries[j].subject /\ entries[i].source = entries[j].source
              => i = j

LinesFor(subject, source) ==
    {i \in DOMAIN lines : lines[i].subject = subject /\ lines[i].source = source}

NoIdentity == [value |-> "", by |-> "nobody"]

\* mapping.entries[subject][source]: the last line for them, were there several.
Configured(subject, source) ==
    IF LinesFor(subject, source) = {} THEN NoIdentity
    ELSE LET i == CHOOSE i \in LinesFor(subject, source) :
                     \A j \in LinesFor(subject, source) : j <= i
         IN  [value |-> lines[i].value, by |-> "configuration"]

-----------------------------------------------------------------------------
(* Groups: the policy, and the values mapped under it.                       *)

Validate(p) ==
    /\ \/ p.shape \in {"names", "identifiers"} /\ p.claimed
       \/ p.shape = "provider-call" /\ ~p.claimed
    /\ p.max > 0
    /\ \A g \in p.administrative : \E v \in DOMAIN p.mapping : p.mapping[v] = g

\* Plausible slip: a value without a mapping is passed over.
ResolvesWhatItCan(p, values) == Validate(p) /\ Len(values) <= p.max

Resolves(p, values) ==
    /\ Validate(p)
    /\ Len(values) <= p.max
    /\ \A i \in DOMAIN values : values[i] \in DOMAIN p.mapping

ResolvedGroups(p, values) ==
    {p.mapping[v] : v \in {values[i] : i \in DOMAIN values} \cap DOMAIN p.mapping}

-----------------------------------------------------------------------------
(* Holding principals.  ref is the array of Groups; ids is the identity map. *)

Nothing == [kind |-> "nothing", subject |-> "", ref |-> Nil, asOf |-> 0,
            ids |-> [s \in Sources |-> NoIdentity], administrative |-> FALSE]

NoLineage == [subject |-> "", source |-> "", values |-> <<>>, asserted |-> {}, written |-> FALSE]

GroupsOf(h) == IF held[h].ref = Nil THEN {} ELSE array[held[h].ref]

\* slices.Clone: an array nobody else holds.
Unused == {a \in Arrays : \A h \in Holders : held[h].ref # a}

Hold(h, value, groups, from) ==
    /\ \E a \in Unused :
          /\ held' = [held EXCEPT ![h] = [value EXCEPT !.ref = a]]
          /\ array' = [array EXCEPT ![a] = groups]
    /\ lineage' = [lineage EXCEPT ![h] = from]

Init ==
    /\ lines \in {c \in Configurations : NewMapping(c)}
    /\ policy \in Policies
    /\ now = 0
    /\ member = [s \in Subjects |-> Raw]
    /\ lastIn = [s \in Subjects |-> [v \in Raw |-> 0]]
    /\ stage = [h \in Holders |-> "none"]
    /\ req = [h \in Holders |-> CHOOSE r \in Requests : TRUE]
    /\ asOf = [h \in Holders |-> 0]
    /\ raw = [h \in Holders |-> <<>>]
    /\ held = [h \in Holders |-> Nothing]
    /\ array = [a \in Arrays |-> {}]
    /\ lineage = [h \in Holders |-> NoLineage]

-----------------------------------------------------------------------------
(* NewSession *)

Move(h, to) == stage' = [stage EXCEPT ![h] = to]

\* The caller states the time it resolves at as it calls.
NewSession(h) ==
    /\ stage[h] = "none" /\ held[h] = Nothing
    /\ \E r \in Requests : req' = [req EXCEPT ![h] = r]
    /\ asOf' = [asOf EXCEPT ![h] = now]
    /\ Move(h, "called")
    /\ UNCHANGED <<config, provider, raw, holdings>>

Refuse(h) == Move(h, "refused") /\ UNCHANGED <<config, provider, req, asOf, raw, holdings>>

RefuseGroupsAlreadySet(h) ==
    /\ stage[h] = "called" /\ req[h].groups
    /\ Refuse(h)

\* GroupValues: the token at the claim, or nothing if it carries no such claim.
FromToken(h) ==
    /\ stage[h] = "called" /\ ~req[h].groups /\ policy.shape # "provider-call"
    /\ IF Validate(policy) /\ req[h].claim # "unreadable"
       THEN /\ raw' = [raw EXCEPT ![h] = IF req[h].claim = "absent" THEN <<>> ELSE req[h].values]
            /\ Move(h, "given")
            /\ UNCHANGED <<config, provider, req, asOf, holdings>>
       ELSE Refuse(h)

\* The policy is validated and the subject looked at only once it has answered.
AskProvider(h) ==
    /\ stage[h] = "called" /\ ~req[h].groups /\ policy.shape = "provider-call"
    /\ IF req[h].asker
       THEN Move(h, "asking") /\ UNCHANGED <<config, provider, req, asOf, raw, holdings>>
       ELSE Refuse(h)

\* The provider answers with what is true by then, knows of no such subject, or
\* fails; the context ending is one more failure.
ProviderAnswers(h) ==
    /\ stage[h] = "asking"
    /\ \/ Refuse(h)
       \/ /\ raw' = [raw EXCEPT ![h] = IF req[h].subject \in Subjects
                                       THEN SetToSeq(member[req[h].subject]) ELSE <<>>]
          /\ Move(h, "given")
          /\ UNCHANGED <<config, provider, req, asOf, holdings>>

RefuseGroups(h) ==
    /\ stage[h] = "given" /\ ~Resolves(policy, raw[h])
    /\ Refuse(h)

RefuseNoSubject(h) ==
    /\ stage[h] = "given" /\ Resolves(policy, raw[h]) /\ req[h].subject = ""
    /\ Refuse(h)

Resolve(h) ==
    LET groups == ResolvedGroups(policy, raw[h])
        subject == req[h].subject
    IN  /\ stage[h] = "given" /\ Resolves(policy, raw[h]) /\ subject # ""
        /\ Hold(h, [kind |-> "principal", subject |-> subject, ref |-> Nil, asOf |-> asOf[h],
                    ids |-> [s \in Sources |-> Configured(subject, s)],
                    administrative |-> groups \cap policy.administrative # {}],
                groups, [NoLineage EXCEPT !.subject = subject, !.values = raw[h]])
        /\ Move(h, "open")
        /\ UNCHANGED <<config, provider, req, asOf, raw>>

-----------------------------------------------------------------------------
(* Principals from principals: h's, kept in k.                               *)

MayDerive(h, k) ==
    held[h].kind = "principal" /\ stage[k] = "none" /\ held[k] = Nothing

\* Plausible slips: the copy shares its groups, or counts its age from now.
WithSourceAssertionShared(h, k, source, value) ==
    /\ MayDerive(h, k) /\ value # ""
    /\ held' = [held EXCEPT ![k] = [held[h] EXCEPT
                                      !.ids[source] = [value |-> value, by |-> "source"]]]
    /\ lineage' = [lineage EXCEPT ![k] = [lineage[h] EXCEPT
                                            !.asserted = {<<source, value>>} \cup
                                                {a \in @ : a[1] # source}]]
    /\ UNCHANGED <<config, provider, signOns, array>>

WithSourceAssertionRenewed(h, k, source, value) ==
    /\ MayDerive(h, k) /\ value # ""
    /\ Hold(k, [held[h] EXCEPT !.ids[source] = [value |-> value, by |-> "source"], !.asOf = now],
            GroupsOf(h),
            [lineage[h] EXCEPT !.asserted = {<<source, value>>} \cup {a \in @ : a[1] # source}])
    /\ UNCHANGED <<config, provider, signOns>>

\* A source's own answer replaces what was known of that source, in a copy.
WithSourceAssertion(h, k, source, value) ==
    /\ MayDerive(h, k) /\ value # ""
    /\ Hold(k, [held[h] EXCEPT !.ids[source] = [value |-> value, by |-> "source"]], GroupsOf(h),
            [lineage[h] EXCEPT !.asserted = {<<source, value>>} \cup {a \in @ : a[1] # source}])
    /\ UNCHANGED <<config, provider, signOns>>

IdentityIn(h, source) == held[h].ids[source].by # "nobody"

\* Plausible slip: an unmapped user goes by the provider's name for them.
ForSourceFallsBack(h, k, source) ==
    /\ MayDerive(h, k)
    /\ Hold(k, [Nothing EXCEPT !.kind = "authz",
                               !.subject = IF IdentityIn(h, source) THEN held[h].ids[source].value
                                           ELSE held[h].subject],
            GroupsOf(h), [lineage[h] EXCEPT !.source = source])
    /\ UNCHANGED <<config, provider, signOns>>

\* An unmapped user is the zero authz.Principal, which has no groups either.
ForSource(h, k, source) ==
    /\ MayDerive(h, k)
    /\ IF IdentityIn(h, source)
       THEN Hold(k, [Nothing EXCEPT !.kind = "authz", !.subject = held[h].ids[source].value],
                 GroupsOf(h), [lineage[h] EXCEPT !.source = source])
       ELSE /\ held' = [held EXCEPT ![k] = [Nothing EXCEPT !.kind = "authz"]]
            /\ lineage' = [lineage EXCEPT ![k] = [lineage[h] EXCEPT !.source = source]]
            /\ UNCHANGED array
    /\ UNCHANGED <<config, provider, signOns>>

-----------------------------------------------------------------------------
(* Outside the package: a holder writes to Groups, the provider changes its  *)
(* mind, time passes.                                                        *)

Write(h, groups) ==
    /\ held[h].ref # Nil
    /\ array' = [array EXCEPT ![held[h].ref] = groups]
    /\ lineage' = [lineage EXCEPT ![h].written = TRUE]
    /\ UNCHANGED <<config, provider, signOns, held>>

Leave(s, v) ==
    /\ v \in member[s]
    /\ member' = [member EXCEPT ![s] = @ \ {v}]
    /\ UNCHANGED <<config, now, lastIn, signOns, holdings>>

Tick ==
    /\ now < MaxTime
    /\ now' = now + 1
    /\ lastIn' = [s \in Subjects |->
                    [v \in Raw |-> IF v \in member[s] THEN now + 1 ELSE lastIn[s][v]]]
    /\ UNCHANGED <<config, member, signOns, holdings>>

-----------------------------------------------------------------------------

SignOn(h) ==
    \/ NewSession(h) \/ RefuseGroupsAlreadySet(h) \/ FromToken(h) \/ AskProvider(h)
    \/ ProviderAnswers(h) \/ RefuseGroups(h) \/ RefuseNoSubject(h) \/ Resolve(h)

Derive(h, k) ==
    \E source \in Sources :
        \/ \E value \in SourceAnswers : WithSourceAssertion(h, k, source, value)
        \/ ForSource(h, k, source)

Outside ==
    \/ \E h \in Holders, groups \in Writes : Write(h, groups)
    \/ \E s \in Subjects, v \in Raw : Leave(s, v)
    \/ Tick

Next ==
    \/ \E h \in Holders : SignOn(h) \/ \E k \in Holders : Derive(h, k)
    \/ Outside

Spec == Init /\ [][Next]_vars

-----------------------------------------------------------------------------

\* Two principals never share an array: the groups a holder kept change under
\* it by its own writing and nobody else's (principal.go:175, 206, 276).
GroupsAreNotShared ==
    [][\A h \in Holders :
          held'[h] = held[h] /\ GroupsOf(h)' # GroupsOf(h) =>
              \E groups \in Writes : Write(h, groups)]_vars

\* Everything the provider or the token said is in the session's groups, or
\* there is no session: nothing is cut off, dropped or added, and a sign-on that
\* is refused or not over leaves its holder with nothing
\* (groups.go:186-216, principal.go:78-96).
SessionsAreWhole ==
    /\ \A h \in Holders : stage[h] \notin {"none", "open"} => held[h] = Nothing
    /\ \A h \in Holders : held[h].kind = "principal" /\ ~lineage[h].written =>
          LET values == lineage[h].values
          IN  /\ Len(values) <= policy.max
              /\ \A i \in DOMAIN values : \E g \in GroupsOf(h) :
                    values[i] \in DOMAIN policy.mapping /\ policy.mapping[values[i]] = g
              /\ \A g \in GroupsOf(h) : \E i \in DOMAIN values : policy.mapping[values[i]] = g

\* An identity is the one line the operator wrote for the subject and the
\* source, or the last thing that source said (principal.go:133-218).
IdentitiesAreAccounted ==
    \A h \in Holders, s \in Sources : held[h].kind = "principal" =>
        LET id == held[h].ids[s]
            said == {a \in lineage[h].asserted : a[1] = s}
            written == LinesFor(lineage[h].subject, s)
        IN  IF said # {} THEN id.by = "source" /\ said = {<<s, id.value>>}
            ELSE IF id.by = "nobody" THEN written = {}
            ELSE \E i \in DOMAIN lines : written = {i} /\ lines[i].value = id.value

Stale(h) == now - held[h].asOf > MaxGroupAge

\* A principal that is not stale names no group its subject had left more than
\* MaxGroupAge ago, however long the provider took and however the principal
\* was passed on, where the provider is asked (principal.go:98-110, 240-249).
FreshGroupsAreRecent ==
    \A h \in Holders :
        held[h].kind = "principal" /\ policy.shape = "provider-call" /\ ~lineage[h].written
            /\ ~Stale(h) =>
        \A g \in GroupsOf(h) : \E v \in Raw :
            policy.mapping[v] = g /\ now - lastIn[lineage[h].subject][v] <= MaxGroupAge

\* A document is reached only by somebody an entry of it names: under the
\* identity its own source or the operator's one line gave them, or by a group
\* some value of their sign-on maps to (principal.go:251-278, authz.go:150-209).
AccessIsAccounted ==
    \A h \in Holders, set \in PermissionSets :
        LET who == [subject |-> held[h].subject, groups |-> GroupsOf(h)]
            from == lineage[h]
        IN  held[h].kind = "authz" /\ ~from.written /\ Evaluate(who, set).allowed =>
                \E i \in DOMAIN set :
                    \/ /\ set[i].type = TermUser
                       /\ \/ <<from.source, set[i].value>> \in from.asserted
                          \/ \E l \in LinesFor(from.subject, from.source) :
                                lines[l].value = set[i].value
                    \/ /\ set[i].type = TermGroup
                       /\ \E j \in DOMAIN from.values :
                             policy.mapping[from.values[j]] = set[i].value

=============================================================================
