---------------------------- MODULE AuthzPasses ----------------------------
(***************************************************************************)
(* Evaluate of internal/authz/authz.go, loop by loop: a first pass that      *)
(* reads every entry or refuses, a second over the denies, a third over the  *)
(* allows.  i is the loop index, resolved the slice the first pass builds.   *)
(***************************************************************************)
EXTENDS Authz

CONSTANTS
    Askers,     \* who may ask
    Sets        \* the permission sets a document may carry

ASSUME AskersAssumption == Askers \subseteq [subject : STRING, groups : SUBSET STRING]

ASSUME SetsAssumption ==
    Sets \subseteq Seq([effect : STRING, type : STRING, value : STRING])

VARIABLES principal, permissions, pass, index, resolved, decision

passesVars == <<principal, permissions, pass, index, resolved, decision>>

Resolved == [effect : Effects, matched : BOOLEAN]

PassesInit ==
    /\ principal \in Askers
    /\ permissions \in Sets
    /\ pass = "read"
    /\ index = 1
    /\ resolved = <<>>
    /\ decision = ZeroDecision

Return(d) ==
    /\ pass' = "done"
    /\ decision' = d
    /\ UNCHANGED <<principal, permissions, index, resolved>>

Goto(next) ==
    /\ pass' = next
    /\ index' = 1
    /\ UNCHANGED <<principal, permissions, resolved, decision>>

Skip ==
    /\ index' = index + 1
    /\ UNCHANGED <<principal, permissions, pass, resolved, decision>>

-----------------------------------------------------------------------------
(* The plausible wrong versions of the steps below, which the runs must see. *)

\* The decision is written and the loop goes on: a missing return.
RefuseTermWithoutReturn ==
    /\ pass = "read" /\ index <= Len(permissions)
    /\ permissions[index].type \notin TermTypes
    /\ decision' = Refusal("unrecognised-term")
    /\ index' = index + 1
    /\ UNCHANGED <<principal, permissions, pass, resolved>>

\* An empty set falls through to the refusal of a set that names nobody.
RefuseEmptyAsUnnamed ==
    /\ pass = "read" /\ Len(permissions) = 0
    /\ Return(Refusal("matched-nothing"))

\* An allow permits whomever it names.
PermitAnyAllow ==
    /\ pass = "allow" /\ index <= Len(resolved)
    /\ resolved[index].effect = Allow
    /\ Return(Permit)

-----------------------------------------------------------------------------

\* A set with no entries is refused before anything is read.
RefuseEmpty ==
    /\ pass = "read" /\ Len(permissions) = 0
    /\ Return(Refusal("empty-permission-set"))

\* An entry of a term type that is not in matchers ends the first pass.
RefuseTerm ==
    /\ pass = "read" /\ index <= Len(permissions)
    /\ permissions[index].type \notin TermTypes
    /\ Return(Refusal("unrecognised-term"))

\* So does an entry whose effect is neither allow nor deny.
RefuseEffect ==
    /\ pass = "read" /\ index <= Len(permissions)
    /\ permissions[index].type \in TermTypes
    /\ permissions[index].effect \notin Effects
    /\ Return(Refusal("unrecognised-effect"))

\* Any other entry is read: its matcher runs here, once.
ReadEntry ==
    /\ pass = "read" /\ index <= Len(permissions)
    /\ Readable(permissions[index])
    /\ index' = index + 1
    /\ resolved' = Append(resolved, [effect  |-> permissions[index].effect,
                                     matched |-> Names(principal, permissions[index])])
    /\ UNCHANGED <<principal, permissions, pass, decision>>

AllRead == pass = "read" /\ Len(permissions) # 0 /\ index > Len(permissions) /\ Goto("deny")

RefuseDenied ==
    /\ pass = "deny" /\ index <= Len(resolved)
    /\ resolved[index].effect = Deny /\ resolved[index].matched
    /\ Return(Refusal("denied-by-entry"))

SkipDeny ==
    /\ pass = "deny" /\ index <= Len(resolved)
    /\ ~ (resolved[index].effect = Deny /\ resolved[index].matched)
    /\ Skip

NothingDenied == pass = "deny" /\ index > Len(resolved) /\ Goto("allow")

PermitAllowed ==
    /\ pass = "allow" /\ index <= Len(resolved)
    /\ resolved[index].effect = Allow /\ resolved[index].matched
    /\ Return(Permit)

SkipAllow ==
    /\ pass = "allow" /\ index <= Len(resolved)
    /\ ~ (resolved[index].effect = Allow /\ resolved[index].matched)
    /\ Skip

RefuseUnnamed ==
    /\ pass = "allow" /\ index > Len(resolved)
    /\ Return(Refusal("matched-nothing"))

\* The call is over: a state with no other step is one that has returned, so
\* a pass that could get stuck is a deadlock.
Returned == pass = "done" /\ UNCHANGED passesVars

PassesNext ==
    \/ RefuseEmpty \/ RefuseTerm \/ RefuseEffect \/ ReadEntry \/ AllRead
    \/ RefuseDenied \/ SkipDeny \/ NothingDenied
    \/ PermitAllowed \/ SkipAllow \/ RefuseUnnamed
    \/ Returned

PassesSpec == PassesInit /\ [][PassesNext]_passesVars

-----------------------------------------------------------------------------

\* The types of the loop variables, with the index never past the entry after
\* the last and the zero Decision until a return (authz.go:159-209).
TypeOK ==
    /\ principal \in Askers
    /\ permissions \in Sets
    /\ pass \in {"read", "deny", "allow", "done"}
    /\ index \in 1 .. Len(permissions) + 1
    /\ resolved \in Seq(Resolved)
    /\ Len(resolved) <= Len(permissions)
    /\ pass = "read" => Len(resolved) = index - 1
    /\ decision \in Decisions
    /\ pass # "done" => decision = ZeroDecision

ReadSoFar ==
    \A j \in 1 .. Len(resolved) :
        /\ Readable(permissions[j])
        /\ resolved[j].effect = permissions[j].effect
        /\ resolved[j].matched <=> Names(principal, permissions[j])

EverythingRead ==
    pass \in {"deny", "allow"} => Len(permissions) > 0 /\ Len(resolved) = Len(permissions)

Misses(j, effect) == ~ (permissions[j].effect = effect /\ Names(principal, permissions[j]))

NoDenyBehind == pass = "deny" => \A j \in 1 .. index - 1 : Misses(j, Deny)

NoDenyAtAll == pass = "allow" => \A j \in 1 .. Len(permissions) : Misses(j, Deny)

NoAllowBehind == pass = "allow" => \A j \in 1 .. index - 1 : Misses(j, Allow)

\* What the passes have established when one of them is under way: the slice
\* resolved is the entries read so far, each with the matcher's answer, and
\* nothing the running pass has gone over made it return (authz.go:176-208).
Progress == ReadSoFar /\ EverythingRead /\ NoDenyBehind /\ NoDenyAtAll /\ NoAllowBehind

\* The answer depends on the entries as a set and on nothing else: permitted
\* exactly when every entry can be read, an allow names the principal and no
\* deny does, whatever the order (authz.go:159-209, docs/permissions.md:10).
AllowedIsPromised ==
    pass = "done" => (decision.allowed <=> Promised(principal, Entries(permissions)))

\* The loops compute the closed form, the reason included: in particular the
\* reason of an unreadable set is that of its first unreadable entry, and a
\* matched deny is reported as such even beside a matched allow.
ComputesEvaluate == pass = "done" => decision = Evaluate(principal, permissions)

=============================================================================
