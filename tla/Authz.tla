------------------------------- MODULE Authz -------------------------------
(***************************************************************************)
(* internal/authz: how one permission set is resolved against one           *)
(* principal.  Evaluate here is the function's result in closed form; the   *)
(* module AuthzPasses is the three loops that compute it.                   *)
(*                                                                         *)
(* Subjects, groups and term values are strings and "" is the empty one.    *)
(* A permission set is a sequence, as the slice is, because the code stops   *)
(* at the first entry it cannot read; what it promises is about the set of   *)
(* entries.  Decision.Detail, a wording of the entry, is left out.           *)
(***************************************************************************)
EXTENDS Naturals, Sequences

Allow == "allow"
Deny  == "deny"
Effects == {Allow, Deny}

TermUser  == "user"
TermGroup == "group"
TermTypes == {TermUser, TermGroup}              \* the key set of matchers

\* Whether a principal is the one a term names.
Matches(p, type, value) ==
    /\ value # ""
    /\ \/ type = TermUser  /\ value = p.subject
       \/ type = TermGroup /\ value \in p.groups

Readable(e) == e.type \in TermTypes /\ e.effect \in Effects

Names(p, e) == Matches(p, e.type, e.value)

UnreadableReason(e) ==
    IF e.type \notin TermTypes THEN "unrecognised-term" ELSE "unrecognised-effect"

Reasons == {"empty-permission-set", "unrecognised-term", "unrecognised-effect",
            "denied-by-entry", "matched-nothing", "allowed-by-entry"}

Refusal(reason) == [allowed |-> FALSE, reason |-> reason]
Permit          == [allowed |-> TRUE,  reason |-> "allowed-by-entry"]
ZeroDecision    == [allowed |-> FALSE, reason |-> ""]
Decisions == {ZeroDecision, Permit} \cup {Refusal(r) : r \in Reasons}

FirstUnreadable(set) ==
    CHOOSE i \in DOMAIN set : /\ ~Readable(set[i])
                              /\ \A j \in 1 .. i - 1 : Readable(set[j])

Hit(p, set, effect) == \E i \in DOMAIN set : set[i].effect = effect /\ Names(p, set[i])

\* What Evaluate(p, set) returns.
Evaluate(p, set) ==
    IF set = <<>> THEN Refusal("empty-permission-set")
    ELSE IF \E i \in DOMAIN set : ~Readable(set[i])
         THEN Refusal(UnreadableReason(set[FirstUnreadable(set)]))
    ELSE IF Hit(p, set, Deny)  THEN Refusal("denied-by-entry")
    ELSE IF Hit(p, set, Allow) THEN Permit
    ELSE Refusal("matched-nothing")

-----------------------------------------------------------------------------
(***************************************************************************)
(* What the package promises of an answer, said of the entries as a set and *)
(* without a pass, an order or an early return: a document is reached only  *)
(* through a set every entry of which can be read, that names the principal *)
(* in an allow and in no deny.                                              *)
(***************************************************************************)
Entries(set) == {set[i] : i \in DOMAIN set}

Promised(p, entries) ==
    /\ \A e \in entries : Readable(e)
    /\ \E e \in entries : e.effect = Allow /\ Names(p, e)
    /\ ~ \E e \in entries : e.effect = Deny /\ Names(p, e)

=============================================================================
